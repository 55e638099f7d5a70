-------------------------- MODULE ThreadPoolProofs --------------------------
(***************************************************************************)
(* Theorems about ThreadPool and the BoundedQueue in it, for every         *)
(* capacity, every set of work orders, producers and workers and every     *)
(* batch size.                                                             *)
(***************************************************************************)
EXTENDS ThreadPool, SequenceTheorems, TLAPS

-----------------------------------------------------------------------------
(* The invariant.                                                          *)

Entry == [by : Producers, item : Items]

QueueTypes ==
  /\ cap \in Nat
  /\ container \in Seq(Items)
  /\ waiting \in Seq(Consumers)
  /\ pushing \in Seq(Entry)
  /\ poisoned \in BOOLEAN
  /\ blocked \subseteq Threads
  /\ smp \in [Threads -> Nat]
  /\ dst \in [Consumers -> Items \cup {Nothing}]
  /\ fresh \subseteq Items
  /\ received \subseteq Items
  /\ dropped \subseteq Items

PoolTypes ==
  /\ workerVec \in Seq(Consumers)
  /\ leaving \subseteq Consumers
  /\ locked \subseteq Consumers
  /\ epochs \in [Consumers -> Nat]
  /\ order \in [Consumers -> SUBSET Items]
  /\ finished \subseteq Items

Distinct(s) == \A m, n \in 1 .. Len(s) : s[m] = s[n] => m = n

DistinctBy   == \A m, n \in 1 .. Len(pushing) : pushing[m].by = pushing[n].by => m = n
DistinctItem == \A m, n \in 1 .. Len(pushing) : pushing[m].item = pushing[n].item => m = n

\* Each call has one entry in its vector, until the vectors are given up.
Callers ==
  /\ SemaphoreOnce
  /\ ~poisoned => Distinct(waiting)
  /\ ~poisoned => DistinctBy

\* The items of the queue are different, and so are the items handed over,
\* which only calls that have been released hold.
Goods ==
  /\ EveryItemOnce
  /\ ~poisoned => Distinct(container)
  /\ ~poisoned => DistinctItem
  /\ ~poisoned => Elements(container) \cap PushingItems = {}
  /\ \A c \in Consumers : dst[c] # Nothing => c \in blocked /\ smp[c] = 1
  /\ \A c, d \in Consumers : dst[c] = dst[d] /\ dst[c] # Nothing => c = d

Queue == QueueTypes /\ NobodyWaitsInVain /\ Callers /\ Goods

\* An epoch is begun in a batch that has epochs left, and a worker that waits
\* for an order has none.  Workers leave one by one, or all together once the
\* queue is poisoned.
Batches ==
  /\ Distinct(workerVec)
  /\ locked \subseteq attached
  /\ leaving \subseteq attached
  /\ poisoned => leaving = attached
  /\ \A w \in Consumers : InEpoch(w) => w \in locked /\ epochs[w] > 0
  /\ \A w \in Consumers : w \in blocked => order[w] = {}

-----------------------------------------------------------------------------
(* Sequences.                                                              *)

\* A member of a sequence is at one of its positions.
LEMMA ElementsMember ==
  ASSUME NEW S, NEW s \in Seq(S)
  PROVE  /\ Elements(s) \subseteq S
         /\ \A n \in 1 .. Len(s) : s[n] \in Elements(s)
         /\ \A x \in Elements(s) : \E n \in 1 .. Len(s) : s[n] = x
         /\ s = <<>> <=> Elements(s) = {}
         /\ Len(s) \in Nat
<1>1. Len(s) \in Nat
  BY LenProperties
<1>2. s = <<>> <=> Len(s) = 0
  BY EmptySeq
<1>3. \A n \in 1 .. Len(s) : s[n] \in S
  BY ElementOfSeq
<1>4. Len(s) # 0 => 1 \in 1 .. Len(s)
  BY <1>1
<1>5. Len(s) = 0 => 1 .. Len(s) = {}
  BY <1>1
<1>6. QED BY <1>1, <1>2, <1>3, <1>4, <1>5 DEF Elements

\* An element is appended.
LEMMA ElementsAppend ==
  ASSUME NEW S, NEW s \in Seq(S), NEW e \in S
  PROVE  /\ Append(s, e) \in Seq(S)
         /\ Append(s, e) # <<>>
         /\ Len(Append(s, e)) = Len(s) + 1
         /\ Elements(Append(s, e)) = Elements(s) \cup {e}
         /\ \A n \in 1 .. Len(s) : Append(s, e)[n] = s[n]
         /\ Append(s, e)[Len(s) + 1] = e
<1> DEFINE a == Append(s, e)
<1>1. /\ a \in Seq(S) /\ Len(a) = Len(s) + 1
      /\ \A n \in 1 .. Len(s) : a[n] = s[n]
      /\ a[Len(s) + 1] = e
      /\ a # <<>>
  BY AppendProperties
<1>2. Len(s) \in Nat
  BY LenProperties
<1> HIDE DEF a
<1>3. 1 .. Len(a) = 1 .. Len(s) \cup {Len(s) + 1}
  BY <1>1, <1>2
<1>4. Elements(a) = Elements(s) \cup {e}
  BY <1>1, <1>3 DEF Elements
<1>5. QED BY <1>1, <1>4 DEF a

\* The first element is taken off.
LEMMA ElementsTail ==
  ASSUME NEW S, NEW s \in Seq(S), s # <<>>
  PROVE  /\ Tail(s) \in Seq(S)
         /\ Head(s) \in S
         /\ Head(s) = s[1]
         /\ Len(s) \in Nat \ {0}
         /\ Len(Tail(s)) = Len(s) - 1
         /\ \A n \in 1 .. Len(Tail(s)) : n + 1 \in 1 .. Len(s) /\ Tail(s)[n] = s[n + 1]
         /\ Elements(s) = {Head(s)} \cup Elements(Tail(s))
<1> DEFINE t == Tail(s)
<1>1. /\ t \in Seq(S) /\ Head(s) \in S
      /\ Len(t) = Len(s) - 1
      /\ \A n \in 1 .. Len(t) : t[n] = s[n + 1]
  BY HeadTailProperties
<1>2. Len(s) \in Nat \ {0} /\ Head(s) = s[1]
  BY EmptySeq
<1> HIDE DEF t
<1>3. \A n \in 1 .. Len(t) : n + 1 \in 1 .. Len(s)
  BY <1>1, <1>2
<1>4. \A n \in 1 .. Len(s) : n = 1 \/ (n - 1 \in 1 .. Len(t) /\ (n - 1) + 1 = n)
  BY <1>1, <1>2
<1>5. 1 \in 1 .. Len(s)
  BY <1>2
<1>6. Elements(s) = {Head(s)} \cup Elements(t)
  <2>1. \A x \in Elements(s) : x = Head(s) \/ x \in Elements(t)
    <3> SUFFICES ASSUME NEW n \in 1 .. Len(s), n # 1
                 PROVE  s[n] \in Elements(t)
      BY <1>2 DEF Elements
    <3>1. n - 1 \in 1 .. Len(t) /\ (n - 1) + 1 = n
      BY <1>4
    <3>2. t[n - 1] = s[n]
      BY <1>1, <3>1
    <3>3. QED BY <3>1, <3>2 DEF Elements
  <2>2. Head(s) \in Elements(s)
    BY <1>2, <1>5 DEF Elements
  <2>3. \A x \in Elements(t) : x \in Elements(s)
    BY <1>1, <1>3 DEF Elements
  <2>4. QED BY <2>1, <2>2, <2>3
<1>7. QED BY <1>1, <1>2, <1>3, <1>6 DEF t

\* Taken off a sequence of different elements, it is gone.
LEMMA DistinctTail ==
  ASSUME NEW S, NEW s \in Seq(S), s # <<>>, Distinct(s)
  PROVE  /\ Distinct(Tail(s))
         /\ Elements(Tail(s)) = Elements(s) \ {Head(s)}
<1> DEFINE t == Tail(s)
<1>1. /\ Len(s) \in Nat \ {0} /\ Head(s) = s[1] /\ Len(t) = Len(s) - 1
      /\ \A n \in 1 .. Len(t) : n + 1 \in 1 .. Len(s) /\ t[n] = s[n + 1]
      /\ Elements(s) = {Head(s)} \cup Elements(t)
  BY ElementsTail
<1> HIDE DEF t
<1>2. Distinct(t)
  <2> SUFFICES ASSUME NEW m \in 1 .. Len(t), NEW n \in 1 .. Len(t), t[m] = t[n]
               PROVE  m = n
    BY DEF Distinct
  <2>1. m + 1 = n + 1
    BY <1>1 DEF Distinct
  <2>2. QED BY <2>1
<1>3. 1 \in 1 .. Len(s) /\ \A n \in 1 .. Len(t) : n + 1 # 1
  BY <1>1
<1>4. \A n \in 1 .. Len(t) : t[n] # s[1]
  BY <1>1, <1>3 DEF Distinct
<1>5. Head(s) \notin Elements(t)
  BY <1>1, <1>4 DEF Elements
<1>6. QED BY <1>1, <1>2, <1>5 DEF t

\* A new element keeps the elements different.
LEMMA DistinctAppend ==
  ASSUME NEW S, NEW s \in Seq(S), Distinct(s), NEW e \in S, e \notin Elements(s)
  PROVE  Distinct(Append(s, e))
<1> DEFINE a == Append(s, e)
<1>1. /\ Len(a) = Len(s) + 1
      /\ \A n \in 1 .. Len(s) : a[n] = s[n]
      /\ a[Len(s) + 1] = e
      /\ Len(s) \in Nat
  BY ElementsAppend, LenProperties
<1>2. \A n \in 1 .. Len(s) : s[n] # e
  BY DEF Elements
<1> HIDE DEF a
<1>3. \A n \in 1 .. Len(a) : n \in 1 .. Len(s) \/ n = Len(s) + 1
  BY <1>1
<1>4. Distinct(a)
  BY <1>1, <1>2, <1>3 DEF Distinct
<1>5. QED BY <1>4 DEF a

\* One element is erased.
LEMMA EraseOne ==
  ASSUME NEW S, NEW s \in Seq(S), Distinct(s), NEW k \in 1 .. Len(s)
  PROVE  /\ Erase(s, k) \in Seq(S)
         /\ Distinct(Erase(s, k))
         /\ Elements(Erase(s, k)) = Elements(s) \ {s[k]}
<1> DEFINE a == SubSeq(s, 1, k - 1)
           b == SubSeq(s, k + 1, Len(s))
           e == a \o b
<1>1. Len(s) \in Nat /\ k \in Nat /\ 1 <= k /\ k <= Len(s)
  BY LenProperties
<1>2. \A n \in 1 .. Len(s) : s[n] \in S
  BY ElementOfSeq
<1>3. /\ a \in Seq(S)
      /\ Len(a) = IF 1 <= k - 1 THEN (k - 1) - 1 + 1 ELSE 0
      /\ \A i \in 1 .. (k - 1) - 1 + 1 : a[i] = s[1 + i - 1]
  BY <1>1, <1>2, SubSeqProperties
<1>4. /\ b \in Seq(S)
      /\ Len(b) = IF k + 1 <= Len(s) THEN Len(s) - (k + 1) + 1 ELSE 0
      /\ \A i \in 1 .. Len(s) - (k + 1) + 1 : b[i] = s[k + 1 + i - 1]
  BY <1>1, <1>2, SubSeqProperties
<1> HIDE DEF a, b
<1>5. /\ e \in Seq(S)
      /\ Len(e) = Len(a) + Len(b)
      /\ \A i \in 1 .. Len(a) + Len(b) : e[i] = IF i <= Len(a) THEN a[i] ELSE b[i - Len(a)]
  BY <1>3, <1>4, ConcatProperties
<1> HIDE DEF e
<1>6. Len(a) = k - 1 /\ Len(b) = Len(s) - k
  BY <1>1, <1>3, <1>4
<1>7. Len(e) = Len(s) - 1
  BY <1>1, <1>5, <1>6
<1>8. ASSUME NEW i \in 1 .. Len(e)
      PROVE  e[i] = s[IF i < k THEN i ELSE i + 1]
  <2>1. i \in 1 .. Len(a) + Len(b) /\ (i <= Len(a) <=> i < k)
    BY <1>1, <1>6, <1>7
  <2>2. CASE i < k
    <3>1. i \in 1 .. (k - 1) - 1 + 1 /\ 1 + i - 1 = i
      BY <1>1, <2>2
    <3>2. e[i] = a[i]
      BY <1>5, <2>1, <2>2
    <3>3. QED BY <1>3, <2>2, <3>1, <3>2
  <2>3. CASE ~(i < k)
    <3>1. /\ i - Len(a) \in 1 .. Len(s) - (k + 1) + 1
          /\ k + 1 + (i - Len(a)) - 1 = i + 1
      BY <1>1, <1>6, <1>7, <2>3
    <3>2. e[i] = b[i - Len(a)]
      BY <1>5, <2>1, <2>3
    <3>3. QED BY <1>4, <2>3, <3>1, <3>2
  <2>4. QED BY <2>2, <2>3
<1> DEFINE p(i) == IF i < k THEN i ELSE i + 1
<1>9. \A i \in 1 .. Len(e) : p(i) \in 1 .. Len(s) /\ p(i) # k
  BY <1>1, <1>7
<1>10. \A i, j \in 1 .. Len(e) : p(i) = p(j) => i = j
  BY <1>1, <1>7
<1>11. \A n \in 1 .. Len(s) : n # k => \E i \in 1 .. Len(e) : p(i) = n
  <2> TAKE n \in 1 .. Len(s)
  <2> HAVE n # k
  <2>1. CASE n < k
    BY <1>1, <1>7, <2>1
  <2>2. CASE n > k
    <3>1. n - 1 \in 1 .. Len(e) /\ p(n - 1) = n
      BY <1>1, <1>7, <2>2
    <3>2. QED BY <3>1
  <2>3. QED BY <1>1, <2>1, <2>2
<1>12. \A i \in 1 .. Len(e) : e[i] = s[p(i)]
  BY <1>8
<1> HIDE DEF p
<1>13. Distinct(e)
  BY <1>9, <1>10, <1>12 DEF Distinct
<1>14. Elements(e) \subseteq Elements(s) \ {s[k]}
  BY <1>9, <1>12 DEF Distinct, Elements
<1>15. Elements(s) \ {s[k]} \subseteq Elements(e)
  <2> SUFFICES ASSUME NEW x \in Elements(s), x # s[k]
               PROVE  x \in Elements(e)
    OBVIOUS
  <2>1. PICK n \in 1 .. Len(s) : x = s[n]
    BY DEF Elements
  <2>2. n # k
    BY <2>1
  <2>3. PICK i \in 1 .. Len(e) : p(i) = n
    BY <1>11, <2>2
  <2>4. QED BY <1>12, <2>1, <2>3 DEF Elements
<1>16. Erase(s, k) = e
  BY DEF Erase, e, a, b
<1>17. QED BY <1>5, <1>13, <1>14, <1>15, <1>16

-----------------------------------------------------------------------------
(* pushing_arg_vec.                                                        *)

\* The calls and the items in pushing_arg_vec.
LEMMA PushingMember ==
  ASSUME pushing \in Seq(Entry)
  PROVE  /\ PushingBy \subseteq Producers
         /\ PushingItems \subseteq Items
         /\ pushing = <<>> <=> PushingBy = {}
         /\ pushing = <<>> <=> PushingItems = {}
         /\ \A x \in PushingBy : \E n \in 1 .. Len(pushing) : pushing[n].by = x
         /\ \A x \in PushingItems : \E n \in 1 .. Len(pushing) : pushing[n].item = x
<1>1. /\ Elements(pushing) \subseteq Entry
      /\ \A x \in Elements(pushing) : \E n \in 1 .. Len(pushing) : pushing[n] = x
      /\ pushing = <<>> <=> Elements(pushing) = {}
  BY ElementsMember
<1>2. \A a \in Entry : a.by \in Producers /\ a.item \in Items
  BY DEF Entry
<1>3. QED BY <1>1, <1>2 DEF PushingBy, PushingItems

\* push() records a blocked call.
LEMMA PushingAppend ==
  ASSUME pushing \in Seq(Entry), NEW p \in Producers, NEW i \in Items,
         pushing' = Append(pushing, [by |-> p, item |-> i])
  PROVE  /\ pushing' \in Seq(Entry)
         /\ pushing' # <<>>
         /\ PushingBy' = PushingBy \cup {p}
         /\ PushingItems' = PushingItems \cup {i}
         /\ DistinctBy /\ p \notin PushingBy => DistinctBy'
         /\ DistinctItem /\ i \notin PushingItems => DistinctItem'
<1> DEFINE e == [by |-> p, item |-> i]
<1>1. e \in Entry /\ e.by = p /\ e.item = i
  BY DEF Entry
<1> HIDE DEF e
<1>2. pushing' = Append(pushing, e)
  BY DEF e
<1>3. /\ pushing' \in Seq(Entry) /\ pushing' # <<>>
      /\ Len(pushing') = Len(pushing) + 1
      /\ Elements(pushing') = Elements(pushing) \cup {e}
      /\ \A n \in 1 .. Len(pushing) : pushing'[n] = pushing[n]
      /\ pushing'[Len(pushing) + 1] = e
  BY <1>1, <1>2, ElementsAppend
<1>4. Len(pushing) \in Nat
  BY LenProperties
<1>5. \A n \in 1 .. Len(pushing') : n \in 1 .. Len(pushing) \/ n = Len(pushing) + 1
  BY <1>3, <1>4
<1>6. PushingBy' = PushingBy \cup {p} /\ PushingItems' = PushingItems \cup {i}
  BY <1>1, <1>3 DEF PushingBy, PushingItems
<1>7. \A n \in 1 .. Len(pushing) : pushing[n].by \in PushingBy /\ pushing[n].item \in PushingItems
  BY DEF PushingBy, PushingItems, Elements
<1>8. DistinctBy /\ p \notin PushingBy => DistinctBy'
  BY <1>1, <1>3, <1>5, <1>7 DEF DistinctBy
<1>9. DistinctItem /\ i \notin PushingItems => DistinctItem'
  BY <1>1, <1>3, <1>5, <1>7 DEF DistinctItem
<1>10. QED BY <1>3, <1>6, <1>8, <1>9

\* pop() takes the first recorded call.
LEMMA PushingTail ==
  ASSUME pushing \in Seq(Entry), pushing # <<>>, pushing' = Tail(pushing),
         DistinctBy, DistinctItem
  PROVE  /\ pushing' \in Seq(Entry)
         /\ Head(pushing).by \in PushingBy
         /\ Head(pushing).item \in PushingItems
         /\ PushingBy' = PushingBy \ {Head(pushing).by}
         /\ PushingItems' = PushingItems \ {Head(pushing).item}
         /\ DistinctBy'
         /\ DistinctItem'
<1> DEFINE h == Head(pushing)
<1>1. /\ pushing' \in Seq(Entry)
      /\ h = pushing[1]
      /\ Len(pushing) \in Nat \ {0}
      /\ Len(pushing') = Len(pushing) - 1
      /\ \A n \in 1 .. Len(pushing') : n + 1 \in 1 .. Len(pushing) /\ pushing'[n] = pushing[n + 1]
      /\ Elements(pushing) = {h} \cup Elements(pushing')
  BY ElementsTail
<1> HIDE DEF h
<1>2. /\ 1 \in 1 .. Len(pushing)
      /\ \A n \in 1 .. Len(pushing') : n + 1 # 1
      /\ \A m, n \in 1 .. Len(pushing') : m + 1 = n + 1 => m = n
  BY <1>1
<1>3. /\ PushingBy = {h.by} \cup PushingBy'
      /\ PushingItems = {h.item} \cup PushingItems'
  BY <1>1 DEF PushingBy, PushingItems
<1>4. \A n \in 1 .. Len(pushing') : pushing'[n].by # h.by
  BY <1>1, <1>2 DEF DistinctBy
<1>5. \A n \in 1 .. Len(pushing') : pushing'[n].item # h.item
  BY <1>1, <1>2 DEF DistinctItem
<1>6. h.by \notin PushingBy' /\ h.item \notin PushingItems'
  BY <1>4, <1>5 DEF PushingBy, PushingItems, Elements
<1>7. DistinctBy'
  BY <1>1, <1>2 DEF DistinctBy
<1>8. DistinctItem'
  BY <1>1, <1>2 DEF DistinctItem
<1>9. QED BY <1>1, <1>3, <1>6, <1>7, <1>8 DEF h

-----------------------------------------------------------------------------
(* The steps of the queue keep its invariant.                              *)

\* The queue starts empty, and nobody calls it.
LEMMA QueueInit == Init => Queue
<1> SUFFICES ASSUME Init PROVE Queue
  OBVIOUS
<1>1. cap \in Nat
  BY CapAssumption DEF Init
<1>2. \A S : <<>> \in Seq(S)
  BY EmptySeq
<1>3. Len(<<>>) = 0 /\ 1 .. 0 = {}
  BY EmptySeq
<1>4. Elements(<<>>) = {}
  BY <1>3 DEF Elements
<1>5. PushingBy = {} /\ PushingItems = {}
  BY <1>4 DEF Init, PushingBy, PushingItems
<1>6. QueueTypes
  BY <1>1, <1>2 DEF Init, QueueTypes, Threads
<1>7. NobodyWaitsInVain
  BY <1>1, <1>3 DEF Init, NobodyWaitsInVain
<1>8. Callers
  BY <1>3, <1>4, <1>5 DEF Init, Callers, SemaphoreOnce, Distinct, DistinctBy
<1>9. EveryItemOnce
  BY <1>4, <1>5 DEF Init, EveryItemOnce, Stored, InHand
<1>10. Goods
  BY <1>3, <1>4, <1>5, <1>9 DEF Init, Goods, Distinct, DistinctItem
<1>11. QED BY <1>6, <1>7, <1>8, <1>10 DEF Queue

\* push, pop, poison and the returns from their semaphores keep the types.
LEMMA QueueTypesStep == QueueTypes /\ Next => QueueTypes'
<1> SUFFICES ASSUME QueueTypes, Next PROVE QueueTypes'
  OBVIOUS
<1> USE DEF QueueTypes
<1>1. \A p \in Producers : p \in Threads
  BY DEF Threads
<1>2. \A c \in Consumers : c \in Threads
  BY DEF Threads
<1>3. waiting # <<>> => Head(waiting) \in Consumers /\ Tail(waiting) \in Seq(Consumers)
  BY ElementsTail
<1>4. container # <<>> => Head(container) \in Items /\ Tail(container) \in Seq(Items)
  BY ElementsTail
<1>5. pushing # <<>> => /\ Head(pushing).by \in Producers /\ Head(pushing).item \in Items
                        /\ Tail(pushing) \in Seq(Entry)
  <2>1. pushing # <<>> => Head(pushing) \in Entry /\ Tail(pushing) \in Seq(Entry)
    BY ElementsTail
  <2>2. QED BY <2>1 DEF Entry
<1>6. ASSUME NEW p \in Producers, NEW i \in Items, PushHand(p, i) PROVE QueueTypes'
  BY <1>2, <1>3, <1>6 DEF PushHand, release
<1>7. ASSUME NEW p \in Producers, NEW i \in Items, PushBlock(p, i) PROVE QueueTypes'
  BY <1>1, <1>7, PushingAppend DEF PushBlock
<1>8. ASSUME NEW p \in Producers, NEW i \in Items, PushStore(p, i) PROVE QueueTypes'
  BY <1>8, ElementsAppend DEF PushStore
<1>9. ASSUME NEW c \in Consumers, PopPushing(c) PROVE QueueTypes'
  BY <1>1, <1>5, <1>9 DEF PopPushing, release
<1>10. ASSUME NEW c \in Consumers, PopStored(c) PROVE QueueTypes'
  BY <1>4, <1>10 DEF PopStored
<1>11. ASSUME NEW c \in Consumers, PopWait(c) PROVE QueueTypes'
  BY <1>2, <1>11, ElementsAppend DEF PopWait
<1>12. ASSUME NEW p \in Producers, PushReturn(p) PROVE QueueTypes'
  BY <1>1, <1>12 DEF PushReturn
<1>13. ASSUME NEW c \in Consumers, PopReturn(c) PROVE QueueTypes'
  BY <1>2, <1>13 DEF PopReturn
<1>14. ASSUME Poison PROVE QueueTypes'
  <2>1. Elements(container) \subseteq Items /\ PushingItems \subseteq Items
    BY ElementsMember, PushingMember
  <2>2. smp' \in [Threads -> Nat]
    BY <1>14 DEF Poison
  <2>3. dst' \in [Consumers -> Items \cup {Nothing}]
    BY <1>14 DEF Poison
  <2>4. QED BY <1>14, <2>1, <2>2, <2>3 DEF Poison
<1>15. ASSUME NEW i \in Items, Again(i) PROVE QueueTypes'
  BY <1>15 DEF Again
<1>16. QED
  BY <1>6, <1>7, <1>8, <1>9, <1>10, <1>11, <1>12, <1>13, <1>14, <1>15 DEF Next, Push, Pop

\* Nobody waits in vain: a producer looks for waiting consumers and for room
\* before it waits, a consumer for waiting producers and for items.
LEMMA WaitStep == QueueTypes /\ NobodyWaitsInVain /\ Next => NobodyWaitsInVain'
<1> SUFFICES ASSUME QueueTypes, NobodyWaitsInVain, Next PROVE NobodyWaitsInVain'
  OBVIOUS
<1>0. /\ cap \in Nat /\ container \in Seq(Items) /\ waiting \in Seq(Consumers)
      /\ pushing \in Seq(Entry) /\ Len(container) \in Nat
  BY LenProperties DEF QueueTypes
<1>1. ASSUME NEW p \in Producers, NEW i \in Items, PushHand(p, i) PROVE NobodyWaitsInVain'
  BY <1>1 DEF PushHand, NobodyWaitsInVain
<1>2. ASSUME NEW p \in Producers, NEW i \in Items, PushBlock(p, i) PROVE NobodyWaitsInVain'
  BY <1>2 DEF PushBlock, NobodyWaitsInVain
<1>3. ASSUME NEW p \in Producers, NEW i \in Items, PushStore(p, i) PROVE NobodyWaitsInVain'
  <2>1. Len(container') = Len(container) + 1
    BY <1>0, <1>3, ElementsAppend DEF PushStore
  <2>2. Len(container') <= cap /\ pushing = <<>>
    BY <1>0, <1>3, <2>1 DEF PushStore, NobodyWaitsInVain
  <2>3. QED BY <1>3, <2>2 DEF PushStore, NobodyWaitsInVain
<1>4. ASSUME NEW c \in Consumers, PopPushing(c) PROVE NobodyWaitsInVain'
  BY <1>4 DEF PopPushing, NobodyWaitsInVain
<1>5. ASSUME NEW c \in Consumers, PopStored(c) PROVE NobodyWaitsInVain'
  <2>1. Len(container') = Len(container) - 1
    BY <1>0, <1>5, ElementsTail DEF PopStored
  <2>2. Len(container') <= cap /\ waiting = <<>>
    BY <1>0, <1>5, <2>1 DEF PopStored, NobodyWaitsInVain
  <2>3. QED BY <1>5, <2>2 DEF PopStored, NobodyWaitsInVain
<1>6. ASSUME NEW c \in Consumers, PopWait(c) PROVE NobodyWaitsInVain'
  BY <1>6 DEF PopWait, NobodyWaitsInVain
<1>7. ASSUME NEW p \in Producers, PushReturn(p) PROVE NobodyWaitsInVain'
  BY <1>7 DEF PushReturn, NobodyWaitsInVain
<1>8. ASSUME NEW c \in Consumers, PopReturn(c) PROVE NobodyWaitsInVain'
  BY <1>8 DEF PopReturn, NobodyWaitsInVain
<1>9. ASSUME Poison PROVE NobodyWaitsInVain'
  BY <1>9 DEF Poison, NobodyWaitsInVain
<1>10. ASSUME NEW i \in Items, Again(i) PROVE NobodyWaitsInVain'
  BY <1>10 DEF Again, NobodyWaitsInVain
<1>11. QED
  BY <1>1, <1>2, <1>3, <1>4, <1>5, <1>6, <1>7, <1>8, <1>9, <1>10 DEF Next, Push, Pop

\* The calls the queue knows, W of them consumers and B producers.
LEMMA KnownCalls ==
  ASSUME QueueTypes
  PROVE  /\ Elements(waiting) \subseteq Consumers
         /\ PushingBy \subseteq Producers
         /\ Elements(waiting) \cap PushingBy = {}
         /\ waiting = <<>> <=> Elements(waiting) = {}
         /\ pushing = <<>> <=> PushingBy = {}
         /\ \A t \in Threads : smp[t] \in Nat
         /\ Consumers \subseteq Threads /\ Producers \subseteq Threads
<1>1. waiting \in Seq(Consumers) /\ pushing \in Seq(Entry) /\ \A t \in Threads : smp[t] \in Nat
  BY DEF QueueTypes
<1>2. /\ Elements(waiting) \subseteq Consumers /\ PushingBy \subseteq Producers
      /\ waiting = <<>> <=> Elements(waiting) = {}
      /\ pushing = <<>> <=> PushingBy = {}
  BY <1>1, ElementsMember, PushingMember
<1>3. QED BY <1>1, <1>2, ThreadAssumption DEF Threads

\* A call is released when it leaves its vector, and ends when it has been
\* released: the semaphores count to one.
LEMMA CallersStep ==
  ASSUME QueueTypes, QueueTypes', Callers, DistinctItem \/ poisoned, Next
  PROVE  Callers'
<1>0. /\ waiting \in Seq(Consumers) /\ pushing \in Seq(Entry)
      /\ blocked \subseteq Threads /\ smp \in [Threads -> Nat] /\ poisoned \in BOOLEAN
  BY DEF QueueTypes
<1> DEFINE W == Elements(waiting)
           B == PushingBy
<1>1. /\ W \subseteq Consumers /\ B \subseteq Producers /\ W \cap B = {}
      /\ Consumers \subseteq Threads /\ Producers \subseteq Threads
      /\ waiting = <<>> <=> W = {}
      /\ pushing = <<>> <=> B = {}
  BY KnownCalls
<1>2. /\ \A t \in Threads : smp[t] \in Nat /\ smp[t] <= 1 /\ (smp[t] = 1 => t \in blocked)
      /\ ~poisoned => \A t \in blocked : smp[t] = 1 <=> t \notin W \cup B
      /\ ~poisoned => W \cup B \subseteq blocked
      /\ poisoned  => \A t \in blocked : smp[t] = 1
      /\ ~poisoned => Distinct(waiting) /\ DistinctBy
  BY <1>0 DEF Callers, SemaphoreOnce
<1> DEFINE Good ==
      /\ \A t \in Threads : smp'[t] <= 1 /\ (smp'[t] = 1 => t \in blocked')
      /\ ~poisoned' => \A t \in blocked' : smp'[t] = 1 <=> t \notin W' \cup B'
      /\ ~poisoned' => W' \cup B' \subseteq blocked'
      /\ poisoned'  => \A t \in blocked' : smp'[t] = 1
      /\ ~poisoned' => Distinct(waiting') /\ DistinctBy'
<1>3. SUFFICES Good
  BY DEF Callers, SemaphoreOnce, W, B, Good
<1>4. waiting' = waiting => W' = W
  BY DEF W
<1>5. pushing' = pushing => B' = B /\ (DistinctBy => DistinctBy')
  BY DEF B, PushingBy, DistinctBy
<1> HIDE DEF B
<1>6. ASSUME NEW p \in Producers, NEW i \in Items, PushHand(p, i) PROVE Good
  <2> DEFINE h == Head(waiting)
  <2>1. /\ ~poisoned /\ waiting # <<>> /\ waiting' = Tail(waiting)
        /\ smp' = [smp EXCEPT ![h] = @ + 1]
        /\ pushing' = pushing /\ blocked' = blocked /\ poisoned' = poisoned
    BY <1>6 DEF PushHand, release
  <2>2. h \in W /\ W' = W \ {h} /\ Distinct(waiting')
    BY <1>0, <1>2, <2>1, ElementsTail, DistinctTail
  <2> HIDE DEF W, h
  <2>3. h \in Threads /\ h \in blocked /\ smp[h] = 0
    BY <1>1, <1>2, <2>1, <2>2
  <2>4. smp'[h] = 1 /\ \A t \in Threads \ {h} : smp'[t] = smp[t]
    BY <1>0, <2>1, <2>3
  <2>5. QED BY <1>1, <1>2, <1>5, <2>1, <2>2, <2>3, <2>4
<1>7. ASSUME NEW p \in Producers, NEW i \in Items, PushBlock(p, i) PROVE Good
  <2>1. /\ ~poisoned /\ p \notin blocked /\ waiting' = waiting
        /\ pushing' = Append(pushing, [by |-> p, item |-> i])
        /\ blocked' = blocked \cup {p} /\ smp' = smp /\ poisoned' = poisoned
    BY <1>7 DEF PushBlock, Calls
  <2>2. p \notin B /\ p \in Threads
    BY <1>1, <1>2, <2>1
  <2>3. B' = B \cup {p} /\ DistinctBy'
    BY <1>0, <1>2, <2>1, <2>2, PushingAppend DEF B
  <2> HIDE DEF W
  <2>4. smp[p] = 0
    BY <1>2, <2>1, <2>2
  <2>5. QED BY <1>1, <1>2, <1>4, <2>1, <2>2, <2>3, <2>4
<1>8. ASSUME NEW p \in Producers, NEW i \in Items, PushStore(p, i) PROVE Good
  <2> HIDE DEF W
  <2>1. QED BY <1>2, <1>4, <1>5, <1>8 DEF PushStore
<1>9. ASSUME NEW c \in Consumers, PopPushing(c) PROVE Good
  <2> DEFINE h == Head(pushing).by
  <2>1. /\ ~poisoned /\ pushing # <<>> /\ pushing' = Tail(pushing)
        /\ smp' = [smp EXCEPT ![h] = @ + 1]
        /\ waiting' = waiting /\ blocked' = blocked /\ poisoned' = poisoned
    BY <1>9 DEF PopPushing, release
  <2>2. h \in B /\ B' = B \ {h} /\ DistinctBy'
    BY <1>0, <1>2, <2>1, PushingTail DEF B
  <2> HIDE DEF W, h
  <2>3. h \in Threads /\ h \in blocked /\ smp[h] = 0
    BY <1>1, <1>2, <2>1, <2>2
  <2>4. smp'[h] = 1 /\ \A t \in Threads \ {h} : smp'[t] = smp[t]
    BY <1>0, <2>1, <2>3
  <2>5. QED BY <1>1, <1>2, <1>4, <2>1, <2>2, <2>3, <2>4
<1>10. ASSUME NEW c \in Consumers, PopStored(c) PROVE Good
  <2> HIDE DEF W
  <2>1. QED BY <1>2, <1>4, <1>5, <1>10 DEF PopStored
<1>11. ASSUME NEW c \in Consumers, PopWait(c) PROVE Good
  <2>1. /\ ~poisoned /\ c \notin blocked /\ pushing' = pushing
        /\ waiting' = Append(waiting, c)
        /\ blocked' = blocked \cup {c} /\ smp' = smp /\ poisoned' = poisoned
    BY <1>11 DEF PopWait, Calls
  <2>2. c \notin W /\ c \in Threads
    BY <1>1, <1>2, <2>1
  <2>3. W' = W \cup {c} /\ Distinct(waiting')
    BY <1>0, <1>2, <2>1, <2>2, ElementsAppend, DistinctAppend
  <2> HIDE DEF W
  <2>4. smp[c] = 0
    BY <1>2, <2>1, <2>2
  <2>5. QED BY <1>1, <1>2, <1>5, <2>1, <2>2, <2>3, <2>4
<1>12. ASSUME NEW t \in Threads, PushReturn(t) \/ PopReturn(t) PROVE Good
  <2>1. /\ t \in blocked /\ smp[t] > 0
        /\ smp' = [smp EXCEPT ![t] = 0] /\ blocked' = blocked \ {t}
        /\ waiting' = waiting /\ pushing' = pushing /\ poisoned' = poisoned
    BY <1>12 DEF PushReturn, PopReturn
  <2> HIDE DEF W
  <2>2. smp[t] = 1
    BY <1>2, <2>1
  <2>3. smp'[t] = 0 /\ \A u \in Threads \ {t} : smp'[u] = smp[u]
    BY <1>0, <2>1
  <2>4. QED BY <1>0, <1>1, <1>2, <1>4, <1>5, <2>1, <2>2, <2>3
<1>13. ASSUME Poison PROVE Good
  <2>1. /\ ~poisoned /\ poisoned' = TRUE /\ blocked' = blocked
        /\ smp' = [t \in Threads |-> IF t \in W \cup B THEN smp[t] + 1 ELSE smp[t]]
    BY <1>13 DEF Poison, B
  <2> HIDE DEF W
  <2>2. \A t \in Threads : smp[t] = 0 \/ (smp[t] = 1 /\ t \in blocked)
    BY <1>2
  <2>3. \A t \in W \cup B : t \in Threads /\ t \in blocked /\ smp[t] = 0
    BY <1>1, <1>2, <2>1, <2>2
  <2>4. \A t \in Threads : /\ t \in W \cup B => smp'[t] = 1
                           /\ t \notin W \cup B => smp'[t] = smp[t]
    BY <2>1, <2>3
  <2>5. QED BY <1>0, <1>2, <2>1, <2>2, <2>3, <2>4
<1>14. ASSUME NEW i \in Items, Again(i) PROVE Good
  <2> HIDE DEF W
  <2>1. QED BY <1>2, <1>4, <1>5, <1>14 DEF Again
<1>15. QED
  BY <1>1, <1>6, <1>7, <1>8, <1>9, <1>10, <1>11, <1>12, <1>13, <1>14 DEF Next, Push, Pop

\* Items only move from one place to the next.
LEMMA GoodsStep ==
  ASSUME QueueTypes, Callers, Goods, Next
  PROVE  Goods'
<1>0. /\ container \in Seq(Items) /\ waiting \in Seq(Consumers) /\ pushing \in Seq(Entry)
      /\ blocked \subseteq Threads /\ smp \in [Threads -> Nat] /\ poisoned \in BOOLEAN
      /\ dst \in [Consumers -> Items \cup {Nothing}]
      /\ Consumers \subseteq Threads
  BY DEF QueueTypes, Threads
<1> DEFINE C == Elements(container)
           P == PushingItems
           H == InHand
<1>1. /\ C \subseteq Items /\ P \subseteq Items
  BY <1>0, ElementsMember, PushingMember
<1>2. /\ fresh \cup (IF poisoned THEN {} ELSE C \cup P) \cup H \cup received \cup dropped = Items
      /\ fresh \cap ((IF poisoned THEN {} ELSE C \cup P) \cup H \cup received \cup dropped) = {}
      /\ ~poisoned => (C \cup P) \cap (H \cup received \cup dropped) = {}
      /\ H \cap (received \cup dropped) = {}
      /\ received \cap dropped = {}
      /\ ~poisoned => dropped = {} /\ Distinct(container) /\ DistinctItem /\ C \cap P = {}
  BY DEF Goods, EveryItemOnce, Stored
<1>3. /\ \A c \in Consumers : dst[c] # Nothing => c \in blocked /\ smp[c] = 1
      /\ \A c, d \in Consumers : dst[c] = dst[d] /\ dst[c] # Nothing => c = d
  BY DEF Goods
<1>4. /\ \A x : x \in H <=> x # Nothing /\ \E c \in Consumers : dst[c] = x
      /\ \A x : x \in H' <=> x # Nothing /\ \E c \in Consumers : dst'[c] = x
  BY DEF InHand
<1>5. ~poisoned => DistinctBy /\ Distinct(waiting) /\ \A t \in Elements(waiting) : t \in blocked /\ smp[t] # 1
  <2>1. ~poisoned => \A t \in Elements(waiting) : t \in blocked
    BY DEF Callers, SemaphoreOnce
  <2>2. QED BY <2>1 DEF Callers, SemaphoreOnce
<1> DEFINE Good ==
      /\ fresh' \cup (IF poisoned' THEN {} ELSE C' \cup P') \cup H' \cup received' \cup dropped' = Items
      /\ fresh' \cap ((IF poisoned' THEN {} ELSE C' \cup P') \cup H' \cup received' \cup dropped') = {}
      /\ ~poisoned' => (C' \cup P') \cap (H' \cup received' \cup dropped') = {}
      /\ H' \cap (received' \cup dropped') = {}
      /\ received' \cap dropped' = {}
      /\ ~poisoned' => dropped' = {} /\ Distinct(container') /\ DistinctItem' /\ C' \cap P' = {}
           Held ==
      /\ \A c \in Consumers : dst'[c] # Nothing => c \in blocked' /\ smp'[c] = 1
      /\ \A c, d \in Consumers : dst'[c] = dst'[d] /\ dst'[c] # Nothing => c = d
<1>6. SUFFICES Good /\ Held
  BY DEF Goods, EveryItemOnce, Stored
<1>7. container' = container => C' = C
  BY DEF Elements
<1>8. pushing' = pushing => P' = P /\ (DistinctItem => DistinctItem')
  BY DEF PushingItems, DistinctItem
<1>9. dst' = dst => H' = H
  BY DEF InHand
<1> HIDE DEF C, P, H
<1>10. ASSUME NEW p \in Producers, NEW i \in Items, PushHand(p, i) PROVE Good /\ Held
  <2> DEFINE h == Head(waiting)
  <2>1. /\ ~poisoned /\ waiting # <<>> /\ i \in fresh
        /\ dst' = [dst EXCEPT ![h] = i] /\ smp' = [smp EXCEPT ![h] = @ + 1]
        /\ fresh' = fresh \ {i}
        /\ container' = container /\ pushing' = pushing /\ poisoned' = poisoned
        /\ blocked' = blocked /\ received' = received /\ dropped' = dropped
    BY <1>10 DEF PushHand, release
  <2>2. h \in Consumers /\ h \in Elements(waiting)
    BY <1>0, <2>1, ElementsTail
  <2> HIDE DEF h
  <2>3. h \in blocked /\ smp[h] = 0 /\ dst[h] = Nothing
    <3>1. smp[h] <= 1 /\ smp[h] \in Nat
      BY <1>0, <2>2 DEF Callers, SemaphoreOnce
    <3>2. QED BY <1>3, <1>5, <2>1, <2>2, <3>1
  <2>4. /\ dst'[h] = i /\ smp'[h] = 1
        /\ \A c \in Consumers \ {h} : dst'[c] = dst[c] /\ smp'[c] = smp[c]
    BY <1>0, <2>1, <2>2, <2>3
  <2>5. i # Nothing /\ i \notin H
    BY <1>2, <2>1, NothingAssumption
  <2>6. H' = H \cup {i}
    BY <1>4, <2>2, <2>3, <2>4, <2>5
  <2>7. Good
    BY <1>2, <1>7, <1>8, <2>1, <2>6
  <2>8. \A c \in Consumers \ {h} : dst[c] # i
    BY <1>4, <2>5
  <2>9. Held
    BY <1>3, <2>1, <2>3, <2>4, <2>8
  <2>10. QED BY <2>7, <2>9
<1>11. ASSUME NEW p \in Producers, NEW i \in Items, PushBlock(p, i) PROVE Good /\ Held
  <2>1. /\ ~poisoned /\ i \in fresh
        /\ pushing' = Append(pushing, [by |-> p, item |-> i])
        /\ fresh' = fresh \ {i} /\ blocked' = blocked \cup {p}
        /\ container' = container /\ poisoned' = poisoned /\ smp' = smp /\ dst' = dst
        /\ received' = received /\ dropped' = dropped
    BY <1>11 DEF PushBlock
  <2>2. i \notin P
    BY <1>2, <2>1
  <2>3. P' = P \cup {i} /\ DistinctItem'
    BY <1>0, <1>2, <2>1, <2>2, PushingAppend DEF P
  <2>4. Good
    BY <1>2, <1>7, <1>9, <2>1, <2>3
  <2>5. Held
    BY <1>3, <2>1
  <2>6. QED BY <2>4, <2>5
<1>12. ASSUME NEW p \in Producers, NEW i \in Items, PushStore(p, i) PROVE Good /\ Held
  <2>1. /\ ~poisoned /\ i \in fresh
        /\ container' = Append(container, i)
        /\ fresh' = fresh \ {i} /\ blocked' = blocked
        /\ pushing' = pushing /\ poisoned' = poisoned /\ smp' = smp /\ dst' = dst
        /\ received' = received /\ dropped' = dropped
    BY <1>12 DEF PushStore
  <2>2. i \notin C
    BY <1>2, <2>1
  <2>3. C' = C \cup {i} /\ Distinct(container')
    BY <1>0, <1>2, <2>1, <2>2, ElementsAppend, DistinctAppend DEF C
  <2>4. Good
    BY <1>2, <1>8, <1>9, <2>1, <2>3
  <2>5. Held
    BY <1>3, <2>1
  <2>6. QED BY <2>4, <2>5
<1>13. ASSUME NEW c \in Consumers, PopPushing(c) PROVE Good /\ Held
  <2> DEFINE i == Head(pushing).item
             b == Head(pushing).by
  <2>1. /\ ~poisoned /\ pushing # <<>> /\ pushing' = Tail(pushing)
        /\ smp' = [smp EXCEPT ![b] = @ + 1] /\ received' = received \cup {i}
        /\ container' = container /\ poisoned' = poisoned /\ blocked' = blocked
        /\ dst' = dst /\ fresh' = fresh /\ dropped' = dropped
    BY <1>13 DEF PopPushing, release
  <2>2. i \in P /\ P' = P \ {i} /\ DistinctItem' /\ b \in PushingBy
    BY <1>0, <1>2, <1>5, <2>1, PushingTail DEF P
  <2>3. b \in Producers
    BY <1>0, <2>2, PushingMember
  <2> HIDE DEF i, b
  <2>4. \A d \in Consumers : smp'[d] = smp[d]
    BY <1>0, <2>1, <2>3, ThreadAssumption
  <2>5. Good
    BY <1>2, <1>7, <1>9, <2>1, <2>2
  <2>6. Held
    BY <1>3, <2>1, <2>4
  <2>7. QED BY <2>5, <2>6
<1>14. ASSUME NEW c \in Consumers, PopStored(c) PROVE Good /\ Held
  <2> DEFINE i == Head(container)
  <2>1. /\ ~poisoned /\ container # <<>> /\ container' = Tail(container)
        /\ received' = received \cup {i}
        /\ pushing' = pushing /\ poisoned' = poisoned /\ blocked' = blocked /\ smp' = smp
        /\ dst' = dst /\ fresh' = fresh /\ dropped' = dropped
    BY <1>14 DEF PopStored
  <2>2. i \in C /\ C' = C \ {i} /\ Distinct(container')
    BY <1>0, <1>2, <2>1, ElementsTail, DistinctTail DEF C
  <2> HIDE DEF i
  <2>3. Good
    BY <1>2, <1>8, <1>9, <2>1, <2>2
  <2>4. Held
    BY <1>3, <2>1
  <2>5. QED BY <2>3, <2>4
<1>15. ASSUME NEW c \in Consumers, PopWait(c) PROVE Good /\ Held
  <2>1. /\ ~poisoned /\ c \notin blocked /\ blocked' = blocked \cup {c}
        /\ dst' = [dst EXCEPT ![c] = Nothing]
        /\ container' = container /\ pushing' = pushing /\ poisoned' = poisoned
        /\ smp' = smp /\ fresh' = fresh /\ received' = received /\ dropped' = dropped
    BY <1>15 DEF PopWait, Calls
  <2>2. dst' = dst
    BY <1>0, <1>3, <2>1
  <2>3. Good
    BY <1>2, <1>7, <1>8, <1>9, <2>1, <2>2
  <2>4. Held
    BY <1>3, <2>1, <2>2
  <2>5. QED BY <2>3, <2>4
<1>16. ASSUME NEW p \in Producers, PushReturn(p) PROVE Good /\ Held
  <2>1. /\ blocked' = blocked \ {p} /\ smp' = [smp EXCEPT ![p] = 0]
        /\ dst' = dst /\ container' = container /\ pushing' = pushing
        /\ poisoned' = poisoned /\ fresh' = fresh /\ received' = received /\ dropped' = dropped
    BY <1>16 DEF PushReturn
  <2>2. \A d \in Consumers : d # p /\ smp'[d] = smp[d]
    BY <1>0, <2>1, ThreadAssumption
  <2>3. Good
    BY <1>2, <1>7, <1>8, <1>9, <2>1
  <2>4. Held
    BY <1>3, <2>1, <2>2
  <2>5. QED BY <2>3, <2>4
<1>17. ASSUME NEW c \in Consumers, PopReturn(c) PROVE Good /\ Held
  <2>1. /\ blocked' = blocked \ {c} /\ smp' = [smp EXCEPT ![c] = 0]
        /\ received' = received \cup ({dst[c]} \ {Nothing})
        /\ dst' = [dst EXCEPT ![c] = Nothing] /\ container' = container /\ pushing' = pushing
        /\ poisoned' = poisoned /\ fresh' = fresh /\ dropped' = dropped
    BY <1>17 DEF PopReturn
  <2>2. /\ dst'[c] = Nothing
        /\ \A d \in Consumers \ {c} : dst'[d] = dst[d] /\ smp'[d] = smp[d]
    BY <1>0, <2>1
  <2>3. H' = H \ {dst[c]} /\ (dst[c] # Nothing => dst[c] \in H)
    BY <1>3, <1>4, <2>2
  <2>4. Good
    <3>1. CASE dst[c] = Nothing
      <4>1. H' = H /\ received' = received
        BY <1>4, <2>1, <2>3, <3>1
      <4>2. QED BY <1>2, <1>7, <1>8, <2>1, <4>1
    <3>2. CASE dst[c] # Nothing
      <4> DEFINE i == dst[c]
      <4>1. i \in H /\ H' = H \ {i} /\ received' = received \cup {i}
        BY <2>1, <2>3, <3>2
      <4> HIDE DEF i
      <4>2. QED BY <1>2, <1>7, <1>8, <2>1, <4>1
    <3>3. QED BY <3>1, <3>2
  <2>5. Held
    BY <1>3, <2>1, <2>2
  <2>6. QED BY <2>4, <2>5
<1>18. ASSUME Poison PROVE Good /\ Held
  <2>1. /\ ~poisoned /\ poisoned' = TRUE
        /\ dst' = [c \in Consumers |-> IF c \in Elements(waiting) THEN Nothing ELSE dst[c]]
        /\ smp' = [t \in Threads |-> IF t \in Elements(waiting) \cup PushingBy
                                       THEN smp[t] + 1 ELSE smp[t]]
        /\ dropped' = dropped \cup C \cup P
        /\ blocked' = blocked /\ fresh' = fresh /\ received' = received
    BY <1>18 DEF Poison, C, P
  <2>2. \A c \in Consumers : dst'[c] = dst[c]
    BY <1>0, <1>3, <1>5, <2>1
  <2>3. H' = H
    BY <1>4, <2>2
  <2>4. \A c \in Consumers : c \notin Elements(waiting) => smp'[c] = smp[c]
    <3>1. PushingBy \cap Consumers = {}
      BY <1>0, PushingMember, ThreadAssumption
    <3>2. QED BY <1>0, <2>1, <3>1
  <2>5. Good
    BY <1>2, <2>1, <2>3
  <2>6. Held
    BY <1>3, <1>5, <2>1, <2>2, <2>4
  <2>7. QED BY <2>5, <2>6
<1>19. ASSUME NEW i \in Items, Again(i) PROVE Good /\ Held
  <2>1. /\ i \in received /\ fresh' = fresh \cup {i} /\ received' = received \ {i}
        /\ container' = container /\ pushing' = pushing /\ poisoned' = poisoned
        /\ blocked' = blocked /\ smp' = smp /\ dst' = dst /\ dropped' = dropped
    BY <1>19 DEF Again
  <2>2. Good
    BY <1>2, <1>7, <1>8, <1>9, <2>1
  <2>3. Held
    BY <1>3, <2>1
  <2>4. QED BY <2>2, <2>3
<1>20. QED
  BY <1>10, <1>11, <1>12, <1>13, <1>14, <1>15, <1>16, <1>17, <1>18, <1>19 DEF Next, Push, Pop

\* Every step of the queue keeps its invariant.
LEMMA QueueStep == Queue /\ [Next]_vars => Queue'
<1> SUFFICES ASSUME Queue, [Next]_vars PROVE Queue'
  OBVIOUS
<1>1. CASE Next
  <2>1. QueueTypes /\ NobodyWaitsInVain /\ Callers /\ Goods
    BY DEF Queue
  <2>2. QueueTypes'
    BY <1>1, <2>1, QueueTypesStep
  <2>3. NobodyWaitsInVain'
    BY <1>1, <2>1, WaitStep
  <2>4. Callers'
    <3>1. DistinctItem \/ poisoned
      BY <2>1 DEF Goods
    <3>2. QED BY <1>1, <2>1, <2>2, <3>1, CallersStep
  <2>5. Goods'
    BY <1>1, <2>1, GoodsStep
  <2>6. QED BY <2>2, <2>3, <2>4, <2>5 DEF Queue
<1>2. CASE UNCHANGED vars
  <2>1. /\ UNCHANGED cap /\ UNCHANGED container /\ UNCHANGED waiting /\ UNCHANGED pushing
        /\ UNCHANGED poisoned /\ UNCHANGED blocked /\ UNCHANGED smp /\ UNCHANGED dst
        /\ UNCHANGED fresh /\ UNCHANGED received /\ UNCHANGED dropped
    BY <1>2 DEF vars
  <2>2. UNCHANGED PushingBy /\ UNCHANGED PushingItems /\ UNCHANGED InHand
    BY <2>1 DEF PushingBy, PushingItems, InHand
  <2>3. QueueTypes'
    BY <2>1 DEF Queue, QueueTypes
  <2>4. NobodyWaitsInVain'
    BY <2>1 DEF Queue, NobodyWaitsInVain
  <2>5. Callers'
    BY <2>1, <2>2 DEF Queue, Callers, SemaphoreOnce, DistinctBy
  <2>6. Goods'
    BY <2>1, <2>2 DEF Queue, Goods, EveryItemOnce, Stored, DistinctItem
  <2>7. QED BY <2>3, <2>4, <2>5, <2>6 DEF Queue
<1>3. QED BY <1>1, <1>2

-----------------------------------------------------------------------------
(* The queue is a channel.                                                 *)

\* Every step of the queue is a step of the channel, or none: push() sends or
\* hands over, pop() takes, a call that wakes up receives, poison() closes.
LEMMA ChannelStep ==
  ASSUME Queue, [Next]_vars
  PROVE  [Ch!Next]_(Ch!vars)
<1>0. /\ container \in Seq(Items) /\ waiting \in Seq(Consumers) /\ pushing \in Seq(Entry)
      /\ poisoned \in BOOLEAN /\ dst \in [Consumers -> Items \cup {Nothing}]
  BY DEF Queue, QueueTypes
<1>1. /\ ~poisoned => Distinct(container) /\ DistinctItem /\ DistinctBy
      /\ ~poisoned => Elements(container) \cap PushingItems = {}
      /\ \A c \in Consumers : dst[c] # Nothing => c \in blocked /\ smp[c] = 1
      /\ \A c, d \in Consumers : dst[c] = dst[d] /\ dst[c] # Nothing => c = d
  BY DEF Queue, Goods, Callers
<1>2. ~poisoned => \A t \in Elements(waiting) : t \in blocked /\ smp[t] # 1
  <2>1. ~poisoned => \A t \in Elements(waiting) : t \in blocked
    BY DEF Queue, Callers, SemaphoreOnce
  <2>2. QED BY <2>1 DEF Queue, Callers, SemaphoreOnce
<1>3. /\ \A x : x \in InHand <=> x # Nothing /\ \E c \in Consumers : dst[c] = x
      /\ \A x : x \in InHand' <=> x # Nothing /\ \E c \in Consumers : dst'[c] = x
      /\ dst' = dst => InHand' = InHand
  BY DEF InHand
<1>4. /\ container' = container => Elements(container') = Elements(container)
      /\ pushing' = pushing => PushingItems' = PushingItems
  BY DEF PushingItems
<1>5. /\ Stored = IF poisoned THEN {} ELSE Elements(container) \cup PushingItems
      /\ Stored' = IF poisoned' THEN {} ELSE Elements(container') \cup PushingItems'
  BY DEF Stored
<1>6. CASE UNCHANGED vars
  <2>1. /\ container' = container /\ pushing' = pushing /\ poisoned' = poisoned
        /\ dst' = dst /\ fresh' = fresh /\ received' = received
    BY <1>6 DEF vars
  <2>2. QED BY <1>3, <1>4, <1>5, <2>1 DEF Ch!vars
<1>7. ASSUME NEW p \in Producers, NEW i \in Items, PushHand(p, i) PROVE Ch!Hand(i)
  <2> DEFINE h == Head(waiting)
  <2>1. /\ ~poisoned /\ waiting # <<>> /\ i \in fresh
        /\ dst' = [dst EXCEPT ![h] = i] /\ fresh' = fresh \ {i}
        /\ container' = container /\ pushing' = pushing /\ poisoned' = poisoned
        /\ received' = received
    BY <1>7 DEF PushHand
  <2>2. h \in Consumers /\ h \in Elements(waiting)
    BY <1>0, <2>1, ElementsTail
  <2> HIDE DEF h
  <2>3. dst[h] = Nothing
    BY <1>1, <1>2, <2>1, <2>2
  <2>4. dst'[h] = i /\ \A c \in Consumers \ {h} : dst'[c] = dst[c]
    BY <1>0, <2>1, <2>2
  <2>5. InHand' = InHand \cup {i}
    BY <1>3, <2>2, <2>3, <2>4, NothingAssumption
  <2>6. QED BY <1>4, <1>5, <2>1, <2>5 DEF Ch!Hand
<1>8. ASSUME NEW p \in Producers, NEW i \in Items, PushBlock(p, i) PROVE Ch!Send(i)
  <2>1. /\ ~poisoned /\ i \in fresh /\ pushing' = Append(pushing, [by |-> p, item |-> i])
        /\ fresh' = fresh \ {i} /\ container' = container /\ poisoned' = poisoned
        /\ dst' = dst /\ received' = received
    BY <1>8 DEF PushBlock
  <2>2. PushingItems' = PushingItems \cup {i}
    BY <1>0, <2>1, PushingAppend
  <2>3. QED BY <1>3, <1>4, <1>5, <2>1, <2>2 DEF Ch!Send
<1>9. ASSUME NEW p \in Producers, NEW i \in Items, PushStore(p, i) PROVE Ch!Send(i)
  <2>1. /\ ~poisoned /\ i \in fresh /\ container' = Append(container, i)
        /\ fresh' = fresh \ {i} /\ pushing' = pushing /\ poisoned' = poisoned
        /\ dst' = dst /\ received' = received
    BY <1>9 DEF PushStore
  <2>2. Elements(container') = Elements(container) \cup {i}
    BY <1>0, <2>1, ElementsAppend
  <2>3. QED BY <1>3, <1>4, <1>5, <2>1, <2>2 DEF Ch!Send
<1>10. ASSUME NEW c \in Consumers, PopPushing(c) PROVE \E i \in Items : Ch!Take(i)
  <2> DEFINE i == Head(pushing).item
  <2>1. /\ ~poisoned /\ pushing # <<>> /\ pushing' = Tail(pushing)
        /\ received' = received \cup {i} /\ container' = container
        /\ poisoned' = poisoned /\ dst' = dst /\ fresh' = fresh
    BY <1>10 DEF PopPushing
  <2>2. i \in PushingItems /\ PushingItems' = PushingItems \ {i} /\ i \in Items
    BY <1>0, <1>1, <2>1, PushingTail, PushingMember
  <2> HIDE DEF i
  <2>3. Ch!Take(i)
    BY <1>1, <1>3, <1>4, <1>5, <2>1, <2>2 DEF Ch!Take
  <2>4. QED BY <2>2, <2>3
<1>11. ASSUME NEW c \in Consumers, PopStored(c) PROVE \E i \in Items : Ch!Take(i)
  <2> DEFINE i == Head(container)
  <2>1. /\ ~poisoned /\ container # <<>> /\ container' = Tail(container)
        /\ received' = received \cup {i} /\ pushing' = pushing
        /\ poisoned' = poisoned /\ dst' = dst /\ fresh' = fresh
    BY <1>11 DEF PopStored
  <2>2. /\ i \in Elements(container) /\ Elements(container') = Elements(container) \ {i}
        /\ i \in Items
    BY <1>0, <1>1, <2>1, ElementsTail, DistinctTail
  <2> HIDE DEF i
  <2>3. Ch!Take(i)
    BY <1>1, <1>3, <1>4, <1>5, <2>1, <2>2 DEF Ch!Take
  <2>4. QED BY <2>2, <2>3
<1>12. ASSUME NEW c \in Consumers, PopWait(c) PROVE UNCHANGED Ch!vars
  <2>1. /\ c \notin blocked /\ dst' = [dst EXCEPT ![c] = Nothing]
        /\ container' = container /\ pushing' = pushing /\ poisoned' = poisoned
        /\ fresh' = fresh /\ received' = received
    BY <1>12 DEF PopWait, Calls
  <2>2. dst' = dst
    BY <1>0, <1>1, <2>1
  <2>3. QED BY <1>3, <1>4, <1>5, <2>1, <2>2 DEF Ch!vars
<1>13. ASSUME NEW p \in Producers, PushReturn(p) PROVE UNCHANGED Ch!vars
  <2>1. /\ container' = container /\ pushing' = pushing /\ poisoned' = poisoned
        /\ dst' = dst /\ fresh' = fresh /\ received' = received
    BY <1>13 DEF PushReturn
  <2>2. QED BY <1>3, <1>4, <1>5, <2>1 DEF Ch!vars
<1>14. ASSUME NEW c \in Consumers, PopReturn(c)
       PROVE  (\E i \in Items : Ch!Receive(i)) \/ UNCHANGED Ch!vars
  <2>1. /\ received' = received \cup ({dst[c]} \ {Nothing})
        /\ dst' = [dst EXCEPT ![c] = Nothing] /\ container' = container
        /\ pushing' = pushing /\ poisoned' = poisoned /\ fresh' = fresh
    BY <1>14 DEF PopReturn
  <2>2. dst'[c] = Nothing /\ \A d \in Consumers \ {c} : dst'[d] = dst[d]
    BY <1>0, <2>1
  <2>3. CASE dst[c] = Nothing
    <3>1. dst' = dst /\ received' = received
      BY <1>0, <2>1, <2>3
    <3>2. QED BY <1>3, <1>4, <1>5, <2>1, <3>1 DEF Ch!vars
  <2>4. CASE dst[c] # Nothing
    <3> DEFINE i == dst[c]
    <3>1. /\ i \in InHand /\ i \in Items
          /\ InHand' = InHand \ {i}
          /\ received' = received \cup {i}
      BY <1>0, <1>1, <1>3, <2>1, <2>2, <2>4
    <3> HIDE DEF i
    <3>2. Ch!Receive(i)
      BY <1>4, <1>5, <2>1, <3>1 DEF Ch!Receive
    <3>3. QED BY <3>1, <3>2
  <2>5. QED BY <2>3, <2>4
<1>15. ASSUME Poison PROVE Ch!Close
  <2>1. /\ ~poisoned /\ poisoned' = TRUE /\ fresh' = fresh /\ received' = received
        /\ dst' = [c \in Consumers |-> IF c \in Elements(waiting) THEN Nothing ELSE dst[c]]
    BY <1>15 DEF Poison
  <2>2. \A c \in Consumers : dst'[c] = dst[c]
    BY <1>0, <1>1, <1>2, <2>1
  <2>3. InHand' = InHand
    BY <1>3, <2>2
  <2>4. QED BY <1>5, <2>1, <2>3 DEF Ch!Close
<1>16. ASSUME NEW i \in Items, Again(i) PROVE Ch!Again(i)
  <2>1. /\ i \in received /\ fresh' = fresh \cup {i} /\ received' = received \ {i}
        /\ container' = container /\ pushing' = pushing /\ poisoned' = poisoned /\ dst' = dst
    BY <1>16 DEF Again
  <2>2. QED BY <1>3, <1>4, <1>5, <2>1 DEF Ch!Again
<1>17. QED
  BY <1>6, <1>7, <1>8, <1>9, <1>10, <1>11, <1>12, <1>13, <1>14, <1>15, <1>16
  DEF Next, Push, Pop, Ch!Next

-----------------------------------------------------------------------------
(* The pool.                                                               *)

\* Every order that pop() returned is run by one worker, or has been.
Orders ==
  /\ received = finished \cup UNION {order[w] : w \in Consumers}
  /\ \A v, w \in Consumers : v # w => order[v] \cap order[w] = {}
  /\ \A w \in Consumers : order[w] \cap finished = {}

PoolInv == Queue /\ PoolTypes /\ Batches /\ Orders

\* What a step of the pool does to the queue is a step of the queue.
LEMMA PoolUsesQueue == PoolNext => [Next]_vars
  BY DEF PoolNext, Destroy, Shrink, OrderAgain, PoolPush, PoolReturn, Grow, Detach, Daemon, BatchBegin,
         EpochPop, EpochEmpty, EpochWakes, EpochRun, BatchEnd, Next

\* Every step of the pool keeps the types of its own variables.
LEMMA PoolTypesStep ==
  ASSUME Queue, Queue', PoolTypes, Batches, PoolNext
  PROVE  PoolTypes'
<1> USE DEF PoolTypes
<1>0. received' \subseteq Items
  BY DEF Queue, QueueTypes
<1>1. attached \subseteq Consumers /\ Len(workerVec) \in Nat
  BY ElementsMember DEF attached
<1>2. ASSUME Destroy PROVE PoolTypes'
  BY <1>1, <1>2 DEF Destroy
<1>3. ASSUME Shrink PROVE PoolTypes'
  <2>1. workerVec[Len(workerVec)] \in Consumers
    <3>1. Len(workerVec) \in 1 .. Len(workerVec)
      BY <1>1, <1>3, EmptySeq DEF Shrink
    <3>2. QED BY <3>1, ElementOfSeq
  <2>2. QED BY <1>3, <2>1 DEF Shrink
<1>4. ASSUME NEW p \in Producers, PoolPush(p) \/ PoolReturn(p) PROVE PoolTypes'
  BY <1>4 DEF PoolPush, PoolReturn, pool
<1>5. ASSUME NEW w \in Consumers, Grow(w) PROVE PoolTypes'
  BY <1>5, ElementsAppend DEF Grow
<1>6. ASSUME NEW w \in Consumers, Detach(w) PROVE PoolTypes'
  <2>1. workerVec' \in Seq(Consumers)
    BY <1>6, EraseOne DEF Detach, Batches
  <2>2. QED BY <1>6, <2>1 DEF Detach
<1>7. ASSUME NEW w \in Consumers, BatchBegin(w) PROVE PoolTypes'
  BY <1>7, LoopAssumption DEF BatchBegin
<1>8. ASSUME NEW w \in Consumers, EpochPop(w) PROVE PoolTypes'
  BY <1>0, <1>8 DEF EpochPop
<1>9. ASSUME NEW w \in Consumers, epochs[w] > 0
      PROVE  [epochs EXCEPT ![w] = @ - 1] \in [Consumers -> Nat]
  BY <1>9
<1>10. ASSUME NEW w \in Consumers, EpochEmpty(w) PROVE PoolTypes'
  BY <1>9, <1>10 DEF EpochEmpty, EpochEnded, MayBegin
<1>11. ASSUME NEW w \in Consumers, EpochWakes(w) PROVE PoolTypes'
  <2>1. epochs[w] > 0
    BY <1>11 DEF EpochWakes, PopReturn, Batches, InEpoch
  <2>2. epochs' \in [Consumers -> Nat]
    BY <1>9, <1>11, <2>1 DEF EpochWakes, EpochEnded
  <2>3. order' \in [Consumers -> SUBSET Items]
    BY <1>0, <1>11 DEF EpochWakes
  <2>4. QED BY <1>11, <2>2, <2>3 DEF EpochWakes
<1>12. ASSUME NEW w \in Consumers, EpochRun(w) PROVE PoolTypes'
  <2>1. epochs[w] > 0
    BY <1>12 DEF EpochRun, Batches, InEpoch
  <2>2. QED BY <1>9, <1>12, <2>1 DEF EpochRun, EpochEnded
<1>13. ASSUME NEW w \in Consumers, BatchEnd(w) PROVE PoolTypes'
  BY <1>13 DEF BatchEnd
<1>14. ASSUME NEW i \in Items, OrderAgain(i) PROVE PoolTypes'
  BY <1>14 DEF OrderAgain
<1>15. QED
  BY <1>2, <1>3, <1>4, <1>5, <1>6, <1>7, <1>8, <1>10, <1>11, <1>12, <1>13, <1>14
  DEF PoolNext, Daemon

\* A worker calls the queue only inside a batch, and is detached only outside
\* of one.
LEMMA BatchesStep ==
  ASSUME Queue, PoolTypes, Batches, PoolNext
  PROVE  Batches'
<1>0. /\ workerVec \in Seq(Consumers) /\ locked \subseteq Consumers
      /\ epochs \in [Consumers -> Nat] /\ order \in [Consumers -> SUBSET Items]
      /\ poisoned \in BOOLEAN
  BY DEF PoolTypes, Queue, QueueTypes
<1>1. /\ Distinct(workerVec) /\ locked \subseteq attached /\ leaving \subseteq attached
      /\ poisoned => leaving = attached
      /\ \A w \in Consumers : w \in blocked \/ order[w] # {} => w \in locked /\ epochs[w] > 0
      /\ \A w \in Consumers : w \in blocked => order[w] = {}
  BY DEF Batches, InEpoch
<1> DEFINE Good ==
      /\ Distinct(workerVec') /\ locked' \subseteq attached' /\ leaving' \subseteq attached'
      /\ poisoned' => leaving' = attached'
      /\ \A w \in Consumers : w \in blocked' \/ order'[w] # {} => w \in locked' /\ epochs'[w] > 0
      /\ \A w \in Consumers : w \in blocked' => order'[w] = {}
<1>2. SUFFICES Good
  BY DEF Batches, InEpoch
<1>3. workerVec' = workerVec => attached' = attached
  BY DEF attached
<1>4. ASSUME UNCHANGED vars PROVE blocked' = blocked /\ poisoned' = poisoned
  BY <1>4 DEF vars
<1>5. ASSUME Destroy PROVE Good
  <2>1. /\ leaving' = attached /\ blocked' = blocked /\ workerVec' = workerVec
        /\ locked' = locked /\ epochs' = epochs /\ order' = order
    BY <1>5 DEF Destroy, Poison
  <2>2. QED BY <1>1, <1>3, <2>1
<1>6. ASSUME Shrink PROVE Good
  <2>1. /\ ~poisoned /\ workerVec # <<>> /\ leaving' = {workerVec[Len(workerVec)]}
        /\ UNCHANGED vars /\ workerVec' = workerVec
        /\ locked' = locked /\ epochs' = epochs /\ order' = order
    BY <1>6 DEF Shrink
  <2>2. workerVec[Len(workerVec)] \in attached
    <3>1. Len(workerVec) \in 1 .. Len(workerVec)
      BY <1>0, <2>1, EmptySeq, LenProperties
    <3>2. QED BY <1>0, <3>1, ElementsMember DEF attached
  <2>3. QED BY <1>1, <1>3, <1>4, <2>1, <2>2
<1>7. ASSUME NEW p \in Producers, PoolPush(p) \/ PoolReturn(p) PROVE Good
  <2>1. /\ workerVec' = workerVec /\ leaving' = leaving /\ locked' = locked
        /\ epochs' = epochs /\ order' = order
    BY <1>7 DEF PoolPush, PoolReturn, pool
  <2>2. poisoned' = poisoned /\ blocked' \subseteq blocked \cup {p}
    BY <1>7 DEF PoolPush, PoolReturn, Push, PushHand, PushBlock, PushStore, PushReturn
  <2>3. p \notin Consumers
    BY ThreadAssumption
  <2>4. QED BY <1>1, <1>3, <2>1, <2>2, <2>3
<1>8. ASSUME NEW w \in Consumers, Grow(w) PROVE Good
  <2>1. /\ ~poisoned /\ w \notin attached /\ workerVec' = Append(workerVec, w)
        /\ UNCHANGED vars /\ leaving' = leaving
        /\ locked' = locked /\ epochs' = epochs /\ order' = order
    BY <1>8 DEF Grow
  <2>2. Distinct(workerVec') /\ attached' = attached \cup {w}
    BY <1>0, <1>1, <2>1, ElementsAppend, DistinctAppend DEF attached
  <2>3. QED BY <1>1, <1>4, <2>1, <2>2
<1>9. ASSUME NEW w \in Consumers, Detach(w) PROVE Good
  <2>1. /\ w \notin locked /\ leaving' = leaving \ {w} /\ UNCHANGED vars
        /\ locked' = locked /\ epochs' = epochs /\ order' = order
    BY <1>9 DEF Detach
  <2>2. PICK n \in 1 .. Len(workerVec) : workerVec[n] = w /\ workerVec' = Erase(workerVec, n)
    BY <1>9 DEF Detach
  <2>3. Distinct(workerVec') /\ attached' = attached \ {w}
    BY <1>0, <1>1, <2>2, EraseOne DEF attached
  <2>4. QED BY <1>1, <1>4, <2>1, <2>3
<1>10. ASSUME NEW w \in Consumers, BatchBegin(w) PROVE Good
  <2>1. /\ w \in attached /\ w \notin locked /\ locked' = locked \cup {w}
        /\ epochs' = [epochs EXCEPT ![w] = LoopChk]
        /\ UNCHANGED vars /\ workerVec' = workerVec /\ leaving' = leaving /\ order' = order
    BY <1>10 DEF BatchBegin
  <2>2. epochs'[w] > 0 /\ \A v \in Consumers \ {w} : epochs'[v] = epochs[v]
    BY <1>0, <2>1, LoopAssumption
  <2>3. QED BY <1>1, <1>3, <1>4, <2>1, <2>2
<1>11. ASSUME NEW w \in Consumers, EpochPop(w) PROVE Good
  <2>1. /\ w \in locked /\ epochs[w] > 0 /\ w \notin blocked /\ order[w] = {}
        /\ order' = [order EXCEPT ![w] = received' \ received]
        /\ workerVec' = workerVec /\ leaving' = leaving /\ locked' = locked /\ epochs' = epochs
    BY <1>11 DEF EpochPop, MayBegin, InEpoch
  <2>2. /\ poisoned' = poisoned
        /\ \/ blocked' = blocked
           \/ blocked' = blocked \cup {w} /\ received' = received
    BY <1>11 DEF EpochPop, Pop, PopPushing, PopStored, PopWait
  <2>3. order'[w] = received' \ received /\ \A v \in Consumers \ {w} : order'[v] = order[v]
    BY <1>0, <2>1
  <2>4. QED BY <1>1, <1>3, <2>1, <2>2, <2>3
<1>12. ASSUME NEW w \in Consumers, EpochEmpty(w) PROVE Good
  <2>1. /\ w \notin blocked /\ order[w] = {} /\ epochs' = [epochs EXCEPT ![w] = @ - 1]
        /\ UNCHANGED vars /\ workerVec' = workerVec /\ leaving' = leaving /\ locked' = locked
        /\ order' = order
    BY <1>12 DEF EpochEmpty, MayBegin, InEpoch, EpochEnded
  <2>2. \A v \in Consumers \ {w} : epochs'[v] = epochs[v]
    BY <1>0, <2>1
  <2>3. QED BY <1>1, <1>3, <1>4, <2>1, <2>2
<1>13. ASSUME NEW w \in Consumers, EpochWakes(w) PROVE Good
  <2>1. /\ w \in blocked /\ blocked' = blocked \ {w} /\ poisoned' = poisoned
        /\ received' = received \cup ({dst[w]} \ {Nothing})
        /\ order' = [order EXCEPT ![w] = received' \ received]
        /\ IF dst[w] = Nothing THEN epochs' = [epochs EXCEPT ![w] = @ - 1] ELSE epochs' = epochs
        /\ workerVec' = workerVec /\ leaving' = leaving /\ locked' = locked
    BY <1>13 DEF EpochWakes, PopReturn, EpochEnded
  <2>2. /\ order'[w] = received' \ received
        /\ \A v \in Consumers \ {w} : order'[v] = order[v] /\ epochs'[v] = epochs[v]
    BY <1>0, <2>1
  <2>3. order'[w] # {} => epochs'[w] > 0
    BY <1>1, <2>1, <2>2
  <2>4. QED BY <1>1, <1>3, <2>1, <2>2, <2>3
<1>14. ASSUME NEW w \in Consumers, EpochRun(w) PROVE Good
  <2>1. /\ order[w] # {} /\ order' = [order EXCEPT ![w] = {}]
        /\ epochs' = [epochs EXCEPT ![w] = @ - 1]
        /\ UNCHANGED vars /\ workerVec' = workerVec /\ leaving' = leaving /\ locked' = locked
    BY <1>14 DEF EpochRun, EpochEnded
  <2>2. /\ order'[w] = {} /\ w \notin blocked
        /\ \A v \in Consumers \ {w} : order'[v] = order[v] /\ epochs'[v] = epochs[v]
    BY <1>0, <1>1, <2>1
  <2>3. QED BY <1>1, <1>3, <1>4, <2>1, <2>2
<1>15. ASSUME NEW w \in Consumers, BatchEnd(w) PROVE Good
  <2>1. /\ epochs[w] = 0 /\ locked' = locked \ {w} /\ epochs' = epochs /\ order' = order
        /\ UNCHANGED vars /\ workerVec' = workerVec /\ leaving' = leaving
    BY <1>15 DEF BatchEnd
  <2>2. w \notin blocked /\ order[w] = {}
    BY <1>1, <2>1
  <2>3. QED BY <1>1, <1>3, <1>4, <2>1, <2>2
<1>16. ASSUME NEW i \in Items, OrderAgain(i) PROVE Good
  <2>1. /\ blocked' = blocked /\ poisoned' = poisoned /\ workerVec' = workerVec
        /\ leaving' = leaving /\ locked' = locked /\ epochs' = epochs /\ order' = order
    BY <1>16 DEF OrderAgain, Again
  <2>2. QED BY <1>1, <1>3, <2>1
<1>17. QED
  BY <1>5, <1>6, <1>7, <1>8, <1>9, <1>10, <1>11, <1>12, <1>13, <1>14, <1>15, <1>16
  DEF PoolNext, Daemon

\* An order goes from pop() to one worker and from it to the finished ones.
LEMMA OrdersStep ==
  ASSUME PoolTypes, Batches, Orders, PoolNext
  PROVE  Orders'
<1>0. order \in [Consumers -> SUBSET Items]
  BY DEF PoolTypes
<1> DEFINE U == UNION {order[w] : w \in Consumers}
<1>1. /\ \A x : x \in U <=> \E w \in Consumers : x \in order[w]
      /\ \A x : x \in U' <=> \E w \in Consumers : x \in order'[w]
  OBVIOUS
<1>2. /\ received = finished \cup U
      /\ \A v, w \in Consumers : v # w => order[v] \cap order[w] = {}
      /\ \A w \in Consumers : order[w] \cap finished = {}
  BY DEF Orders
<1> DEFINE Good ==
      /\ received' = finished' \cup U'
      /\ \A v, w \in Consumers : v # w => order'[v] \cap order'[w] = {}
      /\ \A w \in Consumers : order'[w] \cap finished' = {}
<1>3. SUFFICES Good
  BY DEF Orders
<1>4. order' = order => U' = U
  OBVIOUS
<1> HIDE DEF U
<1>5. CASE UNCHANGED <<received, order, finished>>
  BY <1>2, <1>4, <1>5
\* pop() returns an order, or nothing
<1>6. ASSUME NEW w \in Consumers, order[w] = {}, received \subseteq received',
             order' = [order EXCEPT ![w] = received' \ received], finished' = finished
      PROVE  Good
  <2>1. order'[w] = received' \ received /\ \A v \in Consumers \ {w} : order'[v] = order[v]
    BY <1>0, <1>6
  <2>2. \A v \in Consumers : order[v] \subseteq received
    BY <1>1, <1>2
  <2>3. finished \subseteq received
    BY <1>2
  <2>4. \A x : x \in U' <=> x \in U \/ x \in received' \ received
    BY <1>1, <1>6, <2>1
  <2>5. received' = finished' \cup U'
    BY <1>2, <1>6, <2>4
  <2>6. \A v \in Consumers \ {w} : order'[v] \cap order'[w] = {}
    BY <2>1, <2>2
  <2>7. \A u, v \in Consumers : u # v => order'[u] \cap order'[v] = {}
    BY <1>2, <2>1, <2>6
  <2>8. \A v \in Consumers : order'[v] \cap finished' = {}
    BY <1>2, <1>6, <2>1, <2>3
  <2>9. QED BY <2>5, <2>7, <2>8
<1>7. ASSUME NEW w \in Consumers, EpochPop(w) PROVE Good
  <2>1. order[w] = {} /\ order' = [order EXCEPT ![w] = received' \ received] /\ finished' = finished
    BY <1>7 DEF EpochPop, MayBegin, InEpoch
  <2>2. received \subseteq received'
    BY <1>7 DEF EpochPop, Pop, PopPushing, PopStored, PopWait
  <2>3. QED BY <1>6, <2>1, <2>2
<1>8. ASSUME NEW w \in Consumers, EpochWakes(w) PROVE Good
  <2>1. order[w] = {}
    BY <1>8 DEF EpochWakes, PopReturn, Batches
  <2>2. /\ order' = [order EXCEPT ![w] = received' \ received] /\ finished' = finished
        /\ received \subseteq received'
    BY <1>8 DEF EpochWakes, PopReturn
  <2>3. QED BY <1>6, <2>1, <2>2
<1>9. ASSUME NEW w \in Consumers, EpochRun(w) PROVE Good
  <2>1. /\ finished' = finished \cup order[w] /\ order' = [order EXCEPT ![w] = {}]
        /\ received' = received
    BY <1>9 DEF EpochRun, vars
  <2>2. order'[w] = {} /\ \A v \in Consumers \ {w} : order'[v] = order[v]
    BY <1>0, <2>1
  <2>3. \A x : x \in U' \cup finished' <=> x \in U \cup finished
    BY <1>1, <2>1, <2>2
  <2>4. received' = finished' \cup U'
    BY <1>2, <2>1, <2>3
  <2>5. \A u, v \in Consumers : u # v => order'[u] \cap order'[v] = {}
    BY <1>2, <2>2
  <2>6. \A v \in Consumers : order'[v] \cap finished' = {}
    BY <1>2, <2>1, <2>2
  <2>7. QED BY <2>4, <2>5, <2>6
<1>10. ASSUME NEW p \in Producers, PoolPush(p) \/ PoolReturn(p) PROVE Good
  BY <1>5, <1>10 DEF PoolPush, PoolReturn, pool, Push, PushHand, PushBlock, PushStore, PushReturn
<1>11. ASSUME Destroy \/ Shrink PROVE Good
  BY <1>5, <1>11 DEF Destroy, Poison, Shrink, vars
<1>12. ASSUME NEW w \in Consumers,
              Grow(w) \/ Detach(w) \/ BatchBegin(w) \/ EpochEmpty(w) \/ BatchEnd(w)
       PROVE  Good
  BY <1>5, <1>12 DEF Grow, Detach, BatchBegin, EpochEmpty, BatchEnd, vars
\* a finished order's name is free again
<1>13. ASSUME NEW i \in Items, OrderAgain(i) PROVE Good
  <2>1. /\ i \in finished /\ received' = received \ {i} /\ finished' = finished \ {i}
        /\ order' = order
    BY <1>13 DEF OrderAgain, Again
  <2>2. U' = U
    BY <1>4, <2>1
  <2>3. i \notin U
    BY <1>1, <1>2, <2>1
  <2>4. QED BY <1>2, <2>1, <2>2, <2>3
<1>14. QED
  BY <1>7, <1>8, <1>9, <1>10, <1>11, <1>12, <1>13 DEF PoolNext, Daemon

\* A pool without workers and with an empty queue.
LEMMA PoolInitially == PoolInit => PoolInv
<1> SUFFICES ASSUME PoolInit PROVE PoolInv
  OBVIOUS
<1>1. Queue
  BY QueueInit DEF PoolInit
<1>2. workerVec = <<>> /\ Len(<<>>) = 0 /\ 1 .. 0 = {} /\ \A S : <<>> \in Seq(S)
  BY EmptySeq DEF PoolInit
<1>3. attached = {}
  BY <1>2 DEF attached, Elements
<1>4. PoolTypes
  BY <1>2 DEF PoolInit, PoolTypes
<1>5. Batches
  BY <1>2, <1>3 DEF PoolInit, Init, Batches, Distinct, InEpoch
<1>6. Orders
  BY DEF PoolInit, Init, Orders
<1>7. QED BY <1>1, <1>4, <1>5, <1>6 DEF PoolInv

\* A step of the pool is one of the queue, with what the pool adds, or leaves
\* the queue alone.
LEMMA PoolInductive == PoolInv /\ [PoolNext]_poolVars => PoolInv'
<1> SUFFICES ASSUME PoolInv, [PoolNext]_poolVars PROVE PoolInv'
  OBVIOUS
<1>0. Queue /\ PoolTypes /\ Batches /\ Orders
  BY DEF PoolInv
<1>1. CASE PoolNext
  <2>1. Queue'
    BY <1>0, <1>1, PoolUsesQueue, QueueStep
  <2>2. PoolTypes' /\ Batches' /\ Orders'
    BY <1>0, <1>1, <2>1, PoolTypesStep, BatchesStep, OrdersStep
  <2>3. QED BY <2>1, <2>2 DEF PoolInv
<1>2. CASE UNCHANGED poolVars
  <2>1. /\ UNCHANGED vars /\ UNCHANGED workerVec /\ UNCHANGED leaving /\ UNCHANGED locked
        /\ UNCHANGED epochs /\ UNCHANGED order /\ UNCHANGED finished
    BY <1>2 DEF poolVars, pool
  <2>2. UNCHANGED blocked /\ UNCHANGED poisoned /\ UNCHANGED received
    BY <2>1 DEF vars
  <2>3. Queue'
    BY <1>0, <2>1, QueueStep
  <2>4. PoolTypes' /\ Orders'
    BY <1>0, <2>1, <2>2 DEF PoolTypes, Orders
  <2>5. Batches'
    BY <1>0, <2>1, <2>2 DEF Batches, attached, InEpoch
  <2>6. QED BY <2>3, <2>4, <2>5 DEF PoolInv
<1>3. QED BY <1>1, <1>2

\* The invariant holds in every reachable state.
LEMMA PoolAlways == PoolSafety => []PoolInv
  BY PoolInitially, PoolInductive, PTL DEF PoolSafety

-----------------------------------------------------------------------------
(* The theorems.                                                           *)

\* The variables of the queue and of the pool keep their types.
THEOREM TypeCorrect == PoolSafety => [](QueueTypes /\ PoolTypes)
<1>1. PoolInv => QueueTypes /\ PoolTypes
  BY DEF PoolInv, Queue
<1>2. QED BY <1>1, PoolAlways, PTL

\* Consumers never wait while an item or a producer waits, nor producers while
\* there is room (push and pop of bounded_queue.h).
THEOREM NoWaitInVain == PoolSafety => []NobodyWaitsInVain
<1>1. PoolInv => NobodyWaitsInVain
  BY DEF PoolInv, Queue
<1>2. QED BY <1>1, PoolAlways, PTL

\* Every semaphore of a blocked push or pop is released once, and the queue
\* points to the frames of calls that are still blocked.
THEOREM ReleasedOnce == PoolSafety => []SemaphoreOnce
<1>1. PoolInv => SemaphoreOnce
  BY DEF PoolInv, Queue, Callers
<1>2. QED BY <1>1, PoolAlways, PTL

\* The queue of the pool implements the channel: push sends, pop receives and
\* poison gives up only what nobody has been handed.
THEOREM ChannelImplemented == PoolSafety => Ch!Safety
<1>1. PoolInit => Ch!Init
  <2> SUFFICES ASSUME PoolInit PROVE Ch!Init
    OBVIOUS
  <2>1. Init
    BY DEF PoolInit
  <2>2. Elements(<<>>) = {}
    BY EmptySeq DEF Elements
  <2>3. Stored = {} /\ InHand = {}
    BY <2>1, <2>2 DEF Init, Stored, InHand, PushingItems
  <2>4. QED BY <2>1, <2>3 DEF Init, Ch!Init
<1>2. PoolInv /\ [PoolNext]_poolVars => [Ch!Next]_(Ch!vars)
  <2> SUFFICES ASSUME PoolInv, [PoolNext]_poolVars PROVE [Ch!Next]_(Ch!vars)
    OBVIOUS
  <2>1. UNCHANGED poolVars => UNCHANGED vars
    BY DEF poolVars
  <2>2. [Next]_vars
    BY <2>1, PoolUsesQueue
  <2>3. QED BY <2>2, ChannelStep DEF PoolInv
<1>3. QED BY <1>1, <1>2, PoolAlways, PTL DEF PoolSafety, Ch!Safety

\* A worker whose handle has gone is in no batch, in no pop() and in no order,
\* and the destructor leaves no worker behind.
THEOREM WorkersOutside == PoolSafety => []NobodyInside
<1>1. PoolInv => NobodyInside
  <2> SUFFICES ASSUME Batches PROVE NobodyInside
    BY DEF PoolInv
  <2>1. locked \subseteq attached /\ (poisoned /\ leaving = {} => attached = {})
    BY DEF Batches
  <2>2. \A w \in Consumers \ attached : ~InEpoch(w)
    BY <2>1 DEF Batches
  <2>3. QED BY <2>1, <2>2 DEF NobodyInside
<1>2. QED BY <1>1, PoolAlways, PTL

\* An accepted work order is in one place: queued, handed over, run by one
\* worker, finished, or dropped with the pool.
THEOREM OrderOwnership == PoolSafety => []EveryOrderOnce
<1>1. PoolInv => EveryOrderOnce
  BY DEF PoolInv, Orders, Queue, Goods, EveryOrderOnce
<1>2. QED BY <1>1, PoolAlways, PTL
=============================================================================
