-------------------------- MODULE OnflyPoolProofs --------------------------
(***************************************************************************)
(* Theorems about OnflyPool, for every set of tasks, whoever owns them, and *)
(* every number of threads.                                                *)
(***************************************************************************)
EXTENDS OnflyPool, FiniteSetTheorems, SequenceTheorems, TLAPS

-----------------------------------------------------------------------------
(* The invariant.                                                          *)

Calls   == {"none", "refused", "picked", "spawning", "entered", "held", "erased", "joining",
            "closed"}
Phases  == {"none", "init", "body", "ended", "aborted"}
Answers == {"none", "done", "failed"}

TypeOK ==
  /\ idTable \in Seq(Int)
  /\ resource \in [Tasks -> Int]
  /\ call \in [Tasks -> Calls]
  /\ thr \in [Tasks -> Phases]
  /\ cached \in [Tasks -> Int]
  /\ completed \subseteq Tasks
  /\ cancelled \subseteq Tasks
  /\ queue \in Seq(Requests)
  /\ mainWaits \in BOOLEAN
  /\ mainJob \in Requests \cup {Idle}
  /\ answer \in [Tasks -> Answers]

\* The tasks that have a slot of the pool
Slots == {t \in Tasks : call[t] \in {"picked", "spawning", "entered", "held"}}

SlotsCounted == IsFiniteSet(Slots) /\ SlotsConserved

\* The tasks whose owner waits in ask(), and what it waits for
Waiting == {t \in Tasks : call[t] \in {"spawning", "joining"} /\ answer[t] = "none"}
Request == [t \in Tasks |-> [task |-> t, what |-> IF call[t] = "spawning" THEN "spawn" ELSE "join"]]

\* The requests the broker knows are different, and are those that somebody
\* waits for.
Known ==
  /\ \A m, n \in 1 .. Len(queue) : queue[m] = queue[n] => m = n
  /\ \A n \in 1 .. Len(queue) :
       /\ queue[n] # mainJob
       /\ queue[n].task \in Waiting
       /\ queue[n] = Request[queue[n].task]
  /\ mainJob # Idle => mainJob.task \in Waiting /\ mainJob = Request[mainJob.task]
  /\ \A t \in Waiting : \/ mainJob = Request[t]
                       \/ \E n \in 1 .. Len(queue) : queue[n] = Request[t]
  /\ mainWaits => queue = <<>> /\ mainJob = Idle

Inv == TypeOK /\ SlotsCounted /\ Known

USE OwnerAssumption, UnwaitedAssumption, CapAssumption, ReadAssumption, IdleAssumption

-----------------------------------------------------------------------------
(* Types.                                                                  *)

\* A request that main gets, or that is queued for it, is one.
LEMMA AskTypes ==
  ASSUME TypeOK, NEW t \in Tasks, NEW what \in {"spawn", "join"}, ask(t, what)
  PROVE  /\ queue' \in Seq(Requests)
         /\ mainWaits' \in BOOLEAN
         /\ mainJob' \in Requests \cup {Idle}
         /\ answer' \in [Tasks -> Answers]
  <1> DEFINE r == [task |-> t, what |-> what]
  <1>1. r \in Requests
    BY DEF Requests
  <1>2. queue \in Seq(Requests) /\ Append(queue, r) \in Seq(Requests)
    BY <1>1, AppendProperties DEF TypeOK
  <1>3. /\ answer' = [answer EXCEPT ![t] = "none"]
        /\ IF mainWaits THEN mainJob' = r /\ mainWaits' = FALSE /\ queue' = queue
                        ELSE queue' = Append(queue, r) /\ mainJob' = mainJob /\ mainWaits' = mainWaits
    BY DEF ask
  <1> HIDE DEF r
  <1> QED
    BY <1>1, <1>2, <1>3 DEF TypeOK, Answers

\* pop_back
LEMMA Shorter ==
  ASSUME NEW S, NEW s \in Seq(S), s # <<>>
  PROVE  SubSeq(s, 1, Len(s) - 1) \in Seq(S) /\ Len(SubSeq(s, 1, Len(s) - 1)) = Len(s) - 1
  <1>1. Len(s) \in Nat /\ Len(s) # 0 /\ \A i \in 1 .. Len(s) : s[i] \in S
    BY LenProperties, ElementOfSeq, EmptySeq
  <1> DEFINE n == Len(s) - 1
  <1>2. 1 \in Int /\ n \in Int /\ (\A i \in 1 .. n : s[i] \in S) /\ n >= 0
    BY <1>1
  <1> HIDE DEF n
  <1>3. SubSeq(s, 1, n) \in Seq(S) /\ Len(SubSeq(s, 1, n)) = IF 1 <= n THEN n - 1 + 1 ELSE 0
    BY <1>2, SubSeqProperties
  <1>4. Len(SubSeq(s, 1, n)) = n
    BY <1>2, <1>3
  <1> QED
    BY <1>3, <1>4 DEF n

\* Every variable keeps its type whatever step is taken.
LEMMA TypeStep == TypeOK /\ [Next]_vars => TypeOK'
  <1> SUFFICES ASSUME TypeOK, [Next]_vars PROVE TypeOK'
    OBVIOUS
  <1> USE DEF TypeOK, Calls, Phases, Answers, Requests, pool, thread, broker, vars, NoIdx
  <1>m. CASE Main
    <2>1. CASE MainTake
      BY <2>1, HeadTailProperties DEF MainTake
    <2>2. CASE MainWait
      BY <2>2 DEF MainWait
    <2>3. CASE MainSpawn
      BY <2>3 DEF MainSpawn
    <2>4. CASE MainJoin
      BY <2>4 DEF MainJoin
    <2> QED
      BY <1>m, <2>1, <2>2, <2>3, <2>4 DEF Main
  <1>c. ASSUME NEW t \in Tasks, Construct(t) PROVE TypeOK'
    <2>1. CASE RegisterFails(t)
      BY <2>1 DEF RegisterFails
    <2>2. CASE RegisterPick(t)
      <3>1. SubSeq(idTable, 1, Len(idTable) - 1) \in Seq(Int)
        BY <2>2, Shorter DEF RegisterPick
      <3> QED
        BY <2>2, <3>1 DEF RegisterPick
    <2>3. CASE RegisterAsk(t)
      BY <2>3, AskTypes DEF RegisterAsk
    <2>4. CASE RegisterUndo(t)
      <3>1. \A i \in Indeterminate : Append(idTable, i) \in Seq(Int)
        BY AppendProperties
      <3> QED
        BY <2>4, <3>1 DEF RegisterUndo
    <2>5. CASE RegisterEnter(t)
      BY <2>5 DEF RegisterEnter
    <2>6. CASE RegisterStart(t)
      BY <2>6 DEF RegisterStart
    <2> QED
      BY <1>c, <2>1, <2>2, <2>3, <2>4, <2>5, <2>6 DEF Construct
  <1>d. ASSUME NEW t \in Tasks, Destroy(t) PROVE TypeOK'
    <2>1. CASE Deregister(t)
      <3>1. Append(idTable, resource[t]) \in Seq(Int)
        BY AppendProperties
      <3> QED
        BY <2>1, <3>1 DEF Deregister
    <2>2. CASE Dispose(t)
      BY <2>2, AskTypes DEF Dispose
    <2>3. CASE Closed(t)
      BY <2>3 DEF Closed
    <2> QED
      BY <1>d, <2>1, <2>2, <2>3 DEF Destroy
  <1>t. ASSUME NEW t \in Tasks, Thread(t) PROVE TypeOK'
    <2>1. CASE ThreadCheck(t)
      BY <2>1 DEF ThreadCheck
    <2>2. CASE ThreadLookup(t)
      BY <2>2 DEF ThreadLookup
    <2>3. CASE ThreadEnd(t)
      BY <2>3 DEF ThreadEnd
    <2> QED
      BY <1>t, <2>1, <2>2, <2>3 DEF Thread
  <1>u. CASE UNCHANGED vars
    BY <1>u
  <1> QED
    BY <1>m, <1>c, <1>d, <1>t, <1>u DEF Next

-----------------------------------------------------------------------------
(* Slots.                                                                  *)

\* A task that enters or leaves a finite set changes its size by one.
LEMMA OneMore ==
  ASSUME NEW S, NEW t, IsFiniteSet(S)
  PROVE  /\ Cardinality(S) \in Nat
         /\ t \notin S => IsFiniteSet(S \cup {t}) /\ Cardinality(S \cup {t}) = Cardinality(S) + 1
         /\ t \in S => IsFiniteSet(S \ {t}) /\ Cardinality(S \ {t}) = Cardinality(S) - 1
  BY FS_CardinalityType, FS_AddElement, FS_RemoveElement

\* A step that neither gives nor takes an id and leaves everybody with or
\* without a slot keeps the count.
LEMMA SlotsKept ==
  ASSUME TypeOK, SlotsCounted, NEW t \in Tasks, NEW c \in Calls,
         idTable' = idTable, call' = [call EXCEPT ![t] = c],
         (c \in {"picked", "spawning", "entered", "held"})
           <=> (call[t] \in {"picked", "spawning", "entered", "held"})
  PROVE  SlotsCounted'
  <1>1. Slots' = Slots
    BY DEF Slots, TypeOK
  <1> QED
    BY <1>1 DEF SlotsCounted, SlotsConserved, Slots

\* RegisterPick takes a slot, RegisterUndo and Deregister give it back, and
\* no other step touches one.
LEMMA SlotsStep == TypeOK /\ SlotsCounted /\ [Next]_vars => SlotsCounted'
  <1> SUFFICES ASSUME TypeOK, SlotsCounted, [Next]_vars PROVE SlotsCounted'
    OBVIOUS
  <1>0. /\ idTable \in Seq(Int) /\ call \in [Tasks -> Calls]
        /\ IsFiniteSet(Slots) /\ Len(idTable) + Cardinality(Slots) = Cap
    BY DEF TypeOK, SlotsCounted, SlotsConserved, Slots
  <1>s. ASSUME UNCHANGED <<idTable, call>> PROVE SlotsCounted'
    BY <1>s DEF SlotsCounted, SlotsConserved, Slots
  <1>1. ASSUME NEW t \in Tasks, RegisterPick(t) PROVE SlotsCounted'
    <2>1. /\ call[t] = "none" /\ call' = [call EXCEPT ![t] = "picked"]
          /\ idTable # <<>> /\ idTable' = SubSeq(idTable, 1, Len(idTable) - 1)
      BY <1>1 DEF RegisterPick
    <2>2. t \notin Slots /\ Slots' = Slots \cup {t}
      BY <2>1, <1>0 DEF Slots, Calls
    <2>3. Len(idTable') = Len(idTable) - 1 /\ Len(idTable) \in Nat
      BY <2>1, <1>0, Shorter, LenProperties
    <2>4. IsFiniteSet(Slots') /\ Cardinality(Slots') = Cardinality(Slots) + 1 /\ Cardinality(Slots) \in Nat
      BY <2>2, <1>0, OneMore
    <2>5. Len(idTable') + Cardinality(Slots') = Cap
      BY <2>3, <2>4, <1>0
    <2> QED
      BY <2>4, <2>5 DEF SlotsCounted, SlotsConserved, Slots
  <1>2. ASSUME NEW t \in Tasks, RegisterUndo(t) \/ Deregister(t) PROVE SlotsCounted'
    <2>1. /\ call[t] \in {"spawning", "held"}
          /\ \E c \in {"refused", "erased"} : call' = [call EXCEPT ![t] = c]
          /\ \E i \in Int : idTable' = Append(idTable, i)
      BY <1>2 DEF RegisterUndo, Deregister, TypeOK
    <2>2. t \in Slots /\ Slots' = Slots \ {t}
      BY <2>1, <1>0 DEF Slots, Calls
    <2>3. Len(idTable') = Len(idTable) + 1 /\ Len(idTable) \in Nat
      BY <2>1, <1>0, AppendProperties, LenProperties
    <2>4. IsFiniteSet(Slots') /\ Cardinality(Slots') = Cardinality(Slots) - 1 /\ Cardinality(Slots) \in Nat
      BY <2>2, <1>0, OneMore
    <2>5. Len(idTable') + Cardinality(Slots') = Cap
      BY <2>3, <2>4, <1>0
    <2> QED
      BY <2>4, <2>5 DEF SlotsCounted, SlotsConserved, Slots
  <1>3. ASSUME NEW t \in Tasks, Construct(t) PROVE SlotsCounted'
    <2>1. CASE RegisterFails(t) \/ RegisterAsk(t) \/ RegisterEnter(t) \/ RegisterStart(t)
      <3>1. /\ idTable' = idTable
            /\ \E c \in Calls : /\ call' = [call EXCEPT ![t] = c]
                                /\ (c \in {"picked", "spawning", "entered", "held"})
                                     <=> (call[t] \in {"picked", "spawning", "entered", "held"})
        BY <2>1 DEF RegisterFails, RegisterAsk, RegisterEnter, RegisterStart, Calls, pool
      <3> QED
        BY <3>1, SlotsKept
    <2> QED
      BY <1>1, <1>2, <1>3, <2>1 DEF Construct
  <1>4. ASSUME NEW t \in Tasks, Destroy(t) PROVE SlotsCounted'
    <2>1. CASE Dispose(t) \/ Closed(t)
      <3>1. /\ idTable' = idTable
            /\ \E c \in Calls : /\ call' = [call EXCEPT ![t] = c]
                                /\ (c \in {"picked", "spawning", "entered", "held"})
                                     <=> (call[t] \in {"picked", "spawning", "entered", "held"})
        BY <2>1 DEF Dispose, Closed, Calls, pool
      <3> QED
        BY <3>1, SlotsKept
    <2> QED
      BY <1>2, <1>4, <2>1 DEF Destroy
  <1>5. ASSUME \/ Main \/ UNCHANGED vars \/ \E t \in Tasks : Thread(t) PROVE SlotsCounted'
    <2>1. UNCHANGED <<idTable, call>>
      BY <1>5 DEF Main, MainTake, MainWait, MainSpawn, MainJoin, Thread, ThreadCheck, ThreadLookup,
                  ThreadEnd, pool, vars
    <2> QED
      BY <2>1, <1>s
  <1> QED
    BY <1>3, <1>4, <1>5 DEF Next

-----------------------------------------------------------------------------
(* Requests.                                                               *)

\* What is queued, and what is asked for, is a request.
LEMMA RequestTypes ==
  ASSUME TypeOK
  PROVE  /\ \A n \in 1 .. Len(queue) : queue[n] \in Requests /\ queue[n].task \in Tasks
         /\ \A u \in Tasks : Request[u] \in Requests /\ Request[u] # Idle /\ Request[u].task = u
  <1>1. \A r \in Requests : r.task \in Tasks
    BY DEF Requests
  <1>2. \A n \in 1 .. Len(queue) : queue[n] \in Requests
    BY ElementOfSeq DEF TypeOK
  <1>3. \A u \in Tasks : Request[u] \in Requests /\ Request[u].task = u
    BY DEF Request, Requests
  <1> QED
    BY <1>1, <1>2, <1>3

\* Those who wait are tasks, before a step and after it.
LEMMA WaitingTasks == Waiting \subseteq Tasks /\ Waiting' \subseteq Tasks
  BY DEF Waiting

\* A step that neither the broker nor a waiting owner takes part in.
LEMMA KnownKept ==
  ASSUME TypeOK, Known, UNCHANGED <<queue, mainJob, mainWaits>>,
         \A u \in Tasks : /\ u \in Waiting' <=> u \in Waiting
                          /\ u \in Waiting => (Request')[u] = Request[u]
  PROVE  Known'
  <1>1. \A n \in 1 .. Len(queue) : queue[n].task \in Tasks
    BY RequestTypes
  <1>2. mainJob # Idle => mainJob.task \in Tasks
    BY DEF TypeOK, Requests
  <1>3. \A u \in Tasks : /\ u \in Waiting' <=> u \in Waiting
                         /\ u \in Waiting => (Request')[u] = Request[u]
    OBVIOUS
  <1> QED
    BY <1>1, <1>2, <1>3, WaitingTasks DEF Known

\* ask(): the request of an owner that did not wait is new to the broker.
LEMMA AskKnown ==
  ASSUME TypeOK, Known, NEW t \in Tasks, NEW what \in {"spawn", "join"}, ask(t, what),
         call[t] \notin {"spawning", "joining"},
         call' = [call EXCEPT ![t] = IF what = "spawn" THEN "spawning" ELSE "joining"]
  PROVE  Known'
  <1> DEFINE r == [task |-> t, what |-> what]
  <1>0. /\ queue \in Seq(Requests) /\ call \in [Tasks -> Calls] /\ answer \in [Tasks -> Answers]
        /\ mainJob \in Requests \cup {Idle}
    BY DEF TypeOK
  <1>1. r \in Requests /\ r # Idle /\ r.task = t
    BY DEF Requests
  <1>2. \A u \in Tasks : u # t => (u \in Waiting' <=> u \in Waiting) /\ (Request')[u] = Request[u]
    BY <1>0 DEF ask, Waiting, Request
  <1>3. t \notin Waiting /\ t \in Waiting' /\ (Request')[t] = r
    BY <1>0 DEF ask, Waiting, Request
  <1>4. \A n \in 1 .. Len(queue) : queue[n] \in Requests /\ queue[n].task \in Tasks /\ queue[n].task # t
    BY <1>3, RequestTypes DEF Known
  <1>5. mainJob # Idle => mainJob.task \in Tasks /\ mainJob.task # t
    BY <1>0, <1>3 DEF Known, Requests
  <1>6. /\ Len(queue) \in Nat
        /\ Len(Append(queue, r)) = Len(queue) + 1
        /\ Append(queue, r)[Len(queue) + 1] = r
        /\ \A n \in 1 .. Len(queue) : Append(queue, r)[n] = queue[n]
    BY <1>0, <1>1, AppendProperties, LenProperties
  <1>7. IF mainWaits THEN mainJob' = r /\ mainWaits' = FALSE /\ queue' = queue
                     ELSE queue' = Append(queue, r) /\ mainJob' = mainJob /\ mainWaits' = mainWaits
    BY DEF ask
  <1> HIDE DEF r
  <1>8. CASE mainWaits
    <2>1. /\ queue' = <<>> /\ mainJob' = r /\ mainWaits' = FALSE
          /\ \A u \in Tasks : u \notin Waiting
      BY <1>7, <1>8, EmptySeq, RequestTypes DEF Known, Waiting
    <2>2. 1 .. Len(queue') = {}
      BY <2>1, EmptySeq
    <2>3. \A u \in Tasks : u \in Waiting' => u = t
      BY <2>1, <1>2
    <2> QED
      BY <2>1, <2>2, <2>3, <1>1, <1>3, WaitingTasks DEF Known
  <1>9. CASE ~mainWaits
    <2> DEFINE q == Append(queue, r)
    <2>1. queue' = q /\ mainJob' = mainJob /\ mainWaits' = mainWaits /\ ~mainWaits
      BY <1>7, <1>9
    <2>2. /\ Len(q) = Len(queue) + 1 /\ q[Len(queue) + 1] = r
          /\ \A n \in 1 .. Len(queue) : q[n] = queue[n]
      BY <1>6
    <2> HIDE DEF q
    <2>3. \A n \in 1 .. Len(q) : n \in 1 .. Len(queue) \/ n = Len(queue) + 1
      BY <2>2, <1>6
    <2>4. \A n \in 1 .. Len(queue) : queue[n] # r
      BY <1>4, <1>1
    <2>5. \A m, n \in 1 .. Len(q) : q[m] = q[n] => m = n
      BY <2>2, <2>3, <2>4 DEF Known
    <2>6. \A n \in 1 .. Len(q) : /\ q[n] # mainJob
                                 /\ q[n].task \in Waiting'
                                 /\ q[n] = (Request')[q[n].task]
      <3> SUFFICES ASSUME NEW n \in 1 .. Len(q)
                   PROVE  q[n] # mainJob /\ q[n].task \in Waiting' /\ q[n] = (Request')[q[n].task]
        OBVIOUS
      <3>1. CASE n \in 1 .. Len(queue)
        <4>1. q[n] = queue[n] /\ queue[n].task \in Tasks /\ queue[n].task # t
          BY <3>1, <2>2, <1>4
        <4>2. queue[n] # mainJob /\ queue[n].task \in Waiting /\ queue[n] = Request[queue[n].task]
          BY <3>1 DEF Known
        <4>3. queue[n].task \in Waiting' /\ (Request')[queue[n].task] = Request[queue[n].task]
          BY <4>1, <4>2, <1>2
        <4> QED
          BY <4>1, <4>2, <4>3
      <3>2. CASE n = Len(queue) + 1
        BY <3>2, <2>2, <1>1, <1>3, <1>5
      <3> QED
        BY <3>1, <3>2, <2>3
    <2>7. mainJob # Idle => mainJob.task \in Waiting' /\ mainJob = (Request')[mainJob.task]
      BY <1>2, <1>5 DEF Known
    <2>8. \A u \in Tasks : u \in Waiting' => \/ mainJob = (Request')[u]
                                          \/ \E n \in 1 .. Len(q) : q[n] = (Request')[u]
      <3> SUFFICES ASSUME NEW u \in Tasks, u \in Waiting'
                   PROVE  mainJob = (Request')[u] \/ \E n \in 1 .. Len(q) : q[n] = (Request')[u]
        OBVIOUS
      <3>1. CASE u = t
        <4>1. Len(queue) + 1 \in 1 .. Len(q)
          BY <2>2, <1>6
        <4> QED
          BY <3>1, <4>1, <2>2, <1>3
      <3>2. CASE u # t
        <4>1. u \in Waiting /\ (Request')[u] = Request[u]
          BY <3>2, <1>2
        <4>2. 1 .. Len(queue) \subseteq 1 .. Len(q)
          BY <2>2, <1>6
        <4> QED
          BY <4>1, <4>2, <2>2 DEF Known
      <3> QED
        BY <3>1, <3>2
    <2> QED
      BY <2>1, <2>5, <2>6, <2>7, <2>8, WaitingTasks DEF Known
  <1> QED
    BY <1>8, <1>9

\* main answers the request it has in hand.
LEMMA AnswerKnown ==
  ASSUME TypeOK, Known, mainJob # Idle, mainJob' = Idle, UNCHANGED <<queue, mainWaits, call>>,
         NEW a \in {"done", "failed"}, answer' = [answer EXCEPT ![mainJob.task] = a]
  PROVE  Known'
  <1> DEFINE t == mainJob.task
  <1>0. queue \in Seq(Requests) /\ answer \in [Tasks -> Answers] /\ mainJob \in Requests
    BY DEF TypeOK
  <1>1. t \in Tasks /\ mainJob = Request[t] /\ ~mainWaits
    BY <1>0 DEF Known, Requests
  <1>2. \A u \in Tasks : /\ u \in Waiting' <=> u \in Waiting /\ u # t
                         /\ (Request')[u] = Request[u]
    BY <1>0, <1>1 DEF Waiting, Request
  <1>3. \A n \in 1 .. Len(queue) : queue[n] \in Requests /\ queue[n].task \in Tasks
    BY RequestTypes
  <1> HIDE DEF t
  <1>4. \A n \in 1 .. Len(queue) : queue[n].task # t
    BY <1>1 DEF Known
  <1>5. \A n \in 1 .. Len(queue) : /\ queue[n] # Idle
                                   /\ queue[n].task \in Waiting'
                                   /\ queue[n] = (Request')[queue[n].task]
    BY <1>2, <1>3, <1>4 DEF Known
  <1>6. \A u \in Tasks : u \in Waiting' => \E n \in 1 .. Len(queue) : queue[n] = (Request')[u]
    <2> SUFFICES ASSUME NEW u \in Tasks, u \in Waiting'
                 PROVE  \E n \in 1 .. Len(queue) : queue[n] = (Request')[u]
      OBVIOUS
    <2>1. u \in Waiting /\ u # t /\ (Request')[u] = Request[u]
      BY <1>2
    <2>2. mainJob # Request[u]
      BY <2>1, <1>1 DEF Request
    <2> QED
      BY <2>1, <2>2 DEF Known
  <1> QED
    BY <1>1, <1>5, <1>6, WaitingTasks DEF Known

\* main takes the request at the front of the queue.
LEMMA TakeKnown ==
  ASSUME TypeOK, Known, MainTake
  PROVE  Known'
  <1> DEFINE L == Len(queue)
             q == Tail(queue)
             j == Head(queue)
  <1>0. queue \in Seq(Requests) /\ queue # <<>>
    BY DEF TypeOK, MainTake
  <1>1. /\ mainJob = Idle /\ ~mainWaits /\ mainWaits' = mainWaits
        /\ queue' = q /\ mainJob' = j
        /\ Waiting' = Waiting /\ Request' = Request
    BY DEF MainTake, Waiting, Request
  <1>2. L \in Nat /\ L # 0 /\ j = queue[1] /\ Len(q) = L - 1
    BY <1>0, HeadTailProperties, LenProperties, EmptySeq
  <1>3. \A n \in 1 .. (L - 1) : q[n] = queue[n + 1]
    BY <1>0, HeadTailProperties
  <1> HIDE DEF L, q, j
  <1>4. /\ \A m, n \in 1 .. L : queue[m] = queue[n] => m = n
        /\ \A n \in 1 .. L : /\ queue[n].task \in Waiting
                             /\ queue[n] = Request[queue[n].task]
        /\ \A t \in Waiting : \E n \in 1 .. L : queue[n] = Request[t]
    BY <1>1, RequestTypes DEF Known, L, Waiting
  <1>5. \A n \in 1 .. Len(q) : n + 1 \in 1 .. L /\ n + 1 # 1 /\ q[n] = queue[n + 1]
    BY <1>2, <1>3
  <1>6. 1 \in 1 .. L
    BY <1>2
  <1>7. \A m, n \in 1 .. Len(q) : q[m] = q[n] => m = n
    <2> SUFFICES ASSUME NEW m \in 1 .. Len(q), NEW n \in 1 .. Len(q), q[m] = q[n] PROVE m = n
      OBVIOUS
    <2>1. m + 1 = n + 1
      BY <1>4, <1>5
    <2> QED
      BY <2>1
  <1>8. \A n \in 1 .. Len(q) : q[n] # j /\ q[n].task \in Waiting /\ q[n] = Request[q[n].task]
    BY <1>2, <1>4, <1>5, <1>6
  <1>9. j.task \in Waiting /\ j = Request[j.task]
    BY <1>2, <1>4, <1>6
  <1>10. \A t \in Waiting : j = Request[t] \/ \E n \in 1 .. Len(q) : q[n] = Request[t]
    <2> SUFFICES ASSUME NEW t \in Waiting, j # Request[t]
                 PROVE  \E n \in 1 .. Len(q) : q[n] = Request[t]
      OBVIOUS
    <2>1. PICK n \in 1 .. L : queue[n] = Request[t]
      BY <1>4
    <2>2. n - 1 \in 1 .. Len(q) /\ (n - 1) + 1 = n
      BY <2>1, <1>2
    <2>3. q[n - 1] = queue[n]
      BY <2>2, <1>5
    <2> QED
      BY <2>1, <2>2, <2>3
  <1> QED
    BY <1>1, <1>7, <1>8, <1>9, <1>10 DEF Known

\* The broker knows the requests that are waited for, once, after every step.
LEMMA KnownStep == TypeOK /\ Known /\ [Next]_vars => Known'
  <1> SUFFICES ASSUME TypeOK, Known, [Next]_vars PROVE Known'
    OBVIOUS
  <1>0. call \in [Tasks -> Calls] /\ answer \in [Tasks -> Answers] /\ mainJob \in Requests \cup {Idle}
    BY DEF TypeOK
  <1> USE DEF pool, thread, broker
  <1>m. CASE Main
    <2>1. CASE MainWait
      <3>1. /\ mainJob = Idle /\ queue = <<>> /\ queue' = queue /\ mainJob' = mainJob
            /\ Waiting' = Waiting /\ Request' = Request
        BY <2>1 DEF MainWait, Waiting, Request
      <3> QED
        BY <3>1 DEF Known
    <2>2. CASE MainSpawn
      <3>1. PICK a \in {"done", "failed"} : answer' = [answer EXCEPT ![mainJob.task] = a]
        BY <2>2 DEF MainSpawn
      <3> QED
        BY <2>2, <3>1, AnswerKnown DEF MainSpawn
    <2>3. CASE MainJoin
      BY <2>3, AnswerKnown DEF MainJoin
    <2> QED
      BY <1>m, <2>1, <2>2, <2>3, TakeKnown DEF Main
  <1>k. ASSUME NEW t \in Tasks, UNCHANGED broker, NEW c \in Calls, call' = [call EXCEPT ![t] = c],
               t \notin Waiting, c \notin {"spawning", "joining"}
        PROVE  Known'
    <2>1. \A u \in Tasks : /\ u \in Waiting' <=> u \in Waiting
                           /\ u \in Waiting => (Request')[u] = Request[u]
      BY <1>k, <1>0 DEF Waiting, Request
    <2> QED
      BY <2>1, <1>k, KnownKept
  <1>c. ASSUME NEW t \in Tasks, Construct(t) PROVE Known'
    <2>1. CASE RegisterAsk(t)
      BY <2>1, AskKnown DEF RegisterAsk
    <2>2. CASE \/ RegisterFails(t) \/ RegisterPick(t) \/ RegisterUndo(t) \/ RegisterEnter(t)
               \/ RegisterStart(t)
      <3>1. /\ UNCHANGED broker /\ t \notin Waiting
            /\ \E c \in Calls : c \notin {"spawning", "joining"} /\ call' = [call EXCEPT ![t] = c]
        BY <2>2 DEF RegisterFails, RegisterPick, RegisterUndo, RegisterEnter, RegisterStart, Waiting,
                    Calls
      <3> QED
        BY <3>1, <1>k
    <2> QED
      BY <1>c, <2>1, <2>2 DEF Construct
  <1>d. ASSUME NEW t \in Tasks, Destroy(t) PROVE Known'
    <2>1. CASE Dispose(t)
      BY <2>1, AskKnown DEF Dispose
    <2>2. CASE Deregister(t) \/ Closed(t)
      <3>1. /\ UNCHANGED broker /\ t \notin Waiting
            /\ \E c \in Calls : c \notin {"spawning", "joining"} /\ call' = [call EXCEPT ![t] = c]
        BY <2>2 DEF Deregister, Closed, Waiting, Calls
      <3> QED
        BY <3>1, <1>k
    <2> QED
      BY <1>d, <2>1, <2>2 DEF Destroy
  <1>t. ASSUME UNCHANGED vars \/ \E t \in Tasks : Thread(t) PROVE Known'
    <2>1. UNCHANGED <<call, answer, queue, mainJob, mainWaits>>
      BY <1>t DEF Thread, ThreadCheck, ThreadLookup, ThreadEnd, vars
    <2>2. Waiting' = Waiting /\ Request' = Request
      BY <2>1 DEF Waiting, Request
    <2> QED
      BY <2>1, <2>2, KnownKept
  <1> QED
    BY <1>m, <1>c, <1>d, <1>t DEF Next

-----------------------------------------------------------------------------
(* Theorems.                                                               *)

\* All ids are free and nobody asks for anything.
LEMMA InitInv == Init => Inv
  <1> SUFFICES ASSUME Init PROVE Inv
    OBVIOUS
  <1>1. TypeOK
    <2>1. [n \in 1 .. Cap |-> n - 1] \in Seq(Int) /\ <<>> \in Seq(Requests)
      BY EmptySeq
    <2>2. idTable \in Seq(Int) /\ queue \in Seq(Requests)
      BY <2>1 DEF Init
    <2>3. resource \in [Tasks -> Int] /\ cached \in [Tasks -> Int]
      BY DEF Init, NoIdx
    <2>4. call \in [Tasks -> Calls] /\ thr \in [Tasks -> Phases] /\ answer \in [Tasks -> Answers]
      BY DEF Init, Calls, Phases, Answers
    <2> QED
      BY <2>2, <2>3, <2>4 DEF Init, TypeOK
  <1>2. SlotsCounted
    <2>1. Slots = {} /\ Len(idTable) = Cap
      BY DEF Init, Slots
    <2>2. IsFiniteSet(Slots) /\ Cardinality(Slots) = 0
      BY <2>1, FS_EmptySet
    <2> QED
      BY <2>1, <2>2 DEF SlotsCounted, SlotsConserved, Slots
  <1>3. Known
    <2>1. Waiting = {} /\ queue = <<>> /\ mainJob = Idle /\ 1 .. Len(queue) = {}
      BY EmptySeq DEF Init, Waiting
    <2> QED
      BY <2>1 DEF Known
  <1> QED
    BY <1>1, <1>2, <1>3 DEF Inv

\* Inv is an inductive invariant.
LEMMA Invariance == Safety => []Inv
  <1>1. Inv /\ [Next]_vars => Inv'
    BY TypeStep, SlotsStep, KnownStep DEF Inv
  <1> QED
    BY <1>1, InitInv, PTL DEF Safety

\* A request that is waited for is known to the broker in one place, any other
\* in none.
LEMMA OnePlace ==
  ASSUME TypeOK, Known, NEW t \in Tasks, NEW r \in Asking(t)
  PROVE  Cardinality({n \in 1 .. Len(queue) : queue[n] = r}) + (IF mainJob = r THEN 1 ELSE 0)
           = (IF answer[t] = "none" THEN 1 ELSE 0)
  <1> DEFINE P == {n \in 1 .. Len(queue) : queue[n] = r}
  <1> SUFFICES Cardinality(P) + (IF mainJob = r THEN 1 ELSE 0) = (IF answer[t] = "none" THEN 1 ELSE 0)
    OBVIOUS
  <1>1. r = Request[t] /\ r.task = t /\ (t \in Waiting <=> answer[t] = "none")
    BY DEF Asking, Request, Requests, Waiting
  <1>2. /\ r # Idle
        /\ \A n \in P : n \in 1 .. Len(queue) /\ queue[n] = r
        /\ \A n \in 1 .. Len(queue) : queue[n] = r => n \in P
    BY <1>1, RequestTypes
  <1>3. Cardinality({}) = 0
    BY FS_EmptySet
  <1> HIDE DEF P
  <1>4. CASE answer[t] # "none"
    <2>1. mainJob # r /\ P = {}
      BY <1>1, <1>2, <1>4 DEF Known
    <2> QED
      BY <2>1, <1>3, <1>4
  <1>5. CASE answer[t] = "none" /\ mainJob = r
    <2>1. P = {}
      BY <1>2, <1>5 DEF Known
    <2> QED
      BY <2>1, <1>3, <1>5
  <1>6. CASE answer[t] = "none" /\ mainJob # r
    <2>1. PICK n \in 1 .. Len(queue) : queue[n] = r
      BY <1>1, <1>6 DEF Known
    <2>2. P = {n}
      BY <2>1, <1>2 DEF Known
    <2>3. Cardinality(P) = 1
      BY <2>2, FS_Singleton
    <2> QED
      BY <2>3, <1>6
  <1> QED
    BY <1>4, <1>5, <1>6

\* What the invariant says of requests implies what the runs check.
LEMMA KnownOnce == TypeOK /\ Known => RequestOnce
  <1> SUFFICES ASSUME TypeOK, Known PROVE RequestOnce
    OBVIOUS
  <1>1. \A u \in Waiting : Request[u] \in Asking(u)
    BY WaitingTasks DEF Waiting, Request, Asking, Requests
  <1>2. \A n \in 1 .. Len(queue) : queue[n] \in Asking(queue[n].task)
    BY <1>1 DEF Known
  <1>3. mainJob # Idle => mainJob \in Asking(mainJob.task)
    BY <1>1 DEF Known
  <1>4. mainWaits => queue = <<>> /\ mainJob = Idle
    BY DEF Known
  <1> QED
    BY <1>2, <1>3, <1>4, OnePlace DEF RequestOnce

\* Every variable has the type its comment gives, whatever tasks are launched.
THEOREM TypeCorrect == Safety => []TypeOK
  <1>1. Inv => TypeOK
    BY DEF Inv
  <1> QED
    BY <1>1, Invariance, PTL

\* Neither a slot of the pool nor a request to the main thread is lost or
\* counted twice, however many tasks start tasks of their own and whichever
\* threads cannot be created.
THEOREM SlotsAndRequests == Safety => []NothingLost
  <1>1. Inv => NothingLost
    BY KnownOnce DEF Inv, SlotsCounted, NothingLost
  <1> QED
    BY <1>1, Invariance, PTL
=============================================================================
