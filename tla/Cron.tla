-------------------------------- MODULE Cron --------------------------------
(***************************************************************************)
(* cron_subsystem/implementation/cron_subsystem_implementation.h: the jobs *)
(* launched by the other subsystems, the container they wait in, the       *)
(* ticker daemon and the worker daemons that run them.                     *)
(*                                                                         *)
(* The container's heap is a sequence of jobs, earliest expiry first.  Of  *)
(* an expiry only its distance from now matters, and nothing distinguishes *)
(* the expiries that have passed but their order, which the sequence       *)
(* keeps: left[j] is Past once the expiry of j is before now.  So time is  *)
(* unbounded although the state space is finite.                           *)
(***************************************************************************)
EXTENDS Integers, Sequences, FiniteSets

CONSTANTS
  Jobs,     \* the cron jobs; each is launched once
  Dur,      \* the period of each job
  Workers,  \* the CRON_WORK_DAEMON daemons
  Due,      \* POISON_CHK_INTERVAL_DUE
  NoJob     \* a PeriodicCronJob whose updatable is null

ASSUME DurAssumption   == Dur \in [Jobs -> Nat]
ASSUME DueAssumption   == Due \in Nat \ {0}
ASSUME NoJobAssumption == NoJob \notin Jobs

Past == -1

VARIABLES
  heap,       \* periodic_cron_bucket_vec, earliest first
  left,       \* expiry - now of each job in the heap
  waiting,    \* wait_bucket_vec
  poisoned,   \* was_poisoned
  smp,        \* workers whose waiting_smp has been released
  item,       \* the job each worker has in hand
  pc,         \* where each worker is in run_one_epoch()
  pill,       \* jobs whose handle has been destroyed
  counter,    \* poison_chk_interval_counter of each job
  launched,   \* history: jobs the container has accepted
  ended,      \* history: jobs that left the subsystem
  late        \* history: runs of each job begun after its handle had gone

container == <<heap, left, waiting, poisoned, smp>>
worker    == <<item, pc>>
job       == <<pill, counter, launched, ended, late>>
vars      == <<container, worker, job>>

Init ==
  /\ heap = <<>>
  /\ left = [j \in Jobs |-> Past]
  /\ waiting = <<>>
  /\ poisoned = FALSE
  /\ smp = {}
  /\ item = [w \in Workers |-> NoJob]
  /\ pc = [w \in Workers |-> "idle"]
  /\ pill = {}
  /\ counter = [j \in Jobs |-> 0]
  /\ launched = {}
  /\ ended = {}
  /\ late = [j \in Jobs |-> 0]

Least(m, n) == IF m < n THEN m ELSE n
Elements(s) == {s[n] : n \in 1 .. Len(s)}
Drop(s, n)  == SubSeq(s, n + 1, Len(s))

Insert(s, n, j) == SubSeq(s, 1, n) \o <<j>> \o Drop(s, n)

-----------------------------------------------------------------------------
(* PeriodicCronContainer                                                   *)

\* Mutant of Insertions: a new job goes in front whatever its expiry.
InsertionsFront(s, j, d) == {<<j>> \o s}

\* push_heap: j, which expires in d, behind the jobs that expire earlier; jobs
\* with the same expiry are in no particular order.
Insertions(s, j, d) ==
  {Insert(s, n, j) : n \in
     {k \in 0 .. Len(s) : /\ \A i \in 1 .. k : left[s[i]] <= d
                          /\ \A i \in k + 1 .. Len(s) : left[s[i]] >= d}}

\* push, when the container is not poisoned
Push(j) ==
  /\ left' = [left EXCEPT ![j] = Dur[j]]
  /\ heap' \in Insertions(heap, j, Dur[j])
  /\ UNCHANGED <<waiting, poisoned, smp>>

FrontDue == heap # <<>> /\ left[Head(heap)] = Past

\* Time passes.  An expiry equal to now is not due yet.
Tick ==
  /\ \E j \in Elements(heap) : left[j] # Past
  /\ left' = [j \in Jobs |-> IF j \in Elements(heap) /\ left[j] # Past
                               THEN left[j] - 1 ELSE left[j]]
  /\ UNCHANGED <<heap, waiting, poisoned, smp, worker, job>>

\* Mutant of Update: a worker is woken for a job that stays in the heap.
UpdateKept ==
  LET due == {n \in 1 .. Len(heap) : left[heap[n]] = Past}
      k   == Least(Cardinality(due), Len(waiting))
  IN  /\ ~poisoned
      /\ k > 0
      /\ item' = [w \in Workers |->
           IF \E n \in 1 .. k : waiting[n] = w
             THEN heap[CHOOSE n \in 1 .. k : waiting[n] = w] ELSE item[w]]
      /\ smp' = smp \cup {waiting[n] : n \in 1 .. k}
      /\ waiting' = Drop(waiting, k)
      /\ UNCHANGED <<heap, left, poisoned, pc, job>>

\* update(), called by the ticker daemon: the due jobs are handed to the
\* workers that have waited longest.
Update ==
  LET due == {n \in 1 .. Len(heap) : left[heap[n]] = Past}
      k   == Least(Cardinality(due), Len(waiting))
  IN  /\ ~poisoned
      /\ k > 0
      /\ item' = [w \in Workers |->
           IF \E n \in 1 .. k : waiting[n] = w
             THEN heap[CHOOSE n \in 1 .. k : waiting[n] = w] ELSE item[w]]
      /\ smp' = smp \cup {waiting[n] : n \in 1 .. k}
      /\ waiting' = Drop(waiting, k)
      /\ heap' = Drop(heap, k)
      /\ UNCHANGED <<left, poisoned, pc, job>>

\* Mutant of Poison: the waiting workers are not woken.
PoisonSilent ==
  /\ ~poisoned
  /\ poisoned' = TRUE
  /\ ended' = ended \cup Elements(heap)
  /\ UNCHANGED <<heap, left, waiting, smp, worker, pill, counter, launched, late>>

\* poison(), from the destructor of the launcher: nobody reads the two vectors
\* again.
Poison ==
  /\ ~poisoned
  /\ poisoned' = TRUE
  /\ item' = [w \in Workers |-> IF w \in Elements(waiting) THEN NoJob ELSE item[w]]
  /\ smp' = smp \cup Elements(waiting)
  /\ ended' = ended \cup Elements(heap)
  /\ UNCHANGED <<heap, left, waiting, pc, pill, counter, launched, late>>

-----------------------------------------------------------------------------
(* CronWorker::run_one_epoch                                               *)

\* pop: the front is due
PopDue(w) ==
  /\ pc[w] = "idle"
  /\ ~poisoned
  /\ FrontDue
  /\ item' = [item EXCEPT ![w] = Head(heap)]
  /\ heap' = Tail(heap)
  /\ pc' = [pc EXCEPT ![w] = "popped"]
  /\ UNCHANGED <<left, waiting, poisoned, smp, job>>

\* pop: nothing is due
PopWait(w) ==
  /\ pc[w] = "idle"
  /\ ~poisoned
  /\ ~FrontDue
  /\ waiting' = Append(waiting, w)
  /\ item' = [item EXCEPT ![w] = NoJob]
  /\ pc' = [pc EXCEPT ![w] = "waiting"]
  /\ UNCHANGED <<heap, left, poisoned, smp, job>>

\* The acquire in pop returns, with no job if the container was poisoned.
PopReturn(w) ==
  /\ pc[w] = "waiting"
  /\ w \in smp
  /\ smp' = smp \ {w}
  /\ pc' = [pc EXCEPT ![w] = IF item[w] = NoJob THEN "idle" ELSE "popped"]
  /\ UNCHANGED <<heap, left, waiting, poisoned, item, job>>

\* InternalUpdatableWrapper::update finds the pill: the job is not queued again.
UpdateStop(w) ==
  LET j == item[w] IN
  /\ pc[w] = "popped"
  /\ counter[j] = Due /\ j \in pill
  /\ ended' = ended \cup {j}
  /\ item' = [item EXCEPT ![w] = NoJob]
  /\ pc' = [pc EXCEPT ![w] = "idle"]
  /\ UNCHANGED <<container, pill, counter, launched, late>>

\* Mutant of UpdateGo: the counter is not reset.
UpdateGoNoReset(w) ==
  LET j == item[w] IN
  /\ pc[w] = "popped"
  /\ ~(counter[j] = Due /\ j \in pill)
  /\ counter[j] <= Due  \* keeps the mutant's state space finite
  /\ counter' = [counter EXCEPT ![j] = @ + 1]
  /\ pc' = [pc EXCEPT ![w] = "go"]
  /\ UNCHANGED <<container, item, pill, launched, ended, late>>

\* Mutant of UpdateGo: the run that follows a check is not counted.
UpdateGoUncounted(w) ==
  LET j == item[w] IN
  /\ pc[w] = "popped"
  /\ ~(counter[j] = Due /\ j \in pill)
  /\ counter' = [counter EXCEPT ![j] = IF @ = Due THEN 0 ELSE @ + 1]
  /\ pc' = [pc EXCEPT ![w] = "go"]
  /\ UNCHANGED <<container, item, pill, launched, ended, late>>

\* InternalUpdatableWrapper::update goes on to the job's own update(), which
\* begins in a step of its own: the handle may go in between.
UpdateGo(w) ==
  LET j == item[w] IN
  /\ pc[w] = "popped"
  /\ ~(counter[j] = Due /\ j \in pill)
  /\ counter' = [counter EXCEPT ![j] = (IF @ = Due THEN 0 ELSE @) + 1]
  /\ pc' = [pc EXCEPT ![w] = "go"]
  /\ UNCHANGED <<container, item, pill, launched, ended, late>>

JobBegin(w) ==
  LET j == item[w] IN
  /\ pc[w] = "go"
  /\ pc' = [pc EXCEPT ![w] = "running"]
  /\ late' = [late EXCEPT ![j] = IF j \in pill THEN @ + 1 ELSE @]
  /\ UNCHANGED <<container, item, pill, counter, launched, ended>>

\* The job's update() throws: the job is logged and forgotten.
JobThrows(w) ==
  /\ pc[w] = "running"
  /\ ended' = ended \cup {item[w]}
  /\ item' = [item EXCEPT ![w] = NoJob]
  /\ pc' = [pc EXCEPT ![w] = "idle"]
  /\ UNCHANGED <<container, pill, counter, launched, late>>

JobReturns(w) ==
  /\ pc[w] = "running"
  /\ pc' = [pc EXCEPT ![w] = "ran"]
  /\ UNCHANGED <<container, item, job>>

Requeue(w) ==
  /\ pc[w] = "ran"
  /\ ~poisoned
  /\ Push(item[w])
  /\ item' = [item EXCEPT ![w] = NoJob]
  /\ pc' = [pc EXCEPT ![w] = "idle"]
  /\ UNCHANGED job

\* The container has been poisoned meanwhile: push throws, the job is gone.
RequeueFails(w) ==
  /\ pc[w] = "ran"
  /\ poisoned
  /\ ended' = ended \cup {item[w]}
  /\ item' = [item EXCEPT ![w] = NoJob]
  /\ pc' = [pc EXCEPT ![w] = "idle"]
  /\ UNCHANGED <<container, pill, counter, launched, late>>

-----------------------------------------------------------------------------
(* PeriodicCronLauncher                                                    *)

Launch(j) ==
  /\ j \notin launched
  /\ ~poisoned
  /\ Push(j)
  /\ launched' = launched \cup {j}
  /\ UNCHANGED <<worker, pill, counter, ended, late>>

\* The destructor of the handle that launch() returned.
Release(j) ==
  /\ j \in launched \ pill
  /\ pill' = pill \cup {j}
  /\ UNCHANGED <<container, worker, counter, launched, ended, late>>

\* The destructor of the launcher, having poisoned the container, deregisters
\* the daemons: DaemonController waits for the epoch in progress.
Deregister(w) ==
  /\ poisoned
  /\ pc[w] = "idle"
  /\ pc' = [pc EXCEPT ![w] = "gone"]
  /\ UNCHANGED <<container, item, job>>

-----------------------------------------------------------------------------
Epoch(w) == PopDue(w) \/ PopWait(w) \/ PopReturn(w) \/ UpdateStop(w) \/ UpdateGo(w)
            \/ JobBegin(w) \/ JobThrows(w) \/ JobReturns(w) \/ Requeue(w) \/ RequeueFails(w)

Next == \/ Tick \/ Update \/ Poison
        \/ \E w \in Workers : Epoch(w) \/ Deregister(w)
        \/ \E j \in Jobs : Launch(j) \/ Release(j)

Safety == Init /\ [][Next]_vars

\* Time passes, the ticker and the workers are scheduled, and a job's update()
\* comes back.
Spec == /\ Safety
        /\ WF_vars(Tick)
        /\ WF_vars(Update)
        /\ \A w \in Workers : WF_vars(Epoch(w)) /\ WF_vars(Deregister(w))

-----------------------------------------------------------------------------
(* Properties.                                                             *)

Pending == IF poisoned THEN {} ELSE Elements(heap)
Held    == {item[w] : w \in Workers} \ {NoJob}

TypeOK ==
  /\ heap \in Seq(Jobs)
  /\ left \in [Jobs -> Int]
  /\ \A j \in Jobs : left[j] >= Past /\ left[j] <= Dur[j]
  /\ waiting \in Seq(Workers)
  /\ poisoned \in BOOLEAN
  /\ smp \subseteq Workers
  /\ item \in [Workers -> Jobs \cup {NoJob}]
  /\ pc \in [Workers -> {"idle", "waiting", "popped", "go", "running", "ran", "gone"}]
  /\ pill \subseteq Jobs
  /\ counter \in [Jobs -> 0 .. Due]
  /\ launched \subseteq Jobs
  /\ ended \subseteq Jobs
  /\ late \in [Jobs -> Nat]

\* A launched job is in exactly one place: in the container once, in the hands
\* of one worker, or ended.  So no job is lost and the job's update(), which no
\* client makes thread-safe, is never run by two workers at a time.
EveryJobOnce ==
  /\ launched = Pending \cup Held \cup ended
  /\ Pending \cap Held = {} /\ Pending \cap ended = {} /\ Held \cap ended = {}
  /\ \A m, n \in 1 .. Len(heap) : heap[m] = heap[n] => m = n
  /\ \A v, w \in Workers : item[v] = item[w] /\ item[v] # NoJob => v = w

\* Once the handle is destroyed the job is run Due more times at most, although
\* the pill is read some time before the job's update() begins.
LateRunsBounded == \A j \in Jobs : late[j] <= Due

\* A job is running again and again until it throws, its handle goes, or the launcher goes.
JobKeepsRunning ==
  \A j \in Jobs : j \in launched ~>
    (poisoned \/ j \in pill \/ j \in ended
     \/ \E w \in Workers : pc[w] = "running" /\ item[w] = j)

\* The job of a destroyed handle leaves the subsystem.
ReleasedJobEnds == \A j \in Jobs : j \in pill ~> j \in ended

\* The destructor of the launcher comes back: every worker leaves pop and its
\* daemon is deregistered.
CloseEnds == poisoned ~> \A w \in Workers : pc[w] = "gone"
=============================================================================
