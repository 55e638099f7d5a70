------------------------------ MODULE OnflyPool ------------------------------
(***************************************************************************)
(* Tasks on threads of their own:                                          *)
(*   concurrency_task/task_launcher.h          TaskHandle, TaskAsDaemon    *)
(*   concurrency_base/onfly_worker_controller.h  FiniteDaemonController    *)
(*   concurrency_base/concurrency_base_onfly.h   this_thread_idx           *)
(*   main_service/*.h    the broker: threads are created and joined by the *)
(*                       main thread, which everybody else has to ask      *)
(*                                                                         *)
(* The construction and destruction of a TaskHandle run on the thread of   *)
(* the task's owner, which may be a task itself.                           *)
(***************************************************************************)
EXTENDS Integers, Sequences, FiniteSets

CONSTANTS
  Tasks,
  User,           \* an owner that is not a task
  Owner,          \* the owner of each task's handle
  Unwaited,       \* the tasks whose handle may go without a wait()
  Cap,            \* threads configured for the pool
  Indeterminate,  \* what reading the outer tmp_id of _register can yield
  Idle            \* no request

ASSUME OwnerAssumption    == Owner \in [Tasks -> Tasks \cup {User}] /\ User \notin Tasks
ASSUME UnwaitedAssumption == Unwaited \subseteq Tasks
ASSUME CapAssumption      == Cap \in Nat
ASSUME ReadAssumption     == Indeterminate \subseteq Nat /\ Indeterminate # {}

Requests == [task: Tasks, what: {"spawn", "join"}]
ASSUME IdleAssumption == Idle \notin Requests

VARIABLES
  idTable,    \* information_map[...].id_table
  resource,   \* resource_map: the index of each registered task's thread
  call,       \* where the owner is with the handle of each task
  thr,        \* where the thread of each task is
  cached,     \* the thread_local result of this_thread_idx()
  completed,  \* Deliverable::is_completed
  cancelled,  \* tasks whose thread's cancellation token is set
  queue,      \* BrokerageController::resolvable_vec
  mainWaits,  \* main_arg.has_value()
  mainJob,    \* ask_arg of main_wait_for_one
  answer      \* what each ask() has come back with

pool   == <<idTable, resource>>
thread == <<thr, cached, completed>>
broker == <<queue, mainWaits, mainJob, answer>>
vars   == <<pool, call, thread, cancelled, broker>>

NoIdx == -1

Init ==
  /\ idTable = [n \in 1 .. Cap |-> n - 1]
  /\ resource = [t \in Tasks |-> NoIdx]
  /\ call = [t \in Tasks |-> "none"]
  /\ thr = [t \in Tasks |-> "none"]
  /\ cached = [t \in Tasks |-> NoIdx]
  /\ completed = {}
  /\ cancelled = {}
  /\ queue = <<>>
  /\ mainWaits = FALSE
  /\ mainJob = Idle
  /\ answer = [t \in Tasks |-> "none"]

\* std::abort() by one thread is the end of all.
Crashed == \E t \in Tasks : thr[t] = "aborted"

\* The steps of call[t] are the owner's.
OwnerRuns(t) == ~Crashed /\ Owner[t] \in {User} \cup {u \in Tasks : thr[u] = "body"}

-----------------------------------------------------------------------------
(* BrokerageController                                                     *)

\* Mutant of ask: a request that finds main waiting is queued, main sleeps on.
askQuietly(t, what) ==
  /\ answer' = [answer EXCEPT ![t] = "none"]
  /\ queue' = Append(queue, [task |-> t, what |-> what])
  /\ UNCHANGED <<mainJob, mainWaits>>

\* ask(): given to main if main waits, queued otherwise; the caller then waits
\* for its semaphore.
ask(t, what) ==
  LET r == [task |-> t, what |-> what] IN
  /\ answer' = [answer EXCEPT ![t] = "none"]
  /\ IF mainWaits THEN mainJob' = r /\ mainWaits' = FALSE /\ UNCHANGED queue
                  ELSE queue' = Append(queue, r) /\ UNCHANGED <<mainJob, mainWaits>>

MainTake ==
  /\ ~Crashed
  /\ mainJob = Idle /\ ~mainWaits
  /\ queue # <<>>
  /\ mainJob' = Head(queue)
  /\ queue' = Tail(queue)
  /\ UNCHANGED <<pool, call, thread, cancelled, mainWaits, answer>>

MainWait ==
  /\ ~Crashed
  /\ mainJob = Idle /\ ~mainWaits
  /\ queue = <<>>
  /\ mainWaits' = TRUE
  /\ UNCHANGED <<pool, call, thread, cancelled, queue, mainJob, answer>>

\* ThreadBroker::resolve; creating the thread may fail.
MainSpawn ==
  /\ ~Crashed
  /\ mainJob # Idle
  /\ mainJob.what = "spawn"
  /\ \E ok \in BOOLEAN :
       /\ thr' = [thr EXCEPT ![mainJob.task] = IF ok THEN "init" ELSE @]
       /\ answer' = [answer EXCEPT ![mainJob.task] = IF ok THEN "done" ELSE "failed"]
  /\ mainJob' = Idle
  /\ UNCHANGED <<pool, call, cached, completed, cancelled, queue, mainWaits>>

\* ThreadDisposer::resolve: main is in join() until the thread has ended.
MainJoin ==
  /\ ~Crashed
  /\ mainJob # Idle
  /\ mainJob.what = "join"
  /\ thr[mainJob.task] = "ended"
  /\ answer' = [answer EXCEPT ![mainJob.task] = "done"]
  /\ mainJob' = Idle
  /\ UNCHANGED <<pool, call, thread, cancelled, queue, mainWaits>>

-----------------------------------------------------------------------------
(* TaskHandle's constructor: FiniteDaemonController::_register             *)

\* RESOURCE_EXHAUSTION
RegisterFails(t) ==
  /\ OwnerRuns(t)
  /\ call[t] = "none"
  /\ idTable = <<>>
  /\ call' = [call EXCEPT ![t] = "refused"]
  /\ UNCHANGED <<pool, thread, cancelled, broker>>

\* The popped id goes to a variable that hides the outer tmp_id and is lost.
RegisterPick(t) ==
  /\ OwnerRuns(t)
  /\ call[t] = "none"
  /\ idTable # <<>>
  /\ idTable' = SubSeq(idTable, 1, Len(idTable) - 1)
  /\ call' = [call EXCEPT ![t] = "picked"]
  /\ UNCHANGED <<resource, thread, cancelled, broker>>

\* get_thread_task: broke_thread asks main.
RegisterAsk(t) ==
  /\ OwnerRuns(t)
  /\ call[t] = "picked"
  /\ ask(t, "spawn")
  /\ call' = [call EXCEPT ![t] = "spawning"]
  /\ UNCHANGED <<pool, thread, cancelled>>

\* Mutant of RegisterUndo: the slot is not given back.
RegisterUndoForgotten(t) ==
  /\ OwnerRuns(t)
  /\ call[t] = "spawning"
  /\ answer[t] = "failed"
  /\ call' = [call EXCEPT ![t] = "refused"]
  /\ UNCHANGED <<pool, thread, cancelled, broker>>

\* ask() threw.  The outer tmp_id has never been assigned.
RegisterUndo(t) ==
  /\ OwnerRuns(t)
  /\ call[t] = "spawning"
  /\ answer[t] = "failed"
  /\ \E tmp_id \in Indeterminate : idTable' = Append(idTable, tmp_id)
  /\ call' = [call EXCEPT ![t] = "refused"]
  /\ UNCHANGED <<resource, thread, cancelled, broker>>

RegisterEnter(t) ==
  /\ OwnerRuns(t)
  /\ call[t] = "spawning"
  /\ answer[t] = "done"
  /\ \E tmp_id \in Indeterminate : resource' = [resource EXCEPT ![t] = tmp_id]
  /\ call' = [call EXCEPT ![t] = "entered"]
  /\ UNCHANGED <<idTable, thread, cancelled, broker>>

\* smp->release(): the thread may start
RegisterStart(t) ==
  /\ OwnerRuns(t)
  /\ call[t] = "entered"
  /\ call' = [call EXCEPT ![t] = "held"]
  /\ UNCHANGED <<pool, thread, cancelled, broker>>

-----------------------------------------------------------------------------
(* TaskHandle::wait or its destructor: deregister, cancel, join.  A        *)
(* DetachableTaskHandle that is detached goes without a wait.              *)

Deregister(t) ==
  /\ OwnerRuns(t)
  /\ call[t] = "held"
  /\ t \in completed \cup Unwaited
  /\ idTable' = Append(idTable, resource[t])
  /\ resource' = [resource EXCEPT ![t] = NoIdx]
  /\ call' = [call EXCEPT ![t] = "erased"]
  /\ UNCHANGED <<thread, cancelled, broker>>

\* The last shared_ptr to the thread goes: thread_destructor.
Dispose(t) ==
  /\ OwnerRuns(t)
  /\ call[t] = "erased"
  /\ cancelled' = cancelled \cup {t}
  /\ ask(t, "join")
  /\ call' = [call EXCEPT ![t] = "joining"]
  /\ UNCHANGED <<pool, thread>>

Closed(t) ==
  /\ OwnerRuns(t)
  /\ call[t] = "joining"
  /\ answer[t] = "done"
  /\ call' = [call EXCEPT ![t] = "closed"]
  /\ UNCHANGED <<pool, thread, cancelled, broker>>

-----------------------------------------------------------------------------
(* The thread: ThreadRunnableWrapper::run and TaskAsDaemon::run_one_epoch  *)

\* init_smp->acquire(), then the cancellation token is asked.
ThreadCheck(t) ==
  /\ ~Crashed
  /\ thr[t] = "init"
  /\ call[t] \in {"held", "erased", "joining"}
  /\ thr' = [thr EXCEPT ![t] = IF t \in cancelled THEN "ended" ELSE "body"]
  /\ UNCHANGED <<pool, call, cached, completed, cancelled, broker>>

\* The body asks for this_thread_idx() the first time.  daemon_info() has
\* nothing for a thread that is not in the map, and the debug build aborts.
ThreadLookup(t) ==
  /\ ~Crashed
  /\ thr[t] = "body"
  /\ cached[t] = NoIdx
  /\ IF resource[t] = NoIdx
       THEN thr' = [thr EXCEPT ![t] = "aborted"] /\ UNCHANGED cached
       ELSE cached' = [cached EXCEPT ![t] = resource[t]] /\ UNCHANGED thr
  /\ UNCHANGED <<pool, call, completed, cancelled, broker>>

\* The body returns or throws; the handles it holds have gone.  The thread
\* leaves its loop by OPERATION_GRACEFUL_TERMINATION_ERROR.
ThreadEnd(t) ==
  /\ ~Crashed
  /\ thr[t] = "body"
  /\ \A c \in Tasks : Owner[c] = t => call[c] \in {"none", "refused", "closed"}
  /\ completed' = completed \cup {t}
  /\ thr' = [thr EXCEPT ![t] = "ended"]
  /\ UNCHANGED <<pool, call, cached, cancelled, broker>>

-----------------------------------------------------------------------------
Construct(t) == RegisterFails(t) \/ RegisterPick(t) \/ RegisterAsk(t) \/ RegisterUndo(t)
                \/ RegisterEnter(t) \/ RegisterStart(t)
Destroy(t)   == Deregister(t) \/ Dispose(t) \/ Closed(t)
Thread(t)    == ThreadCheck(t) \/ ThreadLookup(t) \/ ThreadEnd(t)
Main         == MainTake \/ MainWait \/ MainSpawn \/ MainJoin

Next == Main \/ \E t \in Tasks : Construct(t) \/ Destroy(t) \/ Thread(t)

Safety == Init /\ [][Next]_vars

\* Threads are scheduled, task bodies end, and an owner that has begun with a
\* handle goes on.
Spec == /\ Safety
        /\ WF_vars(Main)
        /\ \A t \in Tasks : /\ WF_vars(ThreadCheck(t)) /\ WF_vars(ThreadEnd(t))
                            /\ WF_vars(call[t] # "none" /\ Construct(t))
                            /\ WF_vars(Destroy(t))

-----------------------------------------------------------------------------
(* Properties.                                                             *)

Asking(t) == {r \in Requests : r.task = t /\ \/ call[t] = "spawning" /\ r.what = "spawn"
                                             \/ call[t] = "joining" /\ r.what = "join"}

\* The slots of the pool are conserved: free, or taken by a handle under
\* construction or alive, even when a thread cannot be created.
SlotsConserved ==
  Len(idTable) + Cardinality({t \in Tasks : call[t] \in {"picked", "spawning", "entered", "held"}})
    = Cap

\* Each request that waits for its answer is known to the broker once, queued
\* or in main's hands, and the broker knows no others: it points to the stack
\* of a thread that is still inside ask().
RequestOnce ==
  /\ \A t \in Tasks : \A r \in Asking(t) :
       Cardinality({n \in 1 .. Len(queue) : queue[n] = r}) + (IF mainJob = r THEN 1 ELSE 0)
         = (IF answer[t] = "none" THEN 1 ELSE 0)
  /\ \A n \in 1 .. Len(queue) : queue[n] \in Asking(queue[n].task)
  /\ mainJob # Idle => mainJob \in Asking(mainJob.task)
  /\ mainWaits => queue = <<>> /\ mainJob = Idle

\* Neither a slot of the pool nor a request to main is lost or counted twice,
\* whatever fails on the way.
NothingLost == SlotsConserved /\ RequestOnce

\* affined_randomizer and the allocators index their tables, which have a row
\* per configured thread, by this_thread_idx() and abort beyond the end.
IndexInRange == \A t \in Tasks : cached[t] < Cap

\* A handle that is being constructed or destroyed is done with in the end:
\* the requests of all owners get through main.
HandleSettles ==
  \A t \in Tasks : call[t] \in {"picked", "spawning", "entered", "erased", "joining"} ~>
    call[t] \in {"held", "refused", "closed"} \/ Crashed
=============================================================================
