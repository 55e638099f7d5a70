----------------------------- MODULE ThreadPool -----------------------------
(***************************************************************************)
(* seqpar_async/thread_x.h, the pool behind async_x, and                   *)
(* resource_disposer/resource_disposer.h, a pool of one: a BoundedQueue of *)
(* work orders whose consumers are daemons of the DaemonController.        *)
(*                                                                         *)
(* A worker's epoch blocks in pop() while its daemon's lock is held; the   *)
(* destructor of the pool needs that lock to deregister the worker.  The   *)
(* queue is BoundedQueue itself; of the controller what the pool sees of   *)
(* it: a daemon runs batches of epochs under its lock, and deregister()    *)
(* detaches the worker between two batches.                                *)
(***************************************************************************)
EXTENDS BoundedQueue

CONSTANT LoopChk  \* epochs in a batch

ASSUME LoopAssumption == LoopChk \in Nat \ {0}

VARIABLES
  workerVec, \* worker_vec: the workers whose daemon is theirs
  leaving,   \* workers the pool is deregistering
  locked,    \* daemons in a batch, holding their lock
  epochs,    \* epochs left in the batch
  order,     \* the work order each worker runs, as a set
  finished   \* history: orders whose run() has returned, until made again

pool     == <<workerVec, leaving, locked, epochs, order, finished>>
poolVars == <<vars, pool>>

attached == Elements(workerVec)

Erase(s, n) == SubSeq(s, 1, n - 1) \o SubSeq(s, n + 1, Len(s))

PoolInit ==
  /\ Init
  /\ workerVec = <<>>
  /\ leaving = {}
  /\ locked = {}
  /\ epochs = [w \in Consumers |-> 0]
  /\ order = [w \in Consumers |-> {}]
  /\ finished = {}

-----------------------------------------------------------------------------
(* The manager: set_thread_worker, run and the destructor.                 *)

\* set_thread_worker to a larger size
Grow(w) ==
  /\ ~poisoned
  /\ leaving = {}
  /\ w \notin attached
  /\ workerVec' = Append(workerVec, w)
  /\ UNCHANGED <<vars, leaving, locked, epochs, order, finished>>

\* set_thread_worker to a smaller size, once per worker: the last handle goes
Shrink ==
  /\ ~poisoned
  /\ leaving = {}
  /\ workerVec # <<>>
  /\ leaving' = {workerVec[Len(workerVec)]}
  /\ UNCHANGED <<vars, workerVec, locked, epochs, order, finished>>

\* Mutant of Destroy: the callers blocked in the queue are not woken.
DestroyUnpoisoned ==
  /\ ~poisoned
  /\ leaving = {}
  /\ poisoned' = TRUE
  /\ leaving' = attached
  /\ UNCHANGED <<cap, container, waiting, pushing, blocked, smp, dst, fresh, received,
                 dropped>>
  /\ UNCHANGED <<workerVec, locked, epochs, order, finished>>

\* The destructor poisons the queue and then drops the workers.
Destroy ==
  /\ leaving = {}
  /\ Poison
  /\ leaving' = attached
  /\ UNCHANGED <<workerVec, locked, epochs, order, finished>>

\* Mutant of Detach: the batch in progress is not waited for.
DetachAtOnce(w) ==
  /\ w \in leaving
  /\ \E n \in 1 .. Len(workerVec) :
       workerVec[n] = w /\ workerVec' = Erase(workerVec, n)
  /\ leaving' = leaving \ {w}
  /\ UNCHANGED <<vars, locked, epochs, order, finished>>

\* DaemonController::deregister: set_worker(nullptr) takes the daemon's lock.
Detach(w) ==
  /\ w \in leaving
  /\ w \notin locked
  /\ \E n \in 1 .. Len(workerVec) :
       workerVec[n] = w /\ workerVec' = Erase(workerVec, n)
  /\ leaving' = leaving \ {w}
  /\ UNCHANGED <<vars, locked, epochs, order, finished>>

\* Users launch orders for ever; the name of one that has been run serves again.
OrderAgain(i) ==
  /\ i \in finished
  /\ Again(i)
  /\ finished' = finished \ {i}
  /\ UNCHANGED <<workerVec, leaving, locked, epochs, order>>

PoolPush(p)   == Push(p) /\ UNCHANGED pool
PoolReturn(p) == PushReturn(p) /\ UNCHANGED pool

-----------------------------------------------------------------------------
(* The daemons.                                                            *)

BatchBegin(w) ==
  /\ w \in attached \ locked
  /\ locked' = locked \cup {w}
  /\ epochs' = [epochs EXCEPT ![w] = LoopChk]
  /\ UNCHANGED <<vars, workerVec, leaving, order, finished>>

InEpoch(w)    == w \in blocked \/ order[w] # {}
MayBegin(w)   == w \in locked /\ epochs[w] > 0 /\ ~InEpoch(w)
EpochEnded(w) == epochs' = [epochs EXCEPT ![w] = @ - 1]

\* Worker::run_one_epoch: pop() returns an order or blocks
EpochPop(w) ==
  /\ MayBegin(w)
  /\ Pop(w)
  /\ order' = [order EXCEPT ![w] = received' \ received]
  /\ UNCHANGED <<workerVec, leaving, locked, epochs, finished>>

\* pop() on the poisoned queue returns nothing.
EpochEmpty(w) ==
  /\ MayBegin(w)
  /\ poisoned
  /\ EpochEnded(w)
  /\ UNCHANGED <<vars, workerVec, leaving, locked, order, finished>>

\* Mutant of EpochWakes: a worker that wakes up after the poison goes home.
EpochWakesWary(w) ==
  /\ PopReturn(w)
  /\ order' = [order EXCEPT ![w] = IF poisoned THEN {} ELSE received' \ received]
  /\ IF poisoned THEN EpochEnded(w) ELSE UNCHANGED epochs
  /\ UNCHANGED <<workerVec, leaving, locked, finished>>

\* The blocked pop() returns; without an order the epoch is over.
EpochWakes(w) ==
  /\ PopReturn(w)
  /\ order' = [order EXCEPT ![w] = received' \ received]
  /\ IF dst[w] = Nothing THEN EpochEnded(w) ELSE UNCHANGED epochs
  /\ UNCHANGED <<workerVec, leaving, locked, finished>>

\* workorder->run() returns; for async_x it has released its waiter.
EpochRun(w) ==
  /\ order[w] # {}
  /\ finished' = finished \cup order[w]
  /\ order' = [order EXCEPT ![w] = {}]
  /\ EpochEnded(w)
  /\ UNCHANGED <<vars, workerVec, leaving, locked>>

BatchEnd(w) ==
  /\ w \in locked
  /\ epochs[w] = 0
  /\ locked' = locked \ {w}
  /\ UNCHANGED <<vars, workerVec, leaving, epochs, order, finished>>

-----------------------------------------------------------------------------
Daemon(w) == BatchBegin(w) \/ EpochPop(w) \/ EpochEmpty(w) \/ EpochWakes(w)
             \/ EpochRun(w) \/ BatchEnd(w)

PoolNext == \/ Destroy \/ Shrink
            \/ \E i \in Items : OrderAgain(i)
            \/ \E p \in Producers : PoolPush(p) \/ PoolReturn(p)
            \/ \E w \in Consumers : Grow(w) \/ Detach(w) \/ Daemon(w)

PoolSafety == PoolInit /\ [][PoolNext]_poolVars

\* Daemons and woken threads are scheduled and orders return.  deregister()
\* gets a lock that is free again and again, as in DaemonController.
PoolSpec ==
        /\ PoolSafety
        /\ \A p \in Producers : WF_poolVars(PoolReturn(p))
        /\ \A w \in Consumers : WF_poolVars(Daemon(w)) /\ SF_poolVars(Detach(w))

-----------------------------------------------------------------------------
(* Properties.                                                             *)

\* A worker whose handle has gone is not in a batch, in the queue or in an
\* order, and when the destructor has dropped the workers all have gone: the
\* queue and what the orders refer to may be freed.
NobodyInside ==
  /\ locked \subseteq attached
  /\ \A w \in Consumers \ attached : ~InEpoch(w)
  /\ poisoned /\ leaving = {} => attached = {}

\* An accepted order is queued, on its way to one worker, run by one worker,
\* finished, or dropped because the pool went: never run twice, never lost.
EveryOrderOnce ==
  /\ received = finished \cup UNION {order[w] : w \in Consumers}
  /\ \A v, w \in Consumers : v # w => order[v] \cap order[w] = {}
  /\ \A w \in Consumers : order[w] \cap finished = {}
  /\ EveryItemOnce

\* The destructor comes back although idle workers hold their daemons' locks.
DestroyReturns == poisoned ~> attached = {}

\* The next pop() serves a blocked pusher before this stored order.
Overtaken(i) == i \in Elements(container) /\ pushing # <<>>

\* An accepted order is run, unless the pool goes or has no workers, or it is
\* overtaken again and again.  So one that was handed over, or whose push()
\* blocks, is run however many more are pushed, and one in the container is run
\* once pushes stop blocking; producers who keep the queue full can hold a
\* stored order back for ever.
OrderRuns == \A i \in Items :
  i \notin fresh ~> i \in finished \/ poisoned \/ attached = {} \/ Overtaken(i)
=============================================================================
