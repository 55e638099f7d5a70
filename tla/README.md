# A TLA+ verification of the concurrency core of neural_network

The repository is a C++ system that evaluates, optimises and projects matrices
on many machines. Its numeric code stands on a layer of its own making: a lock,
queues, thread pools, daemons, a cron service, a request/response transport over
datagrams, and a lease protocol that ties resources on one machine to the life
of their owner on another. Almost every other subsystem relies on that layer, it is where schedules and failures decide
whether the program is correct, and it is what this project models.

Every definition is translated from the source; `PROJECT.json` maps each of them
to the lines it stands for, lists the hazards that the properties are aimed at,
and gives for every property a mutation of the code that breaks it.

## 1. Inventory

| Part | State it keeps | Operations | Talks to |
|---|---|---|---|
| fair mutex (`mutex_extension/fair_mutex.h`) | flag, waiter count, id of the thread that shall give way, id of the previous owner | lock, unlock | everything below |
| bounded queue (`concurrent_queue/bounded_queue.h`) | container, blocked producers with their items, waiting consumers, poison | push, pop, poison | thread pools, resource disposer |
| dedicated daemons (`concurrency_base/worker_controller.h`) | a worker slot and a lock per daemon thread, free ids per kind | register, deregister, the daemon loop, abort | lends daemons to cron, pools, disposer, coroutines |
| cron (`cron_subsystem/`) | heap of jobs by expiry, waiting workers, poison; per job a poison pill | launch, release of the handle, tick, pop, run, re-queue, poison | runs `update()` of connections and others |
| main service (`main_service/`) | requests for the main thread, the main thread's wait | ask, main_wait_for_one, create and join a thread | on-the-fly threads |
| on-the-fly threads (`concurrency_base/onfly_*.h`, `concurrency_task/`) | free slots, map from thread to index | TaskHandle construction, wait and destruction; this_thread_idx | main service; per-thread tables of allocator and randomizer |
| thread pool (`seqpar_async/thread_x.h`, `async_x.h`) | workers, queue of work orders | set_thread_worker, run, destructor | queue and daemons |
| resource disposer (`resource_disposer/`) | queue of disposables, one worker | dispose, destructor | queue and daemons |
| connectivity (`connectivity_subsystem/`) | controller: topic per master, last ping of each slave; master and slave: flags, time points, a ping promise | open, close, ping, get, `update()` of both sides | cron runs `update()`, REST carries pings |
| REST client (`internal_rest/network_rest_frame.h`, `network_ticket_timeout_manager.h`) | tickets with their observers, queue of requests, expiry queue with its waiters | request, response, destruction of the handle; the outbound, inbound and expiry workers; a cron job | mailbox; cron |
| REST server (`network_rest_frame.h`) | response cache, set of unique writes, traffic counter | an epoch of a resolver worker; a cron job | mailbox; handlers |
| retry promise (`network_rest_frame.h`) | index of the retry, result | `next()` of its coroutine | REST client |
| mailbox (`internal_rest/network_kernel_mailbox_impl1.h`) | unacknowledged packets, two queues of those who wait for room, acknowledged ids; at the receiver the ids it has seen | send, add, get and re-add retriables, ack, epochs of the workers | sockets |
| coroutine subsystem, CUDA executor, funnel, lease users, allocators, memory synchronisation, retryers, data loaders, streams and sockets, short heap, matrix services | see `PROJECT.json` | | |

What is hard in this code: threads that decide under a lock and sleep outside of
it; queues and containers that are poisoned while others sleep in them;
destructors that take workers back from daemons that are running them; a lease
that is judged by two cron jobs on two machines over a network; thread creation
that is funnelled through one thread that also joins; answers, their duplicates
and timeouts that race for one response; bounded memories of ids on which
"exactly once" rests; workers that wait for the room only they can make.

What makes each part correct:

* mutex: exclusion, no lost wake-up, exact waiter count, sound omission of fences;
* queue: nobody sleeps while somebody could serve him, every item is delivered
  once, poison frees everybody;
* daemons: a runner is lent once, a destroyed worker is not running, waiting for
  a batch ends;
* cron: no job lost or run twice at once, each runs again, a released job stops,
  the destructor returns;
* on-the-fly threads: slots are conserved, requests are answered once, a thread
  object outlives its thread, indexes are valid;
* pool: no detached worker is inside, every accepted order is accounted for;
* lease: the slave notices the end of the master within a bound, the topic is
  disposed of once, the room is not overfilled, no false alarm in the normal case;
* REST client: a response is written once, a ticket is closed once on every path,
  whoever waits will be woken, every call ends;
* REST server: a request with an id is handled once and answered alike however
  often it is retried, every request of an epoch gets its answer, promises end;
* mailbox: a packet is passed on once, acknowledged packets stop being sent,
  nobody waits for room that is there, send() returns.

## 2. Modules

Time, data and names are abstract; the control is complete. Each module's
header says how its variables correspond to the fields of the code.

**Connectivity** — one `MasterConnection` with its topic in the
`ConnectionController` and the slaves opened from its configuration. The actions
are the branches of both `update()` functions, the handling of a ping, the three
steps of `close()` (poison the job, claim the disposal, erase the topic), and the
network (`Reply`, `ReplyError`, `Lose`; a request may stay on the wire and be
handled again). `UpdateFetch` and `UpdateJudge` are two actions because the topic
is copied under a lock and judged outside of it; so are the claim and the
erasure. A discrete clock waits for a job that is due; `CronDur` and `CronLag`
bound the time between two runs. After `close()` a job may run once more, because
cron reads the poison pill before it calls `update()`.

**FairMutex**, with the abstract **Mutex** — `fair_atomic_flag`, one action per
atomic access. The ghost variable `lastOwner` remembers whose unlock came last.
Accesses are sequentially consistent: the code uses relaxed atomics plus
fences, and the weak-memory argument is not modelled. The lock is not free of
starvation, nor does the abstract lock promise it.

**BoundedQueue**, with the abstract **Channel** — the decisions of `push`, `pop`
and `poison` are atomic (they are made under the queue's lock), the return from a
semaphore is an action of its own. The name of an item that was received is used
again for a new one (`Again`), so that producers may push for ever. `Channel`
promises delivery at most once and that closing loses only what nobody has been
given.

**DaemonController** — daemons run batches of `LoopChk` epochs under their lock;
`deregister()` takes the controller's lock, returns the id and then waits for the
daemon's lock (`DeregisterFree`, `DeregisterClear`). Ids are encoded with their
kind as in `encode`/`decode`.

**Cron** — the heap is a sequence ordered by expiry in which jobs of equal expiry
may stand in any order, which is what the code's heap promises.
Of an expiry only the distance from now is kept, so time is unbounded. Workers
take a due job or wait for the ticker; the wrapper counts runs and reads the
pill; a job may throw, and its re-queueing may fail.

**OnflyPool** — `TaskHandle`s whose construction and destruction run on the
thread of their owner, which may be a task; registration, the request to main,
main's wait, creation, join; the task's look-up of its index. `Indeterminate` is
the set of values that the unassigned variable in `_register` can yield.

**ThreadPool** — extends BoundedQueue, unchanged, with daemons that block in
`pop()` while they hold their lock, growing, shrinking and destroying the pool.
The queue is checked here, in the composition it is used in. The resource
disposer is the same with one worker.

**RestClient**, with the abstract **RestCall** — `batch_request` with one request,
step by step (ticket, observer, request, clock-in), the handle it returns, and
the outbound, inbound and expiry workers with the cron job of the timeout
manager. Whatever happens under one lock is one action; `internal_update` is the
function of that name, which both `void_ticket` and the cron job end with. A
clock-in that has to wait continues in a second critical section
(`ClockInWakes`), as in the code. Time is the state of an entry: `max`, ticking
or expired. `RestCall` says what a caller may rely on: one end, an answer only to
what was sent, and that what `batch_request` refused is never sent. `request()`
itself can fail after that, when its wrapper cannot be allocated
(`MakeSingleResponseFails`); of a request that ends so nothing is promised.

**RestServer** — an epoch of a resolver worker as its feeders flush: receive and
cache read (`Receive`), traffic check (`TrafficThru`), unique write
(`UniqueWriteThru`), handler (`Serve`), cache insert (`Insert`) and responses
(`Send`). Epochs of several workers interleave in between. The cache and the set of
unique writes may be striped over several locks (the `Distributed` controllers), so
that a flush is not atomic; the model takes ids one by one, which allows any
division into stripes. Feeders hold an epoch, except the one that the traffic
controller limits; smaller ones would flush in the middle of it.
Responses are named by the run of the handler that made them, so that
`OneResponse` can tell two runs apart. `runs` and `forgotten` are ghosts.

**RestRetry** — the retry promise's coroutine against that server. All attempts
carry one id and each has its own ticket. An attempt is taken from `RestCall`:
it completes once, with an answer or with an error, which may come at any time
and whether or not the request was sent.

**Mailbox** — a sending and a receiving mailbox with a wire between them that
loses, delays and reorders. `add_retriables` and `reentrant_add_retriables`,
`ack`, `get_retriables` and the loop of `fulfill_wait_queue` (one action per
round, under `mtx`) are those of the retransmission controller; `thru` is the
inbound worker with its id controller. What a thread hands to the controller is a
set of packets: which of them find room first is left open. The count of
retransmissions is a field of the packet and goes with it. `passed` and `late`
are ghosts.

**CyclicSet** — the insertion into the bounded sets and maps of
`network_datastructure.h` on which both of the last rest.

The `MC*` modules add symmetry sets and the shapes of the small instances where
a cfg cannot state them. The capacity of a queue is a variable, `cap`, chosen in
the initial state from `Caps` and never changed, so that one run covers several.

## 3. Runs

| Run | What it shows | Bounds |
|---|---|---|
| connectivity_lossy | a slave notices in time; disposal once, by its claimant | one slave, timeouts 2, lease 4, clock 6: past the expiry of a lease, and past the bound after an early end of the master; the bound is reached, one unit less is violated; 2.4 million states |
| connectivity_normal | no false alarm with a prompt network; the room is not overfilled | three slaves for two places, cron runs up to one period late, clock 9 = the absolute timeout |
| fair_mutex | exclusion, wake-ups, fences; no deadlock; refinement of Mutex with its fairness | three threads, one spin each: a holder, a sleeper and one that is arriving |
| daemon_controller | runners lent once, no epoch of a dead worker; deregister and abort end | three clients, three runners of two kinds, batches of two |
| cron | jobs neither lost nor doubled, late runs bounded; every job runs again, ends after release; the destructor returns | two jobs of different periods, two workers |
| onfly_pool | slots, requests, joins; handles settle | three tasks, one owned by another, one that is dropped without a wait; two threads |
| onfly_pool_index | **violated**: index in range | three tasks of the user, two threads |
| thread_pool | sleepers, semaphores and the refinement of Channel for the queue; nobody inside after detachment, orders accounted for; the destructor returns, orders run unless they are overtaken again and again | two producers, two workers, three orders whose names are reused, capacities 0 and 1: at capacity 1 one order is stored while others are pushed past it |
| rest_client | response once, tickets owned, waiters rescued; every call ends; refinement of RestCall | two calls, one or two tickets (one: the map is full for the other), an expiry queue of one entry (so that clock-ins wait), two inbound workers (an answer and its duplicate at once) |
| rest_clock_in | **violated**: a clock-in cannot fail | the same with one inbound worker |
| rest_server | handled once, one response, every request answered; promises end | a promise with one retry and one without, epochs of up to two requests, two workers; a cache and a set of unique writes of one entry each, so that the other request's id evicts |
| mailbox | exactly once, no vain wait, a worker is free, at most one late copy; send() returns | four packets, two of them to nobody: enough to fill the map and both workers' hands, so that with a larger share for users both workers wait for ever; two senders, two workers, a waiting place for each; room for two packets, one of them for users; two retransmissions; memories of one id; one copy of each packet under way |

In the mailbox more copies under way than `InFlight` count as lost. With one, a
copy of a packet and the ack of an earlier one can still cross, a copy can come
after its id was forgotten, and a retransmission can leave while its packet is
acknowledged. Larger values were not finished within the time of a run.

The durations of connectivity_normal are the smallest for which the claim holds
with cron runs a period late: with a broken-connection limit or a timeout one
unit shorter TLC shows a false alarm. What the durations of a deployment must
leave room for in general is the hypothesis of the theorem `NoFalseAlarms`. States after a `close()` are not explored in
that run, since the property is about nobody closing.

The bounds keep each kind of participant at the number at which the interesting
meeting happens: two that compete and one that observes, one place fewer than
there are candidates, a batch of more than one epoch, a capacity below the
number of producers. Deadlock is checked for the mutex only; the others may
stop (the clock ends, the program is shut down, everything was sent).

### Fairness

* Mutex: every thread is scheduled and critical sections end.
* Queue: a thread whose semaphore is released runs; some worker keeps popping.
* Daemons and pool: daemon loops run and epochs return. `deregister()` and the
  detachment get strong fairness: the daemon releases its lock between batches,
  and the thread that unlocks a `fair_atomic_flag` with waiters gives way before
  it locks again, so a waiter meets the lock free again and again.
* Cron: time passes, ticker and workers are scheduled, `update()` returns.
* On-the-fly threads: threads are scheduled, task bodies end, and an owner that
  has begun to construct or destroy a handle goes on.
* REST client: a call that has begun is scheduled, so are the workers and the
  cron job, and expiry times pass. Nothing is assumed about requests or answers
  arriving: `CallEnds` has to come from the timeout.
* Retry: a coroutine is resumed and an attempt completes, which is `CallEnds`.
* Mailbox: some thread of the sending side runs whenever one can. That is less
  than a scheduler gives; it is enough because retransmissions are counted.

No invariant depends on any of this. In Connectivity the corresponding assumption
is `CronLag`, a bound, since its properties are about time.

## 4. Findings

1. `onfly_pool_index`: `_register` shadows `tmp_id`; the index of a pool thread is
   an indeterminate value, and tables that are indexed by it abort.
2. `rest_clock_in`: a caller that waited in `clock_in()` updates the entry made for
   it in a second critical section and terminates the process if the update
   fails; an answer that comes in between has erased the entry. The other
   properties of RestClient hold up to such an abort.

Three more disagreements follow from the models without a run of their own:

* the header of connectivity (`connectivity_subsystem.h:21`) promises that the
  remote side closes one timeout after the master's end; a slow answer followed
  by an unanswered ping takes two. The bound that holds, and is proved, is
  `2 * TimeoutDur + 3 * CronLag - 2`;
* `deregister()` (`onfly_worker_controller.h:174`) erases a thread's entry before
  the thread is joined; a task that still runs and looks up its index meets the
  abort at `concurrency_base_onfly.h:142`;
* `request()` (`network_rest_frame.h:4157`) returns an error both for a request
  that `batch_request` refused and for one that was pushed, and perhaps sent, and
  whose wrapper could not be allocated. The caller cannot tell them apart.

A limit of the queue: `pop()` serves a blocked `push()` (`bounded_queue.h:123`)
before the container (`:133`). An order that went into the container, the one whose
push did not block, can therefore wait for ever while producers keep the queue
full, and orders are not run in the order they were accepted. `OrderRuns` excludes
exactly that (`Overtaken`): without it TLC shows two producers who take turns
while the stored order stays. An order that was handed over, or whose push
blocks, is run whatever the others do.

Several conditions on configurations, which the factories do not check, are the
assumptions of Mailbox: the users' share of the packet map must not exceed it;
the rest must exceed what the workers hold together, less one packet each, or
they may all wait for each other (without that assumption TLC shows it); each of
the two `push_wait_queue`s needs a place for every thread that may call, since
`push_back` on a full one terminates the process
(`network_kernel_mailbox_impl1.h:3385`), while with that many it always has one,
which is proved (`PlacesSuffice`); and the cap on retransmissions must be below
256, since a packet's count has 8 bits.

Reading the code for the models showed more that they do not reach:

* a batch response of two or more requests does not wait for its answers
  (`network_rest_frame.h:3085`), and nobody notifies the `wait()` of a retry
  promise (a hazard in `PROJECT.json`);
* `send()` reports success for a packet that the outbound container refused
  (`network_kernel_mailbox_impl1.h:9268` writes to an array nobody reads);
* `network_rest_frame.h:4908` takes the minimum of one limit with itself, so a
  batch may exceed the limits of the container and of the timeout manager, and
  line 5383 makes an error from a current exception that is not there;
* `connectivity_subsystem.h:302`: after 2^32 connections an id is reused;
* `thread_service.h:151`: when the control block of a thread handle cannot be
  allocated, main runs a deleter that waits for main;
* `resource_disposer.h:143`: `dispose()` is noexcept, and a push on a poisoned
  queue throws.

## 5. Proofs

Eight modules, most named after the module they extend, hold theorems that TLAPS
checks for all values of the constants; CyclicMemoryProofs extends two, Mailbox and
RestRetry, whose guarantees rest on the same bounded memories. They are about
`Safety` (`PoolSafety` in ThreadPool, `RetrySafety` in RestRetry, `Spec` in
Connectivity, which states no fairness of its own), the specification without its
fairness. The only assumptions are those the modules name and the runs evaluate;
sets of calls, jobs, packets, tasks, threads need not be finite unless it is
said. Each inductive invariant was checked with TLC before it was proved.

**ConnectivityProofs** (a finite set of slaves, a positive slave count, natural
durations, `CronDur <= CronLag`).

* `TypeCorrect` — by one case per action.
* `Disposal` — `DisposedOnce` and `TopicOwned` are not inductive. `DisposalInv`
  adds who may still erase the topic: nobody before the claim, after it exactly
  one of the cron job (`mUpd = "erase"`) and `close()` (`closing = "erasing"`), and
  nobody after the erasure.
* `Room` — `RoomBounded` is inductive; the step is the cardinality of a finite
  set to which the ping check adds one element.
* `NoticesInTime` — the bound follows from `LeaseInv`: once the master is gone no
  ping is answered "ok" (`GoneInv`); a slave's last run is at most `CronLag` old
  and its ping is waited for less than the timeout (`ClockInv`); and a slave that
  still believes in the master either ran last before the end, or consumed an
  answer to a ping sent before it, or has sent the ping that will fail
  (`NoticeInv`). The clock bound `MaxTime` plays no part.
* `NoFalseAlarms` — `NoFalseAlarm` does not hold for all durations, and the
  theorem says for which it does. Its hypothesis `Tolerant` is the normal case
  (`Reliable`, at least `SlaveCount` slaves) with
  `TimeoutDur > 3 * CronLag - CronDur` and `BrokeDur > 2 * (CronLag - CronDur)`.
  The instance of connectivity_normal satisfies it with nothing to spare, and
  with either duration one unit shorter TLC finds a false alarm. The invariant
  says where each slave is with its pings (`SlaveWell`: seven phases) and how old
  what the master knows of it can be: a slave pings in every second run of its
  job, so its last ping is at most two runs old when update() copies the topic;
  the copy is judged before the master's own run is over (`MasterWell`, which
  relates the copy to the end of the last run, since the time of the copy is
  nowhere recorded). That the room is full in time follows from the phases: a
  slave the master does not know has not run yet, or its first ping is on the
  wire, or the room is full already.

**FairMutexProofs** (any finite set of threads, any spin counts). `Exclusion`;
`Counting`, by the cardinality of the set of threads in the waiting loop;
`Wakeup`; `FenceElision`, whose invariant relates `prev_thr_id` to the last owner
while nobody, and while somebody, is between lock and unlock; and
`Implementation`, which maps the initial state and every step to `Mutex`.

**ThreadPoolProofs** (any producers, workers, orders and capacities). The queue is
proved about in the pool that uses it. `QueueTypes`, `NobodyWaitsInVain`, `Callers`
(an entry of the queue for each blocked call and no other, each semaphore released
once) and `Goods` (an item is in one place, and only a call that was released holds
one) need each other: that a consumer which is handed an item gets it once rests on
its having one entry. For the pool, `Batches` (who is inside a batch is attached,
who waits for an order has none) and `Orders` (what pop() has returned is run by
one worker or is finished) are added. From them: `NoWaitInVain`, `ReleasedOnce`,
`WorkersOutside`, `OrderOwnership`, and `ChannelImplemented`, the refinement of
`Channel` without its fairness.

**DaemonControllerProofs** (any runners of any kinds, any clients, positive batch
and number of kinds). `RunnerOwnership` needs the lists (`Lists`: an id is on the
list of its own kind, once) and the loans (`Lending`) together, and that encoding
an id with its kind can be undone (`Codec`). `EpochsOfLiveWorkers` follows from
`InEpoch`: a runner is inside an epoch only of its own worker, and a worker is
taken from it between batches. `WorkerStays` says more than any run: from the return
of `_register` to the call of `deregister` the runner the handle names has this
worker and no other.

**CronProofs** (any jobs, periods and workers, any positive poison interval).
The invariant adds to `EveryJobOnce` the order of the heap (`HeapOrdered`), that
waiting workers stand in line once and empty-handed (`Waiters`), and that the runs
of a released job are what its counter says (`LateCounted`). `JobOwnership`,
`LateRuns`, and the action property `NoEarlyRun`: update() and pop() look at the
front of the heap alone, and hand out due jobs only, because the heap is ordered.

**OnflyPoolProofs** (any tasks, whoever owns them, any number of threads; what
reading the unassigned variable yields is any set of numbers). `SlotsAndRequests`
proves `NothingLost`. Slots are counted by the cardinality of the tasks that have one;
`Known` says that the requests the broker knows are different and are exactly those
somebody waits for, from which the counts of `RequestOnce` follow.

**RestClientProofs** (any calls and workers, positive capacities). `Shape` (types,
waiting callers in line once, room in the expiry queue) is proved first; it needs what
`internal_update` does to the queue for any way it may rearrange it (`Rearranged`).
`TicketOwnership`; `ObserverOwnership`, whose invariant says who holds the observer of
a call: its ticket, one inbound worker, or the expiry worker; `Implementation`, the
refinement of `RestCall`, from `Requests`: what is on its way was pushed, what is
answered was sent, and what `batch_request` refuses was not pushed; and `RescueInPlace`, from `Rescuers`: until a call ends its
observer is not lost, and in the ticket of a returned handle it is timed.

**CyclicMemoryProofs** — both parts rest on lemmas about CyclicSet: an insert adds
its element, keeps the ids distinct and forgets one at most, the oldest.

*Mailbox* (any packets, finitely many senders and workers, all capacities the
module admits).

* `PassedOnOnce` — what the receiver remembers it has passed on, once, and acks on
  the wire and acks that arrived are for packets that were passed on.
* The others share one invariant, `SenderInv`, because none is inductive alone.
  `OnePlace`: a packet is in `pkt_map` or in the hands of one thread, never in two
  such places; it needs `BatchAssumption`, that every `send()`
  makes the ids of its own packets. `Waiting`: each waiting thread is queued once,
  in the queue of its kind, and still has something to add. `Bounded`: the map and
  a worker's hands hold what they may.
* `NoRoomUnused` (`NobodyWaitsInVain`) — a thread queues only when the map is full for
  it, and whoever makes room serves the queues before the controller is free again.
* `PlacesSuffice` — neither `push_wait_queue` ever holds more than its capacity,
  because a thread is queued once and there are no more threads than places; the
  abort at the `push_back` is not reached.
* `WorkersNeverAllWait` (`SomeWorkerFree`) — new packets enter only while the map
  holds fewer than `UserCap`, and workers only move packets between the map and
  their hands, so that both together never hold more than
  `UserCap + |Workers| * ConsumeCap` (part of `Bounded`). If all
  workers waited, the map would be full and each would still hold a packet: at
  least `MapCap + |Workers|`, which the assumption on the capacities makes
  more (`Overfull`). That assumption is what the code's factory does not check.
* `LateCopies` (`OneLateCopy`) — while its ack is remembered a packet cannot be added
  again, except by whoever was already waiting. `LateOnes`: once it has gone out
  after its ack it is neither in the map nor with anyone who would put it there
  without comparing it with the acknowledged ids.

*RestServer and RestRetry* (any resolvers, promises and retry limits, any positive
capacities), with the invariant `RetryInv`.

* `IdsHandledOnce` (`HandledOnce`) — from `Rights`: the runs of an id and the requests
  that are on their way to the handler with its right to write are together at most
  the number of times the id was forgotten, plus one while it is remembered.
* `RequestsAnsweredOnce` (`AnsweredOnce`) — from `Sorted`: the feeders of an epoch
  hold disjoint requests, and no ticket has two answers.
* `SameResponse` (`OneResponse`) — from `OneVoice`: as long as an id was never
  forgotten, all places that can hold a response about it (cache, epochs, mailbox,
  the promise's result, inserts under way) agree, and none has one while the right
  to write is not given or not used yet. The inserts under way are
  what the checked property does not mention and the induction needs.

What the proofs showed about the models: the mailbox's batches were sequences and the
unique write check a fold over an epoch's requests, about which the provers can say
nothing without an induction over data. Sets, and one request at a time, are both
provable and more general, and so the modules are written that way now.

Only model-checked:

* all liveness properties and the fairness part of the refinements: the prover
  handles neither fairness nor ENABLED. The steps of all three refinements are
  proved (`Implementation` twice, `ChannelImplemented`);
* `IndexInRange` and the fallible clock-in, which are violated (section 4).

## 6. Not modelled

The numeric code (the larger part of the repository), the data loaders, streams
and sockets, and the allocators: see the components in `PROJECT.json` with their
reasons. Within the modelled parts:
failing memory allocation except where a failed thread creation or re-queueing
stands for it; weak memory; the wrap-around of the 32-bit connection id; a
worker that registers workers from within an epoch (which the controller's lock
does not allow); a nested task handle that is dropped without a wait, whose
owner is joined by main while it asks main; batches of several requests in the
REST client, and the Distributed variants of its parts, which are independent
copies; the inbound container of the mailbox, whose failed push loses an
acknowledged packet; what `send()` reports. Most of these are listed as hazards.

## 7. Plan

All invariants that the passing runs check are proved. What would come next:

1. Batches of several requests in the REST client, with the counter of a batch
   response, and feeders of the server that flush in the middle of an epoch.
2. The inbound and outbound containers of the mailbox and `recv()`, composed with
   Mailbox; reassembly of streams with its timeouts.
3. Coroutine subsystem: polling workers, back-off, and the waiters that poison
   leaves behind; abstract specification: every coroutine that ends wakes its
   waiter once. RestRetry would rest on it.
4. CUDA executor and the waiting in `async_x`: composition with ThreadPool, so
   that the orders dropped by poison are seen from their producer; the users of
   the lease composed with Connectivity.
5. The request funnel; `taint_interval_tree` against a set of addresses; one of
   the segment allocators against a set of free blocks.
