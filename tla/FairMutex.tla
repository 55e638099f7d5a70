----------------------------- MODULE FairMutex -----------------------------
(***************************************************************************)
(* fair_atomic_flag of mutex_extension/fair_mutex.h: the lock behind every *)
(* xlock_guard of the program.  One action per access to shared memory, so *)
(* that the atomics of two threads interleave as they may in the code.     *)
(*                                                                         *)
(* atomic_flag.wait(true) and notify_one() have their C++20 meaning: wait  *)
(* returns when it has seen the flag clear, blocks otherwise, and          *)
(* notify_one unblocks one blocked thread, which looks at the flag again.  *)
(* The relaxed atomics are taken as sequentially consistent.               *)
(***************************************************************************)
EXTENDS Integers, FiniteSets

CONSTANTS
  Threads,
  YieldSpins,  \* EXPBACKOFF_FAIR_AF_YIELD_LOCK_SPIN_SIZE
  LockSpins,   \* EXPBACKOFF_MUTEX_LOCK_SPIN_SZ
  NoThread     \* NULL_THREAD_ID

ASSUME ThreadsAssumption == IsFiniteSet(Threads) /\ NoThread \notin Threads
ASSUME SpinAssumption    == YieldSpins \in Nat /\ LockSpins \in Nat

VARIABLES
  flag,      \* fair_atomic_flag::atomic_flag
  yieldId,   \* fair_atomic_flag::yield_thr_id
  prevId,    \* fair_atomic_flag::prev_thr_id
  busy,      \* fair_atomic_flag::busy_waiter_sz
  pc,        \* where each thread is in lock() or unlock()
  spins,     \* the loop counter of eventloop_expbackoff_spin
  lastOwner  \* history: the thread that released the lock last

vars == <<flag, yieldId, prevId, busy, pc, spins, lastOwner>>

Locking   == {"yield", "load", "try", "spin", "add", "wait", "asleep", "sub"}
Holding   == {"unyield", "prev", "cs", "unload", "setyield", "clear"}
Locations == {"idle", "notify"} \cup Locking \cup Holding

Init ==
  /\ flag = FALSE
  /\ yieldId = NoThread
  /\ prevId = NoThread
  /\ busy = 0
  /\ pc = [t \in Threads |-> "idle"]
  /\ spins = [t \in Threads |-> 0]
  /\ lastOwner = NoThread

Goto(t, from, to) == pc[t] = from /\ pc' = [pc EXCEPT ![t] = to]

-----------------------------------------------------------------------------
(* fair_atomic_flag_memsafe_lock.                                          *)

Lock(t) ==
  /\ Goto(t, "idle", "yield")
  /\ spins' = [spins EXCEPT ![t] = 0]
  /\ UNCHANGED <<flag, yieldId, prevId, busy, lastOwner>>

\* yield_job: the thread that gave way lets others go first for a while.
YieldAgain(t) ==
  /\ pc[t] = "yield"
  /\ yieldId = t
  /\ spins[t] < YieldSpins
  /\ spins' = [spins EXCEPT ![t] = @ + 1]
  /\ UNCHANGED <<flag, yieldId, prevId, busy, pc, lastOwner>>

YieldDone(t) ==
  /\ Goto(t, "yield", "load")
  /\ yieldId # t \/ spins[t] = YieldSpins
  /\ UNCHANGED <<flag, yieldId, prevId, busy, spins, lastOwner>>

LoadWaiters(t) ==
  /\ Goto(t, "load", IF busy = 0 THEN "try" ELSE "add")
  /\ UNCHANGED <<flag, yieldId, prevId, busy, spins, lastOwner>>

\* Mutant of TryOnce: the flag is read and set in two steps.
TryOnceUnset(t) ==
  /\ Goto(t, "try", IF flag THEN "spin" ELSE "unyield")
  /\ spins' = [spins EXCEPT ![t] = 0]
  /\ UNCHANGED <<flag, yieldId, prevId, busy, lastOwner>>

\* job(): test_and_set, first once and then in the spin loop.
TryOnce(t) ==
  /\ Goto(t, "try", IF flag THEN "spin" ELSE "unyield")
  /\ flag' = TRUE
  /\ spins' = [spins EXCEPT ![t] = 0]
  /\ UNCHANGED <<yieldId, prevId, busy, lastOwner>>

SpinTake(t) ==
  /\ Goto(t, "spin", "unyield")
  /\ spins[t] < LockSpins
  /\ ~flag
  /\ flag' = TRUE
  /\ UNCHANGED <<yieldId, prevId, busy, spins, lastOwner>>

SpinAgain(t) ==
  /\ pc[t] = "spin"
  /\ spins[t] < LockSpins
  /\ flag
  /\ spins' = [spins EXCEPT ![t] = @ + 1]
  /\ UNCHANGED <<flag, yieldId, prevId, busy, pc, lastOwner>>

SpinOut(t) ==
  /\ Goto(t, "spin", "add")
  /\ spins[t] = LockSpins
  /\ UNCHANGED <<flag, yieldId, prevId, busy, spins, lastOwner>>

AddWaiter(t) ==
  /\ Goto(t, "add", "wait")
  /\ busy' = busy + 1
  /\ UNCHANGED <<flag, yieldId, prevId, spins, lastOwner>>

\* Mutant of WaitCheck: a thread blocks without looking at the flag.
WaitCheckBlind(t) ==
  /\ Goto(t, "wait", "asleep")
  /\ UNCHANGED <<flag, yieldId, prevId, busy, spins, lastOwner>>

\* atomic_flag.wait(true): compare and block are one step.
WaitCheck(t) ==
  /\ Goto(t, "wait", IF flag THEN "asleep" ELSE "sub")
  /\ UNCHANGED <<flag, yieldId, prevId, busy, spins, lastOwner>>

SubWaiter(t) ==
  /\ Goto(t, "sub", "spin")
  /\ busy' = busy - 1
  /\ spins' = [spins EXCEPT ![t] = 0]
  /\ UNCHANGED <<flag, yieldId, prevId, lastOwner>>

ClearYield(t) ==
  /\ Goto(t, "unyield", "prev")
  /\ yieldId' = NoThread
  /\ UNCHANGED <<flag, prevId, busy, spins, lastOwner>>

\* Mutant of ExchangePrev: only the first owner is recorded.
ExchangePrevOnce(t) ==
  /\ Goto(t, "prev", "cs")
  /\ prevId' = IF prevId = NoThread THEN t ELSE prevId
  /\ UNCHANGED <<flag, yieldId, busy, spins, lastOwner>>

\* prev_thr_id.exchange: a thread that finds itself skips the acquire fence.
ExchangePrev(t) ==
  /\ Goto(t, "prev", "cs")
  /\ prevId' = t
  /\ UNCHANGED <<flag, yieldId, busy, spins, lastOwner>>

-----------------------------------------------------------------------------
(* fair_atomic_flag_memsafe_unlock.                                        *)

Unlock(t) ==
  /\ Goto(t, "cs", "unload")
  /\ UNCHANGED <<flag, yieldId, prevId, busy, spins, lastOwner>>

UnlockLoad(t) ==
  /\ Goto(t, "unload", IF busy > 0 THEN "setyield" ELSE "clear")
  /\ UNCHANGED <<flag, yieldId, prevId, busy, spins, lastOwner>>

SetYield(t) ==
  /\ Goto(t, "setyield", "clear")
  /\ yieldId' = t
  /\ UNCHANGED <<flag, prevId, busy, spins, lastOwner>>

\* Mutant of ClearFlag: notify_one is skipped when unlock() counted no waiter.
ClearFlagQuietly(t) ==
  /\ Goto(t, "clear", IF yieldId = t THEN "notify" ELSE "idle")
  /\ flag' = FALSE
  /\ lastOwner' = t
  /\ UNCHANGED <<yieldId, prevId, busy, spins>>

ClearFlag(t) ==
  /\ Goto(t, "clear", "notify")
  /\ flag' = FALSE
  /\ lastOwner' = t
  /\ UNCHANGED <<yieldId, prevId, busy, spins>>

Asleep == {u \in Threads : pc[u] = "asleep"}

NotifyOne(t) ==
  /\ pc[t] = "notify"
  /\ IF Asleep = {}
       THEN pc' = [pc EXCEPT ![t] = "idle"]
       ELSE \E u \in Asleep : pc' = [pc EXCEPT ![t] = "idle", ![u] = "wait"]
  /\ UNCHANGED <<flag, yieldId, prevId, busy, spins, lastOwner>>

-----------------------------------------------------------------------------
LockStep(t) == \/ YieldAgain(t) \/ YieldDone(t) \/ LoadWaiters(t) \/ TryOnce(t)
               \/ SpinTake(t) \/ SpinAgain(t) \/ SpinOut(t) \/ AddWaiter(t)
               \/ WaitCheck(t) \/ SubWaiter(t) \/ ClearYield(t)
               \/ ExchangePrev(t)

UnlockStep(t) == Unlock(t) \/ UnlockLoad(t) \/ SetYield(t) \/ ClearFlag(t)
                 \/ NotifyOne(t)

Next == \E t \in Threads : Lock(t) \/ LockStep(t) \/ UnlockStep(t)

Safety == Init /\ [][Next]_vars

\* Every thread is scheduled, and every critical section ends.
Spec == Safety /\ \A t \in Threads : WF_vars(LockStep(t) \/ UnlockStep(t))

-----------------------------------------------------------------------------
(* Properties.                                                             *)

TypeOK ==
  /\ flag \in BOOLEAN
  /\ yieldId \in Threads \cup {NoThread}
  /\ prevId \in Threads \cup {NoThread}
  /\ busy \in Nat
  /\ pc \in [Threads -> Locations]
  /\ spins \in [Threads -> Nat]
  /\ lastOwner \in Threads \cup {NoThread}

Holders == {t \in Threads : pc[t] \in Holding}

\* The flag is set exactly while some thread is between its successful
\* test_and_set and its clear, and never two threads are.
MutualExclusion ==
  /\ flag <=> Holders # {}
  /\ \A t, u \in Holders : t = u

Waiters == {t \in Threads : pc[t] \in {"wait", "asleep", "sub"}}

\* busy_waiter_sz counts the threads in or around wait(): it never underflows
\* and is 0 again when nobody waits, or unlock() would yield for nobody.
WaiterCount == busy = Cardinality(Waiters)

\* While the lock is free and a thread is blocked in wait(), another thread is
\* on its way to take the lock or to wake the blocked one up.
NoLostWakeup ==
  ~flag /\ Asleep # {} => \E t \in Threads : pc[t] \notin {"idle", "asleep"}

\* A thread skips the acquire fence only when it released the lock itself last:
\* nobody else's writes can be missing from what it sees.
FenceElisionSound ==
  \A t \in Threads : pc[t] = "prev" /\ prevId = t => lastOwner = t

\* fair_atomic_flag implements the lock its users rely on, and a wanted free
\* lock does not stay free: the wait and notify calls cannot block everyone.
M == INSTANCE Mutex WITH
       waiting <- {t \in Threads : pc[t] \in Locking}, holders <- Holders
RefinesMutex == M!Spec
=============================================================================
