-------------------------- MODULE FairMutexProofs --------------------------
(***************************************************************************)
(* Theorems about FairMutex, for every set of threads and all spin bounds. *)
(***************************************************************************)
EXTENDS FairMutex, FiniteSetTheorems, TLAPS

USE DEF Locations, Locking, Holding

-----------------------------------------------------------------------------
(* Type correctness and mutual exclusion.                                  *)

\* The types, but for busy_waiter_sz: that it stays a natural number is proved
\* with the count below.
Types == /\ flag \in BOOLEAN
         /\ yieldId \in Threads \cup {NoThread}
         /\ prevId \in Threads \cup {NoThread}
         /\ busy \in Int
         /\ pc \in [Threads -> Locations]
         /\ spins \in [Threads -> Nat]
         /\ lastOwner \in Threads \cup {NoThread}

\* A new fair_atomic_flag has its types.
LEMMA InitTypes == Init => Types
<1> SUFFICES ASSUME Init PROVE Types
  OBVIOUS
<1>1. flag \in BOOLEAN
  BY DEF Init
<1>2. pc \in [Threads -> Locations] /\ spins \in [Threads -> Nat]
  BY DEF Init
<1>3. yieldId = NoThread /\ prevId = NoThread /\ lastOwner = NoThread /\ busy = 0
  BY DEF Init
<1>4. QED BY <1>1, <1>2, <1>3 DEF Types

\* Every atomic access keeps them.
LEMMA TypesStep == Types /\ [Next]_vars => Types'
<1> SUFFICES ASSUME Types, [Next]_vars PROVE Types'
  OBVIOUS
<1> USE DEF Types, Goto
<1>1. CASE UNCHANGED vars
  BY <1>1 DEF vars
<1>2. ASSUME NEW t \in Threads, Lock(t) PROVE Types'
  BY <1>2 DEF Lock
<1>3. ASSUME NEW t \in Threads, LockStep(t) PROVE Types'
  <2>0. CASE YieldAgain(t)
    BY <2>0 DEF YieldAgain
  <2>1. CASE YieldDone(t) \/ LoadWaiters(t)
    BY <2>1 DEF YieldDone, LoadWaiters
  <2>2. CASE TryOnce(t)
    BY <2>2 DEF TryOnce
  <2>6. CASE SpinTake(t)
    BY <2>6 DEF SpinTake
  <2>7. CASE SpinAgain(t)
    BY <2>7 DEF SpinAgain
  <2>8. CASE SpinOut(t)
    BY <2>8 DEF SpinOut
  <2>3. CASE AddWaiter(t) \/ WaitCheck(t) \/ SubWaiter(t)
    BY <2>3 DEF AddWaiter, WaitCheck, SubWaiter
  <2>4. CASE ClearYield(t) \/ ExchangePrev(t)
    BY <2>4 DEF ClearYield, ExchangePrev
  <2>9. QED BY <1>3, <2>0, <2>1, <2>2, <2>3, <2>4, <2>6, <2>7, <2>8 DEF LockStep
<1>4. ASSUME NEW t \in Threads, UnlockStep(t) PROVE Types'
  <2>1. CASE Unlock(t) \/ UnlockLoad(t) \/ SetYield(t) \/ ClearFlag(t)
    BY <2>1 DEF Unlock, UnlockLoad, SetYield, ClearFlag
  <2>2. CASE NotifyOne(t)
    BY <2>2 DEF NotifyOne, Asleep
  <2>3. QED BY <1>4, <2>1, <2>2 DEF UnlockStep
<1>5. QED BY <1>1, <1>2, <1>3, <1>4 DEF Next

\* How one step moves the threads between the parts of lock() and unlock().
LEMMA Moves ==
  ASSUME Types, NEW t \in Threads, NEW from \in Locations, NEW to \in Locations,
         Goto(t, from, to)
  PROVE  /\ pc[t] = from /\ pc'[t] = to
         /\ \A u \in Threads : u # t => pc'[u] = pc[u]
BY DEF Types, Goto

\* test_and_set is the only way in, and only while the flag is clear.
LEMMA ExclusionStep == Types /\ MutualExclusion /\ [Next]_vars => MutualExclusion'
<1> SUFFICES ASSUME Types, MutualExclusion, [Next]_vars PROVE MutualExclusion'
  OBVIOUS
<1> USE DEF MutualExclusion, Holders
<1>0. flag \in BOOLEAN /\ pc \in [Threads -> Locations]
  BY DEF Types
<1>1. ASSUME UNCHANGED flag, \A u \in Threads : pc'[u] \in Holding <=> pc[u] \in Holding
      PROVE  MutualExclusion'
  BY <1>1
<1>2. CASE UNCHANGED vars
  BY <1>1, <1>2 DEF vars
<1>3. ASSUME NEW t \in Threads, Lock(t) PROVE MutualExclusion'
  BY <1>0, <1>1, <1>3 DEF Lock, Goto
<1>4. ASSUME NEW t \in Threads, LockStep(t) PROVE MutualExclusion'
  <2>1. CASE YieldAgain(t) \/ YieldDone(t) \/ LoadWaiters(t)
    BY <1>0, <1>1, <2>1 DEF YieldAgain, YieldDone, LoadWaiters, Goto
  <2>2. CASE TryOnce(t)
    BY <1>0, <2>2 DEF TryOnce, Goto
  <2>3. CASE SpinTake(t)
    BY <1>0, <2>3 DEF SpinTake, Goto
  <2>4. CASE SpinAgain(t) \/ SpinOut(t)
    BY <1>0, <1>1, <2>4 DEF SpinAgain, SpinOut, Goto
  <2>5. CASE AddWaiter(t) \/ WaitCheck(t) \/ SubWaiter(t)
    BY <1>0, <1>1, <2>5 DEF AddWaiter, WaitCheck, SubWaiter, Goto
  <2>6. CASE ClearYield(t) \/ ExchangePrev(t)
    BY <1>0, <1>1, <2>6 DEF ClearYield, ExchangePrev, Goto
  <2>7. QED BY <1>4, <2>1, <2>2, <2>3, <2>4, <2>5, <2>6 DEF LockStep
<1>5. ASSUME NEW t \in Threads, UnlockStep(t) PROVE MutualExclusion'
  <2>1. CASE Unlock(t) \/ UnlockLoad(t) \/ SetYield(t)
    BY <1>0, <1>1, <2>1 DEF Unlock, UnlockLoad, SetYield, Goto
  <2>2. CASE ClearFlag(t)
    BY <1>0, <2>2 DEF ClearFlag, Goto
  <2>3. CASE NotifyOne(t)
    BY <1>0, <1>1, <2>3 DEF NotifyOne, Asleep
  <2>4. QED BY <1>5, <2>1, <2>2, <2>3 DEF UnlockStep
<1>6. QED BY <1>2, <1>3, <1>4, <1>5 DEF Next

\* Two xlock_guards of one fair_atomic_flag never overlap.
THEOREM Exclusion == Safety => []MutualExclusion
<1>1. Init => Types
  BY InitTypes
<1>2. Init => MutualExclusion
  <2>1. Init => Holders = {} /\ flag = FALSE
    BY DEF Init, Holders
  <2>2. QED BY <2>1 DEF MutualExclusion
<1>3. QED BY <1>1, <1>2, TypesStep, ExclusionStep, PTL DEF Safety

-----------------------------------------------------------------------------
(* busy_waiter_sz.                                                         *)

\* fetch_add and fetch_sub bracket the time a thread spends in wait().
LEMMA CountStep == Types /\ WaiterCount /\ [Next]_vars => WaiterCount'
<1> SUFFICES ASSUME Types, WaiterCount, [Next]_vars PROVE WaiterCount'
  OBVIOUS
<1>0. pc \in [Threads -> Locations]
  BY DEF Types
<1>1. IsFiniteSet(Waiters) /\ Cardinality(Waiters) \in Nat
  BY ThreadsAssumption, FS_Subset, FS_CardinalityType DEF Waiters
<1>2. ASSUME UNCHANGED busy, Waiters' = Waiters PROVE WaiterCount'
  BY <1>2 DEF WaiterCount
<1>3. CASE UNCHANGED vars
  BY <1>2, <1>3 DEF vars, Waiters
<1>4. ASSUME NEW t \in Threads, Lock(t) PROVE WaiterCount'
  BY <1>0, <1>2, <1>4 DEF Lock, Goto, Waiters
<1>5. ASSUME NEW t \in Threads, LockStep(t) PROVE WaiterCount'
  <2>1. CASE YieldAgain(t) \/ YieldDone(t) \/ LoadWaiters(t)
    BY <1>0, <1>2, <2>1 DEF YieldAgain, YieldDone, LoadWaiters, Goto, Waiters
  <2>2. CASE TryOnce(t) \/ SpinTake(t)
    BY <1>0, <1>2, <2>2 DEF TryOnce, SpinTake, Goto, Waiters
  <2>3. CASE SpinAgain(t) \/ SpinOut(t)
    BY <1>0, <1>2, <2>3 DEF SpinAgain, SpinOut, Goto, Waiters
  <2>4. CASE AddWaiter(t)
    <3>1. Waiters' = Waiters \cup {t} /\ t \notin Waiters
      BY <1>0, <2>4 DEF AddWaiter, Goto, Waiters
    <3>2. Cardinality(Waiters') = Cardinality(Waiters) + 1
      BY <1>1, <3>1, FS_AddElement
    <3>3. QED BY <2>4, <3>2 DEF AddWaiter, WaiterCount
  <2>5. CASE WaitCheck(t)
    BY <1>0, <1>2, <2>5 DEF WaitCheck, Goto, Waiters
  <2>6. CASE SubWaiter(t)
    <3>1. Waiters' = Waiters \ {t} /\ t \in Waiters
      BY <1>0, <2>6 DEF SubWaiter, Goto, Waiters
    <3>2. Cardinality(Waiters') = Cardinality(Waiters) - 1
      BY <1>1, <3>1, FS_RemoveElement
    <3>3. QED BY <2>6, <3>2 DEF SubWaiter, WaiterCount
  <2>7. CASE ClearYield(t) \/ ExchangePrev(t)
    BY <1>0, <1>2, <2>7 DEF ClearYield, ExchangePrev, Goto, Waiters
  <2>8. QED BY <1>5, <2>1, <2>2, <2>3, <2>4, <2>5, <2>6, <2>7 DEF LockStep
<1>6. ASSUME NEW t \in Threads, UnlockStep(t) PROVE WaiterCount'
  <2>1. CASE Unlock(t) \/ UnlockLoad(t) \/ SetYield(t) \/ ClearFlag(t)
    BY <1>0, <1>2, <2>1 DEF Unlock, UnlockLoad, SetYield, ClearFlag, Goto, Waiters
  <2>2. CASE NotifyOne(t)
    BY <1>0, <1>2, <2>2 DEF NotifyOne, Asleep, Waiters
  <2>3. QED BY <1>6, <2>1, <2>2 DEF UnlockStep
<1>7. QED BY <1>3, <1>4, <1>5, <1>6 DEF Next

\* busy_waiter_sz is exactly the number of threads in wait(), so the size_t
\* never wraps below zero, and the variables always have their types.
THEOREM Counting == Safety => [](WaiterCount /\ TypeOK)
<1>1. Init => WaiterCount
  <2>1. Init => Waiters = {} /\ busy = 0
    BY DEF Init, Waiters
  <2>2. QED BY <2>1, FS_EmptySet DEF WaiterCount
<1>2. Types /\ WaiterCount => TypeOK
  <2>1. Cardinality(Waiters) \in Nat
    BY ThreadsAssumption, FS_Subset, FS_CardinalityType DEF Waiters
  <2>2. QED BY <2>1 DEF Types, TypeOK, WaiterCount
<1>3. QED BY <1>1, <1>2, InitTypes, TypesStep, CountStep, PTL DEF Safety

-----------------------------------------------------------------------------
(* wait() and notify_one().                                                *)

\* The thread that clears the flag notifies; the one it wakes looks again.
LEMMA WakeupStep == Types /\ NoLostWakeup /\ [Next]_vars => NoLostWakeup'
<1> SUFFICES ASSUME Types, NoLostWakeup, [Next]_vars PROVE NoLostWakeup'
  OBVIOUS
<1>0. flag \in BOOLEAN /\ pc \in [Threads -> Locations]
  BY DEF Types
<1>1. ASSUME NEW t \in Threads, pc'[t] \notin {"idle", "asleep"} PROVE NoLostWakeup'
  BY <1>1 DEF NoLostWakeup
<1>2. CASE UNCHANGED vars
  BY <1>2 DEF vars, NoLostWakeup, Asleep
<1>3. ASSUME NEW t \in Threads, Lock(t) PROVE NoLostWakeup'
  BY <1>0, <1>1, <1>3 DEF Lock, Goto
<1>4. ASSUME NEW t \in Threads, LockStep(t) PROVE NoLostWakeup'
  <2>1. CASE WaitCheck(t)
    <3>1. CASE ~flag
      BY <1>0, <1>1, <2>1, <3>1 DEF WaitCheck, Goto
    <3>2. CASE flag
      BY <2>1, <3>2 DEF WaitCheck, NoLostWakeup
    <3>3. QED BY <3>1, <3>2
  <2>2. CASE YieldAgain(t) \/ YieldDone(t) \/ LoadWaiters(t) \/ TryOnce(t)
    BY <1>0, <1>1, <2>2 DEF YieldAgain, YieldDone, LoadWaiters, TryOnce, Goto
  <2>3. CASE SpinTake(t) \/ SpinAgain(t) \/ SpinOut(t) \/ AddWaiter(t)
    BY <1>0, <1>1, <2>3 DEF SpinTake, SpinAgain, SpinOut, AddWaiter, Goto
  <2>4. CASE SubWaiter(t) \/ ClearYield(t) \/ ExchangePrev(t)
    BY <1>0, <1>1, <2>4 DEF SubWaiter, ClearYield, ExchangePrev, Goto
  <2>5. QED BY <1>4, <2>1, <2>2, <2>3, <2>4 DEF LockStep
<1>5. ASSUME NEW t \in Threads, UnlockStep(t) PROVE NoLostWakeup'
  <2>1. CASE Unlock(t) \/ UnlockLoad(t) \/ SetYield(t) \/ ClearFlag(t)
    BY <1>0, <1>1, <2>1 DEF Unlock, UnlockLoad, SetYield, ClearFlag, Goto
  <2>2. CASE NotifyOne(t)
    <3>1. CASE Asleep = {}
      <4>1. Asleep' = {}
        BY <1>0, <2>2, <3>1 DEF NotifyOne, Asleep
      <4>2. QED BY <4>1 DEF NoLostWakeup
    <3>2. CASE Asleep # {}
      <4>1. PICK u \in Asleep : pc' = [pc EXCEPT ![t] = "idle", ![u] = "wait"]
        BY <2>2, <3>2 DEF NotifyOne
      <4>2. u \in Threads /\ pc'[u] = "wait"
        BY <1>0, <4>1 DEF Asleep
      <4>3. QED BY <1>1, <4>2
    <3>3. QED BY <3>1, <3>2
  <2>3. QED BY <1>5, <2>1, <2>2 DEF UnlockStep
<1>6. QED BY <1>2, <1>3, <1>4, <1>5 DEF Next

\* No wakeup is lost: a free lock is never left to threads that all sleep.
THEOREM Wakeup == Safety => []NoLostWakeup
<1>1. Init => NoLostWakeup
  BY DEF Init, NoLostWakeup, Asleep
<1>2. QED BY <1>1, InitTypes, TypesStep, WakeupStep, PTL DEF Safety

-----------------------------------------------------------------------------
(* prev_thr_id and the elided fence.                                       *)

\* The owner is recorded once it has passed the exchange; before that, the
\* record is the thread that released the lock last.
Recorded == {"cs", "unload", "setyield", "clear"}
FenceInv ==
  /\ \A t \in Threads : pc[t] \in Recorded => prevId = t
  /\ (\A t \in Threads : pc[t] \notin Recorded) => prevId = lastOwner

\* prev_thr_id is only written by the owner, so it follows the owners.
LEMMA FenceStep ==
  Types /\ MutualExclusion /\ FenceInv /\ [Next]_vars => FenceInv'
<1> SUFFICES ASSUME Types, MutualExclusion, FenceInv, [Next]_vars PROVE FenceInv'
  OBVIOUS
<1>0. pc \in [Threads -> Locations]
  BY DEF Types
<1>1. ASSUME UNCHANGED <<prevId, lastOwner>>,
             \A u \in Threads : pc'[u] \in Recorded <=> pc[u] \in Recorded
      PROVE  FenceInv'
  BY <1>1 DEF FenceInv
<1> USE DEF Recorded
<1>2. CASE UNCHANGED vars
  BY <1>1, <1>2 DEF vars
<1>3. ASSUME NEW t \in Threads, Lock(t) PROVE FenceInv'
  BY <1>0, <1>1, <1>3 DEF Lock, Goto
<1>4. ASSUME NEW t \in Threads, LockStep(t) PROVE FenceInv'
  <2>1. CASE YieldAgain(t) \/ YieldDone(t) \/ LoadWaiters(t) \/ TryOnce(t)
    BY <1>0, <1>1, <2>1 DEF YieldAgain, YieldDone, LoadWaiters, TryOnce, Goto
  <2>2. CASE SpinTake(t) \/ SpinAgain(t) \/ SpinOut(t) \/ AddWaiter(t)
    BY <1>0, <1>1, <2>2 DEF SpinTake, SpinAgain, SpinOut, AddWaiter, Goto
  <2>3. CASE WaitCheck(t) \/ SubWaiter(t) \/ ClearYield(t)
    BY <1>0, <1>1, <2>3 DEF WaitCheck, SubWaiter, ClearYield, Goto
  <2>4. CASE ExchangePrev(t)
    <3>1. /\ pc[t] = "prev" /\ pc'[t] = "cs" /\ prevId' = t
          /\ \A u \in Threads : u # t => pc'[u] = pc[u]
      BY <1>0, <2>4 DEF ExchangePrev, Goto
    <3>2. \A u \in Threads : u # t => pc[u] \notin Holding
      BY <3>1 DEF MutualExclusion, Holders
    <3>3. QED BY <3>1, <3>2 DEF FenceInv
  <2>5. QED BY <1>4, <2>1, <2>2, <2>3, <2>4 DEF LockStep
<1>5. ASSUME NEW t \in Threads, UnlockStep(t) PROVE FenceInv'
  <2>1. CASE Unlock(t) \/ UnlockLoad(t) \/ SetYield(t)
    BY <1>0, <1>1, <2>1 DEF Unlock, UnlockLoad, SetYield, Goto
  <2>2. CASE ClearFlag(t)
    <3>1. /\ pc[t] = "clear" /\ pc'[t] = "notify" /\ lastOwner' = t /\ prevId' = prevId
          /\ \A u \in Threads : u # t => pc'[u] = pc[u]
      BY <1>0, <2>2 DEF ClearFlag, Goto
    <3>2. \A u \in Threads : u # t => pc[u] \notin Holding
      BY <3>1 DEF MutualExclusion, Holders
    <3>3. prevId = t
      BY <3>1 DEF FenceInv
    <3>4. QED BY <3>1, <3>2, <3>3 DEF FenceInv
  <2>3. CASE NotifyOne(t)
    BY <1>0, <1>1, <2>3 DEF NotifyOne, Asleep
  <2>4. QED BY <1>5, <2>1, <2>2, <2>3 DEF UnlockStep
<1>6. QED BY <1>2, <1>3, <1>4, <1>5 DEF Next

\* Skipping the acquire fence is sound: the thread that skips it was the last
\* owner, so no other thread has written under the lock since.
THEOREM FenceElision == Safety => []FenceElisionSound
<1>1. Init => FenceInv
  BY DEF Init, FenceInv, Recorded
<1>2. MutualExclusion /\ FenceInv => FenceElisionSound
  BY DEF MutualExclusion, Holders, FenceInv, FenceElisionSound, Recorded
<1>3. QED BY <1>1, <1>2, InitTypes, TypesStep, Exclusion, FenceStep, PTL DEF Safety

-----------------------------------------------------------------------------
(* The refinement of Mutex.                                                *)

Wanting == {t \in Threads : pc[t] \in Locking}

\* Every step requests, takes or releases the lock, or changes nothing a user
\* of the lock can see.
LEMMA MutexStep ==
  ASSUME Types, MutualExclusion, [Next]_vars
  PROVE  [M!Next]_(M!vars)
<1>0. flag \in BOOLEAN /\ pc \in [Threads -> Locations]
  BY DEF Types
<1>1. ASSUME \A u \in Threads : /\ pc'[u] \in Holding <=> pc[u] \in Holding
                                /\ pc'[u] \in Locking <=> pc[u] \in Locking
      PROVE  UNCHANGED M!vars
  BY <1>1 DEF M!vars, Holders
<1>2. CASE UNCHANGED vars
  BY <1>1, <1>2 DEF vars
<1>3. ASSUME NEW t \in Threads, Lock(t) PROVE M!Next
  <2>1. pc[t] = "idle" /\ pc' = [pc EXCEPT ![t] = "yield"]
    BY <1>3 DEF Lock, Goto
  <2>2. /\ t \notin Wanting /\ t \notin Holders
        /\ Wanting' = Wanting \cup {t} /\ Holders' = Holders
    BY <1>0, <2>1 DEF Wanting, Holders
  <2>3. M!Request(t)
    BY <2>2 DEF M!Request, Wanting
  <2>4. QED BY <2>3 DEF M!Next
<1>4. ASSUME NEW t \in Threads, pc[t] \in Locking, pc'[t] = "unyield", ~flag,
             pc' = [pc EXCEPT ![t] = "unyield"]
      PROVE  M!Next
  <2>1. /\ t \in Wanting /\ Wanting' = Wanting \ {t} /\ Holders' = Holders \cup {t}
    BY <1>0, <1>4 DEF Wanting, Holders
  <2>2. Holders = {} /\ Holders' = {t}
    BY <1>4, <2>1 DEF MutualExclusion
  <2>3. M!Acquire(t)
    BY <2>1, <2>2 DEF M!Acquire, Wanting
  <2>4. QED BY <2>3 DEF M!Next
<1>5. ASSUME NEW t \in Threads, LockStep(t) PROVE M!Next \/ UNCHANGED M!vars
  <2>1. CASE YieldAgain(t) \/ YieldDone(t) \/ LoadWaiters(t)
    BY <1>0, <1>1, <2>1 DEF YieldAgain, YieldDone, LoadWaiters, Goto
  <2>2. CASE TryOnce(t)
    <3>1. CASE flag
      BY <1>0, <1>1, <2>2, <3>1 DEF TryOnce, Goto
    <3>2. CASE ~flag
      BY <1>0, <1>4, <2>2, <3>2 DEF TryOnce, Goto
    <3>3. QED BY <3>1, <3>2
  <2>3. CASE SpinTake(t)
    BY <1>0, <1>4, <2>3 DEF SpinTake, Goto
  <2>4. CASE SpinAgain(t) \/ SpinOut(t) \/ AddWaiter(t)
    BY <1>0, <1>1, <2>4 DEF SpinAgain, SpinOut, AddWaiter, Goto
  <2>5. CASE WaitCheck(t) \/ SubWaiter(t)
    BY <1>0, <1>1, <2>5 DEF WaitCheck, SubWaiter, Goto
  <2>6. CASE ClearYield(t) \/ ExchangePrev(t)
    BY <1>0, <1>1, <2>6 DEF ClearYield, ExchangePrev, Goto
  <2>7. QED BY <1>5, <2>1, <2>2, <2>3, <2>4, <2>5, <2>6 DEF LockStep
<1>6. ASSUME NEW t \in Threads, UnlockStep(t) PROVE M!Next \/ UNCHANGED M!vars
  <2>1. CASE Unlock(t) \/ UnlockLoad(t) \/ SetYield(t)
    BY <1>0, <1>1, <2>1 DEF Unlock, UnlockLoad, SetYield, Goto
  <2>2. CASE ClearFlag(t)
    <3>1. pc[t] = "clear" /\ pc' = [pc EXCEPT ![t] = "notify"]
      BY <2>2 DEF ClearFlag, Goto
    <3>2. t \in Holders /\ Holders' = Holders \ {t} /\ Wanting' = Wanting
      BY <1>0, <3>1 DEF Wanting, Holders
    <3>3. M!Release(t)
      BY <3>2 DEF M!Release, Wanting
    <3>4. QED BY <3>3 DEF M!Next
  <2>3. CASE NotifyOne(t)
    BY <1>0, <1>1, <2>3 DEF NotifyOne, Asleep
  <2>4. QED BY <1>6, <2>1, <2>2, <2>3 DEF UnlockStep
<1>7. QED BY <1>2, <1>3, <1>5, <1>6 DEF Next

\* fair_atomic_flag implements the abstract lock (its safety part).
THEOREM Implementation == Safety => M!Safety
<1>1. Init => M!Init
  BY DEF Init, M!Init, Holders
<1>2. QED BY <1>1, InitTypes, TypesStep, Exclusion, MutexStep, PTL DEF Safety, M!Safety
=============================================================================
