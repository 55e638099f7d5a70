-------------------------- MODULE DaemonController --------------------------
(***************************************************************************)
(* concurrency_base/worker_controller.h: the daemon threads of the program *)
(* (StdDaemonRunner, StdRaiiDaemonRunner) and the DaemonController that    *)
(* lends them to workers.                                                  *)
(*                                                                         *)
(* _register and deregister keep the controller's lock while they wait for *)
(* the runner's lock, which the runner keeps for a whole batch of epochs.  *)
(* A lock is modelled by who holds it; FairMutex says why that is right.   *)
(***************************************************************************)
EXTENDS Integers, Sequences, FiniteSets

CONSTANTS
  RunnerKind,  \* the kind of each configured runner, indexed by its id + 1
  KindSize,    \* 2 ^ (sizeof(daemon_kind_t) * CHAR_BIT)
  Clients,     \* the holders of a daemon handle; each brings one worker
  ClientKind,  \* the kind each client asks for
  LoopChk,     \* loopchk_sz
  Nobody       \* nullptr

ASSUME KindSizeAssumption == KindSize \in Nat \ {0}
ASSUME KindAssumption ==
  /\ RunnerKind \in Seq(0 .. KindSize - 1)
  /\ ClientKind \in [Clients -> 0 .. KindSize - 1]
ASSUME LoopAssumption   == LoopChk \in Nat \ {0}
ASSUME NobodyAssumption == Nobody \notin Clients

Runners == 0 .. Len(RunnerKind) - 1
Kinds   == 0 .. KindSize - 1

VARIABLES
  freeIds,  \* daemon_id_map
  ctl,      \* who holds DaemonController::mtx
  call,     \* where each client is in _register or deregister
  id,       \* the id each client's call works on
  handle,   \* the encoded id each client owns
  worker,   \* StdDaemonRunner::worker
  loop,     \* where each runner thread is in infloop()
  epochs,   \* epochs left in the runner's batch
  running,  \* the worker whose run_one_epoch() the runner is in
  pill,     \* StdDaemonRunner::poison_pill
  aborted   \* the runners whose destructor has called signal_abort()

client == <<ctl, call, id, handle, freeIds>>
runner == <<loop, epochs, running, pill, aborted>>
vars   == <<client, worker, runner>>

\* The constructor appends the ids to the lists of their kinds in ascending order.
Ascending == {s \in UNION {[1 .. n -> Runners] : n \in 0 .. Len(RunnerKind)} :
                \A i, j \in DOMAIN s : i < j => s[i] < s[j]}

Init ==
  /\ freeIds \in [Kinds -> Ascending]
  /\ \A k \in Kinds : {freeIds[k][n] : n \in DOMAIN freeIds[k]}
                        = {r \in Runners : RunnerKind[r + 1] = k}
  /\ ctl = Nobody
  /\ call = [c \in Clients |-> "out"]
  /\ id = [c \in Clients |-> 0]
  /\ handle = [c \in Clients |-> 0]
  /\ worker = [r \in Runners |-> Nobody]
  /\ loop = [r \in Runners |-> "spawned"]
  /\ epochs = [r \in Runners |-> 0]
  /\ running = [r \in Runners |-> Nobody]
  /\ pill = [r \in Runners |-> FALSE]
  /\ aborted = {}

\* The runner thread holds its own lock while it runs a batch.
Locked(r) == loop[r] = "batch"

\* The handle packs id and kind.
encode(r, kind) == r * KindSize + kind
decodeId(h)     == h \div KindSize
decodeKind(h)   == h % KindSize

-----------------------------------------------------------------------------
(* DaemonController::_register                                             *)

FrontOf(s) == SubSeq(s, 1, Len(s) - 1)

\* NO_DAEMON_RUNNER_AVAILABLE
RegisterFails(c) ==
  /\ call[c] = "out"
  /\ ctl = Nobody
  /\ freeIds[ClientKind[c]] = <<>>
  /\ call' = [call EXCEPT ![c] = "refused"]
  /\ UNCHANGED <<ctl, id, handle, freeIds, worker, runner>>

\* Mutant of RegisterPick: the id stays on the list.
RegisterPickKept(c) ==
  LET ids == freeIds[ClientKind[c]] IN
  /\ call[c] = "out"
  /\ ctl = Nobody
  /\ ids # <<>>
  /\ ctl' = c
  /\ id' = [id EXCEPT ![c] = ids[Len(ids)]]
  /\ call' = [call EXCEPT ![c] = "setting"]
  /\ UNCHANGED <<handle, freeIds, worker, runner>>

RegisterPick(c) ==
  LET ids == freeIds[ClientKind[c]] IN
  /\ call[c] = "out"
  /\ ctl = Nobody
  /\ ids # <<>>
  /\ ctl' = c
  /\ id' = [id EXCEPT ![c] = ids[Len(ids)]]
  /\ freeIds' = [freeIds EXCEPT ![ClientKind[c]] = FrontOf(@)]
  /\ call' = [call EXCEPT ![c] = "setting"]
  /\ UNCHANGED <<handle, worker, runner>>

RegisterSet(c) ==
  /\ call[c] = "setting"
  /\ ~Locked(id[c])
  /\ worker' = [worker EXCEPT ![id[c]] = c]
  /\ handle' = [handle EXCEPT ![c] = encode(id[c], ClientKind[c])]
  /\ call' = [call EXCEPT ![c] = "in"]
  /\ ctl' = Nobody
  /\ UNCHANGED <<id, freeIds, runner>>

-----------------------------------------------------------------------------
(* DaemonController::deregister, from the destructor of the handle.        *)

DeregisterFree(c) ==
  /\ call[c] = "in"
  /\ ctl = Nobody
  /\ ctl' = c
  /\ id' = [id EXCEPT ![c] = decodeId(handle[c])]
  /\ freeIds' = [freeIds EXCEPT ![decodeKind(handle[c])] = Append(@, decodeId(handle[c]))]
  /\ call' = [call EXCEPT ![c] = "clearing"]
  /\ UNCHANGED <<handle, worker, runner>>

\* Mutant of DeregisterClear: the worker is replaced without the runner's lock.
DeregisterClearUnlocked(c) ==
  /\ call[c] = "clearing"
  /\ worker' = [worker EXCEPT ![id[c]] = Nobody]
  /\ call' = [call EXCEPT ![c] = "out"]
  /\ ctl' = Nobody
  /\ UNCHANGED <<id, handle, freeIds, runner>>

\* The worker is destroyed when this step returns.
DeregisterClear(c) ==
  /\ call[c] = "clearing"
  /\ ~Locked(id[c])
  /\ worker' = [worker EXCEPT ![id[c]] = Nobody]
  /\ call' = [call EXCEPT ![c] = "out"]
  /\ ctl' = Nobody
  /\ UNCHANGED <<id, handle, freeIds, runner>>

-----------------------------------------------------------------------------
(* StdDaemonRunner::infloop                                                *)

\* The pill is reset when the thread starts: an earlier signal is forgotten.
Start(r) ==
  /\ loop[r] = "spawned"
  /\ pill' = [pill EXCEPT ![r] = FALSE]
  /\ loop' = [loop EXCEPT ![r] = "check"]
  /\ UNCHANGED <<client, worker, epochs, running, aborted>>

CheckPill(r) ==
  /\ loop[r] = "check"
  /\ loop' = [loop EXCEPT ![r] = IF pill[r] THEN "ended" ELSE "lock"]
  /\ UNCHANGED <<client, worker, epochs, running, pill, aborted>>

\* Mutant of LoopNull: a runner without a worker does not look at the pill.
LoopNullSpin(r) ==
  /\ loop[r] = "lock"
  /\ worker[r] = Nobody
  /\ UNCHANGED <<client, worker, loop, epochs, running, pill, aborted>>

LoopNull(r) ==
  /\ loop[r] = "lock"
  /\ worker[r] = Nobody
  /\ loop' = [loop EXCEPT ![r] = "check"]
  /\ UNCHANGED <<client, worker, epochs, running, pill, aborted>>

LoopBatch(r) ==
  /\ loop[r] = "lock"
  /\ worker[r] # Nobody
  /\ loop' = [loop EXCEPT ![r] = "batch"]
  /\ epochs' = [epochs EXCEPT ![r] = LoopChk]
  /\ UNCHANGED <<client, worker, running, pill, aborted>>

EpochBegin(r) ==
  /\ loop[r] = "batch"
  /\ epochs[r] > 0
  /\ running[r] = Nobody
  /\ running' = [running EXCEPT ![r] = worker[r]]
  /\ UNCHANGED <<client, worker, loop, epochs, pill, aborted>>

\* run_one_epoch() returned; a false result ends the batch early.
EpochEnd(r) ==
  /\ running[r] # Nobody
  /\ running' = [running EXCEPT ![r] = Nobody]
  /\ \E more \in BOOLEAN :
       epochs' = [epochs EXCEPT ![r] = IF more THEN @ - 1 ELSE 0]
  /\ UNCHANGED <<client, worker, loop, pill, aborted>>

\* Mutant of BatchEnd: the next batch starts without giving up the lock.
BatchEndHeld(r) ==
  /\ loop[r] = "batch"
  /\ epochs[r] = 0
  /\ running[r] = Nobody
  /\ epochs' = [epochs EXCEPT ![r] = LoopChk]
  /\ UNCHANGED <<client, worker, loop, running, pill, aborted>>

BatchEnd(r) ==
  /\ loop[r] = "batch"
  /\ epochs[r] = 0
  /\ running[r] = Nobody
  /\ loop' = [loop EXCEPT ![r] = "check"]
  /\ UNCHANGED <<client, worker, epochs, running, pill, aborted>>

\* ~StdRaiiDaemonRunner: signal_abort(), then join().  The controller goes
\* after the handles have gone.
SignalAbort(r) ==
  /\ \A c \in Clients : call[c] \in {"out", "refused"}
  /\ r \notin aborted
  /\ aborted' = aborted \cup {r}
  /\ pill' = [pill EXCEPT ![r] = TRUE]
  /\ UNCHANGED <<client, worker, loop, epochs, running>>

-----------------------------------------------------------------------------
Register(c)   == RegisterFails(c) \/ RegisterPick(c) \/ RegisterSet(c)
Deregister(c) == DeregisterFree(c) \/ DeregisterClear(c)
Infloop(r)    == Start(r) \/ CheckPill(r) \/ LoopNull(r) \/ LoopBatch(r)
                 \/ EpochBegin(r) \/ EpochEnd(r) \/ BatchEnd(r)

\* Nobody registers once the program shuts down.
Open == aborted = {}

Next == \/ \E c \in Clients : (Open /\ Register(c)) \/ Deregister(c)
        \/ \E r \in Runners : Infloop(r) \/ SignalAbort(r)

Safety == Init /\ [][Next]_vars

\* Every runner is scheduled and its epochs return.  A client that waits for a
\* lock gets it if the lock is free again and again: the thread that releases
\* a fair_atomic_flag with waiters gives way before it locks again.
Spec == /\ Safety
        /\ \A r \in Runners : WF_vars(Infloop(r))
        /\ \A c \in Clients : /\ WF_vars(RegisterSet(c))
                              /\ SF_vars(DeregisterClear(c))

-----------------------------------------------------------------------------
(* Properties.                                                             *)

TypeOK ==
  /\ freeIds \in [Kinds -> Seq(Runners)]
  /\ ctl \in Clients \cup {Nobody}
  /\ call \in [Clients -> {"out", "refused", "setting", "in", "clearing"}]
  /\ id \in [Clients -> Nat]
  /\ handle \in [Clients -> Nat]
  /\ worker \in [Runners -> Clients \cup {Nobody}]
  /\ loop \in [Runners -> {"spawned", "check", "lock", "batch", "ended"}]
  /\ epochs \in [Runners -> 0 .. LoopChk]
  /\ running \in [Runners -> Clients \cup {Nobody}]
  /\ pill \in [Runners -> BOOLEAN]
  /\ aborted \subseteq Runners

Lent(c) == call[c] \in {"setting", "in"}
IdOf(c) == IF call[c] = "setting" THEN id[c] ELSE decodeId(handle[c])

\* Every runner is on the list of its own kind once, or lent to one client that
\* asked for that kind: no two workers share a daemon, none is lost.
EveryRunnerOnce ==
  \A r \in Runners :
    LET entries == {e \in Kinds \X (1 .. Len(RunnerKind)) :
                      e[2] <= Len(freeIds[e[1]]) /\ freeIds[e[1]][e[2]] = r}
        users   == {c \in Clients : Lent(c) /\ IdOf(c) = r}
    IN  /\ Cardinality(entries) + Cardinality(users) = 1
        /\ \A e \in entries : e[1] = RunnerKind[r + 1]
        /\ \A c \in users : ClientKind[c] = RunnerKind[r + 1]

\* A runner is never inside an epoch of a worker that deregister() has already
\* destroyed: when the handle is gone, so is the last epoch.
NoEpochOfDeadWorker ==
  \A r \in Runners : running[r] # Nobody =>
    worker[r] = running[r] /\ call[running[r]] \in {"in", "clearing"}

\* deregister() returns although it waits for the batch in progress while it
\* keeps everybody else out of the controller.
DeregisterReturns ==
  \A c \in Clients : call[c] = "clearing" ~> call[c] = "out"

\* A thread that is in its loop when signal_abort() arrives ends, so join()
\* returns.
AbortEnds ==
  \A r \in Runners : pill[r] /\ loop[r] # "spawned" ~> loop[r] = "ended"
=============================================================================
