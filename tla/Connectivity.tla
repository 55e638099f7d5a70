---------------------------- MODULE Connectivity ----------------------------
(***************************************************************************)
(* The lease protocol of connectivity_subsystem.h: one MasterConnection    *)
(* registered with the ConnectionController of its process, and the        *)
(* SlaveConnections that other processes open from its configuration.      *)
(*                                                                         *)
(* Each side owns a cron job.  The slave's job pings the master and drops  *)
(* the lease when a ping fails or stays unanswered; the master's job drops *)
(* it when a slave that has pinged falls silent, when the slaves do not    *)
(* all show up, or when the absolute lease is over.                        *)
(*                                                                         *)
(* Time is a discrete clock.  Cron runs a job again no sooner than CronDur *)
(* and no later than CronLag after its last run: the lower bound is the    *)
(* expiry PeriodicCronContainer::push computes, the upper bound is the     *)
(* assumption that the cron daemons are scheduled.  The REST layer that    *)
(* carries the pings may lose, delay and repeat them.                      *)
(***************************************************************************)
EXTENDS Integers, FiniteSets

CONSTANTS
  Slaves,      \* the SlaveConnections, each with its own random identifier
  SlaveCount,  \* MasterConfiguration.slave_count
  TimeoutDur,  \* connection_timeout_dur
  BrokeDur,    \* connection_broke_dur
  AbsDur,      \* abs_timeout_dur
  CronDur,     \* CRON_JOB_DURATION
  CronLag,     \* the longest time between two runs of one cron job
  Reliable,    \* TRUE: the normal case (no loss, no failure, prompt network)
  MaxTime      \* bound on the clock

ASSUME SlavesAssumption   == IsFiniteSet(Slaves)
ASSUME CountAssumption    == SlaveCount \in Nat \ {0}
ASSUME DurationAssumption == /\ TimeoutDur \in Nat
                             /\ BrokeDur \in Nat
                             /\ AbsDur \in Nat
ASSUME CronAssumption     == /\ CronDur \in Nat
                             /\ CronLag \in Nat \ {0}
                             /\ CronDur <= CronLag
ASSUME ReliableAssumption == Reliable \in BOOLEAN
ASSUME HorizonAssumption  == MaxTime \in Nat

VARIABLES
  now,
  up,        \* the master's process runs
  mAlive,    \* MasterConnection::is_alive_flag
  disposed,  \* MasterConnection::is_connection_disposed
  closing,   \* progress of MasterConnection::close()
  topic,     \* the controller still holds the connection's topic
  when,      \* who_when_map: the last ping of each slave that has pinged
  firstAt,   \* InternalResolutor::first_timepoint
  brokeAt,   \* InternalResolutor::broke_timepoint
  inquired,  \* InternalResolutor::is_connection_dispose_inquired
  mUpd,      \* progress of the master's update()
  mCopy,     \* the copy of who_when_map that update() works on
  mLast,     \* end of the last run of the master's cron job
  slave,     \* state of each SlaveConnection and of its InternalResolutor
  flight,    \* ping requests on the wire: of the current promise, or older
  replies,   \* answers to the current promise on their way back
  goneAt,    \* history: when the master stopped answering pings
  erasures   \* history: how often close_connection() erased the topic

master == <<up, mAlive, disposed, closing, topic, when, firstAt, brokeAt,
            inquired, mUpd, mCopy, mLast>>
net    == <<flight, replies>>
ghost  == <<goneAt, erasures>>
vars   == <<now, master, slave, net, ghost>>

Never   == -1
Times   == Nat \cup {Never}
Answers == {"ok", "notfound", "overflow"}

(***************************************************************************)
(* A slave is open once its constructor has run and closed after close().  *)
(* promise is the ping in progress: none, pending, or its outcome, which   *)
(* the next update() consumes.  job is the state of its cron job: cron may *)
(* run it, has run it for the last time, or has let go of it.              *)
(***************************************************************************)
SlaveState == [open: BOOLEAN, closed: BOOLEAN, alive: BOOLEAN,
               job: {"idle", "last", "left"},
               openedAt: Times, last: Times, since: Times, updated: Times,
               promise: {"none", "pending", "error"} \cup Answers,
               pinged: Times]

NewSlave == [open |-> FALSE, closed |-> FALSE, alive |-> FALSE,
             job |-> "idle", openedAt |-> Never, last |-> Never, since |-> Never,
             updated |-> Never, promise |-> "none", pinged |-> Never]

\* ConnectionInterface::is_alive of either side.
MasterIsAlive == closing = "open" /\ mAlive
IsAlive(s)    == slave[s].open /\ ~slave[s].closed /\ slave[s].alive

\* A who_when_map without entries.
Nobody == [s \in Slaves |-> Never]

Known(w) == {s \in Slaves : w[s] # Never}

Init ==
  /\ now = 0
  /\ up = TRUE
  /\ mAlive = TRUE
  /\ disposed = FALSE
  /\ closing = "open"
  /\ topic = TRUE
  /\ when = Nobody
  /\ firstAt = Never
  /\ brokeAt = Never
  /\ inquired = FALSE
  /\ mUpd = "idle"
  /\ mCopy = when
  /\ mLast = 0
  /\ slave = [s \in Slaves |-> NewSlave]
  /\ flight = [s \in Slaves |-> {}]
  /\ replies = [s \in Slaves |-> {}]
  /\ goneAt = Never
  /\ erasures = 0

-----------------------------------------------------------------------------
(* The controller.                                                         *)

\* close_connection: the topic is erased and pings are no longer welcome.
close_connection ==
  /\ topic' = FALSE
  /\ when' = Nobody
  /\ erasures' = erasures + 1
  /\ goneAt' = IF goneAt = Never THEN now ELSE goneAt

\* Mutant of PingAnswer: no check of the room.
PingAnswerAnyRoom(s) == IF topic THEN "ok" ELSE "notfound"

(***************************************************************************)
(* PingResolver::handle and ping_connection.  A slave that has not pinged  *)
(* before needs a free place in the room.  The request may stay on the     *)
(* wire (a retransmission) and be handled again.                           *)
(***************************************************************************)
PingAnswer(s) ==
  CASE ~topic -> "notfound"
    [] topic /\ s \notin Known(when) /\ Cardinality(Known(when)) = SlaveCount
         -> "overflow"
    [] OTHER -> "ok"

HandlePing(s) ==
  /\ up
  /\ \E k \in flight[s] :
       /\ \/ flight' = [flight EXCEPT ![s] = @ \ {k}]
          \/ ~Reliable /\ flight' = flight
       /\ replies' = [replies EXCEPT ![s] =
            IF k = "cur" THEN @ \cup {PingAnswer(s)} ELSE @]
  /\ when' = IF PingAnswer(s) = "ok" THEN [when EXCEPT ![s] = now] ELSE when
  /\ UNCHANGED <<now, up, mAlive, disposed, closing, topic, firstAt, brokeAt,
                 inquired, mUpd, mCopy, mLast, slave, ghost>>

-----------------------------------------------------------------------------
(* The master's cron job: MasterConnection::InternalResolutor::update().   *)
(* It copies the topic under the controller's lock and judges the copy     *)
(* after the lock is released.                                             *)

\* cron's wrapper looks at the poison pill from the job's second run on, some
\* time before it calls update(): after close() the job may run once more.
MasterCronRuns == up /\ mUpd = "idle" /\ now - mLast >= CronDur
Finished       == IF closing = "open" THEN "idle" ELSE "last"

\* The wrapper finds the pill: the job leaves cron, the resolutor is destroyed.
MasterCronStops ==
  /\ up
  /\ mUpd \in {"idle", "last"} /\ now - mLast >= CronDur
  /\ closing # "open"
  /\ firstAt # Never
  /\ mUpd' = "left"
  /\ mLast' = 0
  /\ firstAt' = Never /\ brokeAt' = Never /\ inquired' = FALSE
  /\ UNCHANGED <<now, up, mAlive, disposed, closing, topic, when, mCopy, slave,
                 net, ghost>>

UpdateDead ==
  /\ MasterCronRuns
  /\ ~mAlive
  /\ inquired' = TRUE
  /\ IF inquired \/ disposed
       THEN /\ mLast' = now
            /\ mUpd' = Finished
            /\ UNCHANGED disposed
       ELSE /\ disposed' = TRUE
            /\ mUpd' = "erase"
            /\ UNCHANGED mLast
  /\ UNCHANGED <<now, up, mAlive, closing, topic, when, firstAt, brokeAt,
                 mCopy, slave, net, ghost>>

UpdateErase ==
  /\ up
  /\ mUpd = "erase"
  /\ close_connection
  /\ mUpd' = Finished
  /\ mLast' = now
  /\ UNCHANGED <<now, up, mAlive, disposed, closing, firstAt, brokeAt,
                 inquired, mCopy, slave, net>>

UpdateFetch ==
  /\ MasterCronRuns
  /\ mAlive
  /\ firstAt' = IF firstAt = Never THEN now ELSE firstAt
  /\ IF topic
       THEN /\ mCopy' = when
            /\ mUpd' = "fetched"
            /\ UNCHANGED <<mAlive, mLast>>
       ELSE /\ mAlive' = FALSE
            /\ mLast' = now
            /\ mUpd' = Finished
            /\ UNCHANGED mCopy
  /\ UNCHANGED <<now, up, disposed, closing, topic, when, brokeAt, inquired,
                 slave, net, ghost>>

Silent(w) == \E s \in Known(w) : now - w[s] >= TimeoutDur

\* Mutant of UpdateJudge: the broke timeout also applies to a full room.
UpdateJudgeAlwaysBroke ==
  /\ up
  /\ mUpd = "fetched"
  /\ brokeAt' = IF brokeAt = Never /\ Cardinality(Known(mCopy)) = SlaveCount
                  THEN now ELSE brokeAt
  /\ mAlive' = ~ (now - firstAt >= BrokeDur \/ Silent(mCopy))
  /\ mUpd' = Finished
  /\ mCopy' = Nobody
  /\ mLast' = now
  /\ UNCHANGED <<now, up, disposed, closing, topic, when, firstAt, inquired,
                 slave, net, ghost>>

UpdateJudge ==
  /\ up
  /\ mUpd = "fetched"
  /\ brokeAt' = IF brokeAt = Never /\ Cardinality(Known(mCopy)) = SlaveCount
                  THEN now ELSE brokeAt
  /\ mAlive' = ~ \/ brokeAt' = Never /\ now - firstAt >= BrokeDur
                 \/ brokeAt' # Never /\ now - brokeAt' >= AbsDur
                 \/ Silent(mCopy)
  /\ mUpd' = Finished
  /\ mCopy' = Nobody
  /\ mLast' = now
  /\ UNCHANGED <<now, up, disposed, closing, topic, when, firstAt, inquired,
                 slave, net, ghost>>

-----------------------------------------------------------------------------
(* MasterConnection::close(): poison the cron job, claim the disposal,     *)
(* erase the topic; the cron job may be anywhere in update() meanwhile.    *)

Close ==
  /\ up
  /\ closing = "open"
  /\ closing' = "claiming"
  /\ UNCHANGED <<now, up, mAlive, disposed, topic, when, firstAt, brokeAt,
                 inquired, mUpd, mCopy, mLast, slave, net, ghost>>

\* Mutant of CloseClaim: the result of the exchange is ignored.
CloseClaimTwice ==
  /\ up
  /\ closing = "claiming"
  /\ disposed' = TRUE
  /\ closing' = "erasing"
  /\ UNCHANGED <<now, up, mAlive, topic, when, firstAt, brokeAt, inquired,
                 mUpd, mCopy, mLast, slave, net, ghost>>

CloseClaim ==
  /\ up
  /\ closing = "claiming"
  /\ disposed' = TRUE
  /\ closing' = IF disposed THEN "closed" ELSE "erasing"
  /\ UNCHANGED <<now, up, mAlive, topic, when, firstAt, brokeAt, inquired,
                 mUpd, mCopy, mLast, slave, net, ghost>>

CloseErase ==
  /\ up
  /\ closing = "erasing"
  /\ close_connection
  /\ closing' = "closed"
  /\ UNCHANGED <<now, up, mAlive, disposed, firstAt, brokeAt, inquired,
                 mUpd, mCopy, mLast, slave, net>>

\* The master's process dies: it answers no ping and runs no job any more.
MasterCrash ==
  /\ ~Reliable
  /\ up
  /\ up' = FALSE
  /\ goneAt' = IF goneAt = Never THEN now ELSE goneAt
  /\ UNCHANGED <<now, mAlive, disposed, closing, topic, when, firstAt,
                 brokeAt, inquired, mUpd, mCopy, mLast, slave, net, erasures>>

-----------------------------------------------------------------------------
(* The slave.                                                              *)

SlaveOpen(s) ==
  /\ ~slave[s].open
  /\ slave' = [slave EXCEPT ![s] = [@ EXCEPT !.open = TRUE, !.alive = TRUE,
                                             !.openedAt = now, !.last = now]]
  /\ UNCHANGED <<now, master, net, ghost>>

SlaveClose(s) ==
  /\ slave[s].open
  /\ ~slave[s].closed
  /\ slave' = [slave EXCEPT ![s].closed = TRUE]
  /\ UNCHANGED <<now, master, net, ghost>>

(***************************************************************************)
(* SlaveConnection::InternalResolutor::update(), one action per outcome of *)
(* the ping in progress.  Begun(s) is the resolutor after the lines that   *)
(* set last_updated and since on the first run.  After close() the job may *)
(* run once more, as the master's may.                                     *)
(***************************************************************************)
SlaveCronRuns(s) == /\ slave[s].open /\ slave[s].job = "idle"
                    /\ now - slave[s].last >= CronDur

Begun(s) ==
  LET r == [slave[s] EXCEPT !.last = now,
                            !.job = IF slave[s].closed THEN "last" ELSE "idle"] IN
  IF r.alive /\ r.updated = Never THEN [r EXCEPT !.updated = now, !.since = now]
                                  ELSE r

Dropped(s) == [Begun(s) EXCEPT !.alive = FALSE, !.promise = "none",
                                !.pinged = Never]

SlaveCronStops(s) ==
  /\ slave[s].closed /\ slave[s].job \in {"idle", "last"}
  /\ now - slave[s].last >= CronDur
  /\ slave[s].since # Never
  /\ slave' = [slave EXCEPT ![s] = [NewSlave EXCEPT !.open = TRUE, !.closed = TRUE,
                                                    !.job = "left"]]
  /\ UNCHANGED <<now, master, net, ghost>>

SlaveUpdateDead(s) ==
  /\ SlaveCronRuns(s)
  /\ ~slave[s].alive
  /\ slave' = [slave EXCEPT ![s] = Begun(s)]
  /\ UNCHANGED <<now, master, net, ghost>>

SlaveUpdateAnswered(s) ==
  /\ SlaveCronRuns(s)
  /\ slave[s].alive
  /\ slave[s].promise \in Answers \cup {"error"}
  /\ slave' = [slave EXCEPT ![s] =
       IF @.promise = "ok"
         THEN [Begun(s) EXCEPT !.promise = "none", !.pinged = Never,
                               !.updated = now]
         ELSE Dropped(s)]
  /\ UNCHANGED <<now, master, net, ghost>>

\* Mutant of SlaveUpdatePending: the wait is measured from last_updated, which
\* every run refreshes, and not from the ping.
SlaveUpdatePendingRefreshed(s) ==
  /\ SlaveCronRuns(s)
  /\ slave[s].alive
  /\ slave[s].promise = "pending"
  /\ slave' = [slave EXCEPT ![s] =
       IF now - @.updated < TimeoutDur
         THEN [Begun(s) EXCEPT !.updated = now]
         ELSE Dropped(s)]
  /\ UNCHANGED <<now, master, net, ghost>>

SlaveUpdatePending(s) ==
  /\ SlaveCronRuns(s)
  /\ slave[s].alive
  /\ slave[s].promise = "pending"
  /\ slave' = [slave EXCEPT ![s] =
       IF now - @.pinged < TimeoutDur
         THEN [Begun(s) EXCEPT !.updated = now]
         ELSE Dropped(s)]
  /\ UNCHANGED <<now, master, net, ghost>>

LeaseOver(s) == \/ now - Begun(s).updated >= TimeoutDur
                \/ now - Begun(s).since >= AbsDur

SlaveUpdateExpired(s) ==
  /\ SlaveCronRuns(s)
  /\ slave[s].alive
  /\ slave[s].promise = "none"
  /\ LeaseOver(s)
  /\ slave' = [slave EXCEPT ![s] = Dropped(s)]
  /\ UNCHANGED <<now, master, net, ghost>>

\* MasterPinger::ping: what an earlier promise left on the wire is old now.
SlaveUpdatePing(s) ==
  /\ SlaveCronRuns(s)
  /\ slave[s].alive
  /\ slave[s].promise = "none"
  /\ ~LeaseOver(s)
  /\ slave' = [slave EXCEPT ![s] =
                 [Begun(s) EXCEPT !.promise = "pending", !.pinged = now]]
  /\ flight' = [flight EXCEPT ![s] =
                  IF @ = {} THEN {"cur"} ELSE {"cur", "old"}]
  /\ replies' = [replies EXCEPT ![s] = {}]
  /\ UNCHANGED <<now, master, ghost>>

\* The request could not be issued: the exception ends the lease.
SlaveUpdatePingThrows(s) ==
  /\ ~Reliable
  /\ SlaveCronRuns(s)
  /\ slave[s].alive
  /\ slave[s].promise = "none"
  /\ ~LeaseOver(s)
  /\ slave' = [slave EXCEPT ![s] = Dropped(s)]
  /\ UNCHANGED <<now, master, net, ghost>>

-----------------------------------------------------------------------------
(* The REST layer and the clock.                                           *)

\* An answer completes the promise; later answers find it completed.
Reply(s) ==
  /\ slave[s].promise = "pending"
  /\ \E r \in replies[s] : slave' = [slave EXCEPT ![s].promise = r]
  /\ replies' = [replies EXCEPT ![s] = {}]
  /\ UNCHANGED <<now, master, flight, ghost>>

\* The client gives up: timeout or transport error.
ReplyError(s) ==
  /\ ~Reliable
  /\ slave[s].promise = "pending"
  /\ slave' = [slave EXCEPT ![s].promise = "error"]
  /\ UNCHANGED <<now, master, net, ghost>>

Lose(s) ==
  /\ ~Reliable
  /\ \/ \E k \in flight[s] : flight' = [flight EXCEPT ![s] = @ \ {k}]
                             /\ UNCHANGED replies
     \/ \E r \in replies[s] : replies' = [replies EXCEPT ![s] = @ \ {r}]
                              /\ UNCHANGED flight
  /\ UNCHANGED <<now, master, slave, ghost>>

(***************************************************************************)
(* The clock waits for cron jobs that are due.  In the normal case it also *)
(* waits for the network and for the slaves to be opened.                  *)
(***************************************************************************)
SlaveCronLive(s)  == slave[s].open /\ slave[s].job # "left"
MasterCronLive    == up /\ mUpd # "left"
Prompt == \A s \in Slaves : /\ slave[s].open
                            /\ flight[s] = {}
                            /\ replies[s] = {}

Tick ==
  /\ now < MaxTime
  /\ MasterCronLive => now - mLast < CronLag
  /\ \A s \in Slaves : SlaveCronLive(s) => now - slave[s].last < CronLag
  /\ Reliable => Prompt
  /\ now' = now + 1
  /\ UNCHANGED <<master, slave, net, ghost>>

MasterStep == MasterCronStops \/ UpdateDead \/ UpdateErase \/ UpdateFetch \/ UpdateJudge
                \/ Close \/ CloseClaim \/ CloseErase \/ MasterCrash

SlaveStep(s) == \/ SlaveOpen(s)           \/ SlaveClose(s)  \/ SlaveCronStops(s)
                \/ SlaveUpdateDead(s)     \/ SlaveUpdateAnswered(s)
                \/ SlaveUpdatePending(s)  \/ SlaveUpdateExpired(s)
                \/ SlaveUpdatePing(s)     \/ SlaveUpdatePingThrows(s)

NetStep(s) == HandlePing(s) \/ Reply(s) \/ ReplyError(s) \/ Lose(s)

Next == \/ Tick
        \/ MasterStep
        \/ \E s \in Slaves : SlaveStep(s) \/ NetStep(s)

Spec == Init /\ [][Next]_vars

-----------------------------------------------------------------------------
(* Properties.                                                             *)

TypeOK ==
  /\ now \in Nat
  /\ up \in BOOLEAN /\ mAlive \in BOOLEAN /\ disposed \in BOOLEAN
  /\ topic \in BOOLEAN /\ inquired \in BOOLEAN
  /\ closing \in {"open", "claiming", "erasing", "closed"}
  /\ mUpd \in {"idle", "fetched", "erase", "last", "left"}
  /\ when \in [Slaves -> Times] /\ mCopy \in [Slaves -> Times]
  /\ firstAt \in Times /\ brokeAt \in Times /\ mLast \in Nat
  /\ slave \in [Slaves -> SlaveState]
  /\ flight \in [Slaves -> SUBSET {"cur", "old"}]
  /\ replies \in [Slaves -> SUBSET Answers]
  /\ goneAt \in Times /\ erasures \in Nat

\* When a slave must have noticed that the master is gone: the ping that the
\* master still answered may take TimeoutDur to come back, the next one stays
\* unanswered for TimeoutDur, and a cron job that is late adds to each wait.
GoneFor(s) == IF slave[s].openedAt > goneAt THEN slave[s].openedAt ELSE goneAt
Bound(s)   == GoneFor(s) + 2 * TimeoutDur + 3 * CronLag - 2

\* No slave keeps its resources for a master that is gone (closed, expired or
\* crashed) longer than the lease protocol needs to notice, whatever the
\* network does with the pings: SlaveConnection::is_alive is a guarantee.
SlaveNoticesInTime ==
  \A s \in Slaves : IsAlive(s) /\ goneAt # Never => now <= Bound(s)

\* The user's close() and the cron job race for the disposal of the topic:
\* close_connection is called at most once, so an id that has been handed out
\* again is never erased by the previous owner.
DisposedOnce == erasures <= 1

\* A topic whose disposal nobody has claimed is in the controller, and one that
\* has been claimed stays only while its claimant is on the way to
\* close_connection: no live connection loses its topic, no topic is leaked.
TopicOwned ==
  /\ ~disposed => topic
  /\ up /\ topic => ~disposed \/ mUpd = "erase" \/ closing = "erasing"

\* The ping room never holds more slaves than the master asked for.
RoomBounded == Cardinality(Known(when)) <= SlaveCount

\* In the normal case (every slave opened at once, no loss, prompt network)
\* the lease never ends before the absolute timeout or an explicit close:
\* neither side takes a late cron run for a dead peer.  A slave may only be
\* turned away because the others fill the room.
NoFalseAlarm ==
  /\ closing = "open"
  /\ \A s \in Slaves : ~slave[s].closed
  /\ now < AbsDur
  => /\ MasterIsAlive
     /\ \A s \in Slaves : slave[s].open =>
          \/ IsAlive(s)
          \/ s \notin Known(when) /\ Cardinality(Known(when)) = SlaveCount
=============================================================================
