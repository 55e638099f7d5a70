------------------------- MODULE ConnectivityProofs -------------------------
(***************************************************************************)
(* Theorems about Connectivity, for every number of slaves, every timeout  *)
(* and every clock bound.                                                  *)
(***************************************************************************)
EXTENDS Connectivity, FiniteSetTheorems, TLAPS

USE DurationAssumption, CronAssumption, CountAssumption, HorizonAssumption

-----------------------------------------------------------------------------
(* Type correctness.                                                       *)

\* The empty map is a map of times.
LEMMA NobodyType == Nobody \in [Slaves -> Times]
BY DEF Nobody, Times

\* A slave that has not been opened is a slave.
LEMMA NewSlaveType == NewSlave \in SlaveState
BY DEF NewSlave, SlaveState, Times, Answers

\* Erasing the topic keeps the types of what it touches.
LEMMA CloseType ==
  ASSUME TypeOK, close_connection
  PROVE  /\ topic' \in BOOLEAN
         /\ when' \in [Slaves -> Times]
         /\ erasures' \in Nat
         /\ goneAt' \in Times
<1>1. when' \in [Slaves -> Times]
  BY NobodyType DEF close_connection
<1>2. erasures' \in Nat /\ goneAt' \in Times
  BY DEF close_connection, TypeOK, Times
<1>3. QED BY <1>1, <1>2 DEF close_connection

\* What update() makes of a slave is a slave again.
LEMMA BegunType ==
  ASSUME TypeOK, NEW s \in Slaves
  PROVE  Begun(s) \in SlaveState /\ Dropped(s) \in SlaveState
<1>1. slave[s] \in SlaveState /\ now \in Times
  BY DEF TypeOK, Times
<1> DEFINE j == IF slave[s].closed THEN "last" ELSE "idle"
           r == [slave[s] EXCEPT !.last = now, !.job = j]
<1>2. r \in SlaveState
  BY <1>1 DEF SlaveState
<1>3. [r EXCEPT !.updated = now, !.since = now] \in SlaveState
  BY <1>1, <1>2 DEF SlaveState
<1>4. Begun(s) \in SlaveState
  BY <1>2, <1>3 DEF Begun
<1>5. Dropped(s) \in SlaveState
  BY <1>4 DEF Dropped, SlaveState, Times
<1>6. QED BY <1>4, <1>5

\* Every step of either cron job, of close() and of the network keeps the types.
LEMMA TypeStep == TypeOK /\ [Next]_vars => TypeOK'
<1> SUFFICES ASSUME TypeOK, [Next]_vars PROVE TypeOK'
  OBVIOUS
<1>1. CASE UNCHANGED vars
  BY <1>1 DEF vars, master, net, ghost, TypeOK
<1>2. CASE Tick
  BY <1>2 DEF Tick, master, net, ghost, TypeOK
<1>3. CASE MasterStep
  <2> USE DEF TypeOK, Times, Never, net, ghost
  <2> USE DEF Finished
  <2>0. CASE MasterCronStops
    BY <2>0 DEF MasterCronStops
  <2>1. CASE UpdateDead
    BY <2>1 DEF UpdateDead
  <2>2. CASE UpdateErase
    BY <2>2, CloseType DEF UpdateErase
  <2>3. CASE UpdateFetch
    BY <2>3 DEF UpdateFetch
  <2>4. CASE UpdateJudge
    BY NobodyType, <2>4 DEF UpdateJudge
  <2>5. CASE Close \/ CloseClaim
    BY <2>5 DEF Close, CloseClaim
  <2>6. CASE CloseErase
    BY <2>6, CloseType DEF CloseErase
  <2>7. CASE MasterCrash
    BY <2>7 DEF MasterCrash
  <2>8. QED BY <1>3, <2>0, <2>1, <2>2, <2>3, <2>4, <2>5, <2>6, <2>7 DEF MasterStep
<1>4. ASSUME NEW s \in Slaves, SlaveStep(s) PROVE TypeOK'
  <2> DEFINE Changed(r) == slave' = [slave EXCEPT ![s] = r]
  <2>1. ASSUME NEW r \in SlaveState, Changed(r), UNCHANGED <<now, master, ghost>>,
               flight' \in [Slaves -> SUBSET {"cur", "old"}],
               replies' \in [Slaves -> SUBSET Answers]
        PROVE  TypeOK'
    BY <2>1 DEF TypeOK, master, ghost
  <2>2. slave[s] \in SlaveState /\ now \in Times /\ Never \in Times
    BY DEF TypeOK, Times
  <2>3. /\ flight \in [Slaves -> SUBSET {"cur", "old"}]
        /\ replies \in [Slaves -> SUBSET Answers]
    BY DEF TypeOK
  <2>4. CASE SlaveOpen(s)
    <3> DEFINE r == [slave[s] EXCEPT !.open = TRUE, !.alive = TRUE,
                                     !.openedAt = now, !.last = now]
    <3>1. r \in SlaveState
      BY <2>2 DEF SlaveState
    <3>2. QED BY <2>1, <2>3, <2>4, <3>1 DEF SlaveOpen, net
  <2>5. CASE SlaveClose(s)
    <3> DEFINE r == [slave[s] EXCEPT !.closed = TRUE]
    <3>1. r \in SlaveState
      BY <2>2 DEF SlaveState
    <3>2. slave' = [slave EXCEPT ![s] = r]
      BY <2>5 DEF SlaveClose
    <3>3. QED BY <2>1, <2>3, <2>5, <3>1, <3>2 DEF SlaveClose, net
  <2>6. CASE SlaveUpdateDead(s)
    BY <2>1, <2>3, <2>6, BegunType DEF SlaveUpdateDead, net
  <2>7. CASE SlaveUpdateAnswered(s)
    <3> DEFINE r == [Begun(s) EXCEPT !.promise = "none", !.pinged = Never,
                                     !.updated = now]
    <3>1. r \in SlaveState
      BY BegunType, <2>2 DEF SlaveState
    <3>2. Changed(r) \/ Changed(Dropped(s))
      BY <2>7 DEF SlaveUpdateAnswered
    <3>3. QED BY <2>1, <2>3, <2>7, <3>1, <3>2, BegunType DEF SlaveUpdateAnswered, net
  <2>8. CASE SlaveUpdatePending(s)
    <3> DEFINE r == [Begun(s) EXCEPT !.updated = now]
    <3>1. r \in SlaveState
      BY BegunType, <2>2 DEF SlaveState
    <3>2. Changed(r) \/ Changed(Dropped(s))
      BY <2>8 DEF SlaveUpdatePending
    <3>3. QED BY <2>1, <2>3, <2>8, <3>1, <3>2, BegunType DEF SlaveUpdatePending, net
  <2>9. CASE SlaveUpdateExpired(s) \/ SlaveUpdatePingThrows(s)
    BY <2>1, <2>3, <2>9, BegunType DEF SlaveUpdateExpired, SlaveUpdatePingThrows, net
  <2>10. CASE SlaveUpdatePing(s)
    <3> DEFINE r == [Begun(s) EXCEPT !.promise = "pending", !.pinged = now]
    <3>1. r \in SlaveState
      BY BegunType, <2>2 DEF SlaveState
    <3>2. /\ flight' \in [Slaves -> SUBSET {"cur", "old"}]
          /\ replies' \in [Slaves -> SUBSET Answers]
      BY <2>3, <2>10 DEF SlaveUpdatePing
    <3>3. QED BY <2>1, <2>10, <3>1, <3>2 DEF SlaveUpdatePing
  <2>11. CASE SlaveCronStops(s)
    <3> DEFINE r == [NewSlave EXCEPT !.open = TRUE, !.closed = TRUE, !.job = "left"]
    <3>1. r \in SlaveState
      BY NewSlaveType DEF SlaveState
    <3>2. QED BY <2>1, <2>3, <2>11, <3>1 DEF SlaveCronStops, net
  <2>12. QED BY <1>4, <2>4, <2>5, <2>6, <2>7, <2>8, <2>9, <2>10, <2>11 DEF SlaveStep
<1>5. ASSUME NEW s \in Slaves, NetStep(s) PROVE TypeOK'
  <2>1. CASE HandlePing(s)
    <3>1. PingAnswer(s) \in Answers
      BY DEF PingAnswer, Answers
    <3>2. QED BY <2>1, <3>1 DEF HandlePing, ghost, TypeOK, Times
  <2>2. ASSUME NEW p \in {"error"} \cup Answers,
               slave' = [slave EXCEPT ![s].promise = p],
               UNCHANGED <<now, master, flight, ghost>>,
               replies' \in [Slaves -> SUBSET Answers]
        PROVE  TypeOK'
    <3>1. [slave[s] EXCEPT !.promise = p] \in SlaveState
      BY DEF TypeOK, SlaveState
    <3>2. slave' \in [Slaves -> SlaveState]
      BY <2>2, <3>1 DEF TypeOK
    <3>3. QED BY <2>2, <3>2 DEF TypeOK, master, ghost
  <2>3. CASE Reply(s)
    <3>1. PICK p \in replies[s] : slave' = [slave EXCEPT ![s].promise = p]
      BY <2>3 DEF Reply
    <3>2. p \in Answers /\ replies' \in [Slaves -> SUBSET Answers]
      BY <2>3 DEF Reply, TypeOK
    <3>3. QED BY <2>2, <2>3, <3>1, <3>2 DEF Reply
  <2>4. CASE ReplyError(s)
    BY <2>2, <2>4 DEF ReplyError, net, TypeOK
  <2>5. CASE Lose(s)
    BY <2>5 DEF Lose, master, ghost, TypeOK
  <2>6. QED BY <1>5, <2>1, <2>3, <2>4, <2>5 DEF NetStep
<1>6. QED BY <1>1, <1>2, <1>3, <1>4, <1>5 DEF Next

\* The variables always have the types their C++ declarations give them.
THEOREM TypeCorrect == Spec => []TypeOK
<1>1. Init => TypeOK
  <2>2. ASSUME Init PROVE /\ when \in [Slaves -> Times]
                          /\ mCopy \in [Slaves -> Times]
                          /\ slave \in [Slaves -> SlaveState]
    BY <2>2, NewSlaveType, NobodyType DEF Init
  <2>3. ASSUME Init PROVE /\ flight \in [Slaves -> SUBSET {"cur", "old"}]
                          /\ replies \in [Slaves -> SUBSET Answers]
                          /\ goneAt \in Times /\ firstAt \in Times
                          /\ brokeAt \in Times
    BY <2>3 DEF Init, Times
  <2>4. ASSUME Init PROVE /\ up \in BOOLEAN /\ mAlive \in BOOLEAN
                          /\ disposed \in BOOLEAN /\ topic \in BOOLEAN
                          /\ inquired \in BOOLEAN
    BY <2>4 DEF Init
  <2>5. ASSUME Init PROVE /\ now \in Nat /\ mLast \in Nat /\ erasures \in Nat
                          /\ closing = "open" /\ mUpd = "idle"
    BY <2>5 DEF Init
  <2>6. QED BY <2>2, <2>3, <2>4, <2>5 DEF TypeOK
<1>2. QED BY <1>1, TypeStep, PTL DEF Spec

-----------------------------------------------------------------------------
(* The disposal of the topic.                                              *)

\* Who may still erase the topic: whoever turned is_connection_disposed on,
\* until it has reached close_connection.
DisposalInv ==
  /\ topic <=> erasures = 0
  /\ ~disposed => erasures = 0 /\ mUpd # "erase" /\ closing # "erasing"
  /\ mUpd = "erase" => erasures = 0 /\ closing # "erasing"
  /\ closing = "erasing" => erasures = 0
  /\ disposed /\ erasures = 0 => mUpd = "erase" \/ closing = "erasing"
  /\ erasures <= 1

\* No interleaving of close() with the cron job lets two of them erase.
LEMMA DisposalStep == TypeOK /\ DisposalInv /\ [Next]_vars => DisposalInv'
<1> SUFFICES ASSUME TypeOK, DisposalInv, [Next]_vars PROVE DisposalInv'
  OBVIOUS
<1> USE DEF DisposalInv
<1>0. /\ erasures \in Nat
      /\ topic \in BOOLEAN /\ disposed \in BOOLEAN
  BY DEF TypeOK
<1>1. ASSUME UNCHANGED <<topic, erasures, disposed, mUpd, closing>> PROVE DisposalInv'
  BY <1>1
<1>2. CASE UNCHANGED vars
  BY <1>1, <1>2 DEF vars, master, ghost
<1>3. CASE Tick \/ MasterCrash
  BY <1>1, <1>3 DEF Tick, MasterCrash, master, ghost
<1>4. CASE UpdateDead
  BY <1>0, <1>4 DEF UpdateDead, MasterCronRuns, Finished, ghost
<1>5. CASE UpdateErase
  BY <1>0, <1>5 DEF UpdateErase, Finished, close_connection
<1>6. CASE UpdateFetch
  BY <1>0, <1>6 DEF UpdateFetch, MasterCronRuns, Finished, ghost
<1>7. CASE UpdateJudge \/ MasterCronStops
  BY <1>0, <1>7 DEF UpdateJudge, MasterCronStops, Finished, ghost
<1>8. CASE Close
  BY <1>0, <1>8 DEF Close, ghost
<1>9. CASE CloseClaim
  BY <1>0, <1>9 DEF CloseClaim, ghost
<1>10. CASE CloseErase
  BY <1>0, <1>10 DEF CloseErase, close_connection
<1>11. ASSUME NEW s \in Slaves, SlaveStep(s) PROVE DisposalInv'
  BY <1>1, <1>11 DEF SlaveStep, SlaveOpen, SlaveClose, SlaveCronStops, SlaveUpdateDead,
     SlaveUpdateAnswered, SlaveUpdatePending, SlaveUpdateExpired,
     SlaveUpdatePing, SlaveUpdatePingThrows, master, ghost
<1>12. ASSUME NEW s \in Slaves, NetStep(s) PROVE DisposalInv'
  BY <1>1, <1>12 DEF NetStep, HandlePing, Reply, ReplyError, Lose, master, ghost
<1>13. QED BY <1>2, <1>3, <1>4, <1>5, <1>6, <1>7, <1>8, <1>9, <1>10, <1>11, <1>12
            DEF Next, MasterStep

\* Whatever the race between MasterConnection::close() and its cron job,
\* close_connection() is called once at most, by the one that claimed it.
THEOREM Disposal == Spec => [](DisposedOnce /\ TopicOwned)
<1>1. Init => DisposalInv
  BY DEF Init, DisposalInv
<1>2. TypeOK /\ DisposalInv => DisposedOnce /\ TopicOwned
  BY DEF DisposalInv, DisposedOnce, TopicOwned, TypeOK
<1>3. QED BY <1>1, <1>2, DisposalStep, TypeCorrect, PTL DEF Spec

-----------------------------------------------------------------------------
(* The ping room.                                                          *)

\* A ping enters the room only through the check of its size.
LEMMA RoomStep == TypeOK /\ RoomBounded /\ [Next]_vars => RoomBounded'
<1> SUFFICES ASSUME TypeOK, RoomBounded, [Next]_vars PROVE RoomBounded'
  OBVIOUS
<1>1. ASSUME UNCHANGED when PROVE RoomBounded'
  BY <1>1 DEF RoomBounded, Known
<1>2. IsFiniteSet(Known(when)) /\ Cardinality(Known(when)) \in Nat
  BY SlavesAssumption, FS_Subset, FS_CardinalityType DEF Known
<1>3. ASSUME close_connection PROVE RoomBounded'
  <2>1. Known(when') = {}
    BY <1>3 DEF close_connection, Nobody, Known
  <2>2. QED BY <2>1, FS_EmptySet DEF RoomBounded, Known
<1>4. ASSUME NEW s \in Slaves, HandlePing(s) PROVE RoomBounded'
  <2>1. CASE PingAnswer(s) # "ok"
    BY <1>1, <1>4, <2>1 DEF HandlePing
  <2>2. CASE PingAnswer(s) = "ok"
    <3>1. when' = [when EXCEPT ![s] = now]
      BY <1>4, <2>2 DEF HandlePing
    <3>2. Known(when') = Known(when) \cup {s}
      BY <3>1 DEF Known, TypeOK, Never
    <3>3. CASE s \in Known(when)
      BY <3>2, <3>3 DEF RoomBounded, Known
    <3>4. CASE s \notin Known(when)
      <4>1. Cardinality(Known(when)) # SlaveCount
        BY <2>2, <3>4 DEF PingAnswer
      <4>2. Cardinality(Known(when)) + 1 <= SlaveCount
        BY <1>2, <4>1 DEF RoomBounded
      <4>3. Cardinality(Known(when) \cup {s}) = Cardinality(Known(when)) + 1
        BY <1>2, <3>4, FS_AddElement
      <4>4. QED BY <3>2, <4>2, <4>3 DEF RoomBounded, Known
    <3>5. QED BY <3>3, <3>4
  <2>3. QED BY <2>1, <2>2
<1>5. CASE UpdateErase \/ CloseErase
  BY <1>3, <1>5 DEF UpdateErase, CloseErase
<1>6. ASSUME NEW s \in Slaves, SlaveStep(s) PROVE RoomBounded'
  BY <1>1, <1>6 DEF SlaveStep, SlaveOpen, SlaveClose, SlaveCronStops, SlaveUpdateDead,
     SlaveUpdateAnswered, SlaveUpdatePending, SlaveUpdateExpired,
     SlaveUpdatePing, SlaveUpdatePingThrows, master
<1>7. ASSUME NEW s \in Slaves, Reply(s) \/ ReplyError(s) \/ Lose(s)
      PROVE  RoomBounded'
  BY <1>1, <1>7 DEF Reply, ReplyError, Lose, master
<1>8. CASE \/ UNCHANGED vars \/ Tick \/ MasterCrash \/ UpdateDead
           \/ UpdateFetch \/ UpdateJudge \/ Close \/ CloseClaim \/ MasterCronStops
  BY <1>1, <1>8 DEF vars, Tick, MasterCrash, MasterCronStops, UpdateDead, UpdateFetch,
     UpdateJudge, Close, CloseClaim, master
<1>9. QED BY <1>4, <1>5, <1>6, <1>7, <1>8 DEF Next, MasterStep, NetStep

\* However the pings of the slaves interleave and repeat, the master counts
\* no more than slave_count of them.
THEOREM Room == Spec => []RoomBounded
<1>1. Init => RoomBounded
  <2>1. Init => Known(when) = {}
    BY DEF Init, Nobody, Known
  <2>2. QED BY <2>1, FS_EmptySet DEF RoomBounded
<1>2. QED BY <1>1, RoomStep, TypeCorrect, PTL DEF Spec

-----------------------------------------------------------------------------
(* A slave notices that its master is gone.                                *)

Gone == goneAt # Never

\* Once the master is gone no ping is answered with "ok".
GoneInv == /\ Gone => goneAt \in Nat /\ goneAt <= now /\ (~up \/ ~topic)
           /\ ~Gone => up /\ topic

\* The clock of one slave: when its job last ran, when its ping was sent and
\* how long that ping has been waited for.
ClockInv(s) ==
  LET r == slave[s] IN
  /\ ~r.open => ~r.alive
  /\ ~r.alive => r.promise = "none"
  /\ r.updated <= now
  /\ ~r.closed => r.job # "left"
  /\ SlaveCronLive(s) => /\ r.openedAt \in Nat /\ r.last \in Nat
                         /\ r.openedAt <= r.last /\ r.last <= now
                         /\ now - r.last <= CronLag
  /\ r.promise # "none" => /\ SlaveCronLive(s)
                           /\ r.pinged \in Nat /\ r.pinged <= r.last
                           /\ r.last <= r.pinged + TimeoutDur - 1

\* A slave that still believes in a master that is gone: its ping was answered
\* before the end, or its next ping was sent in time to notice.
NoticeInv(s) ==
  LET r == slave[s] IN
  Gone =>
    /\ r.promise = "ok" => r.pinged <= goneAt
    /\ r.promise = "pending" /\ "ok" \in replies[s] => r.pinged <= goneAt
    /\ IsAlive(s) /\ r.promise # "none" =>
         r.pinged <= GoneFor(s) + TimeoutDur - 1 + 2 * CronLag
    /\ IsAlive(s) /\ r.promise = "none" =>
         \/ r.last <= GoneFor(s)
         \/ TimeoutDur > 0 /\ r.last <= GoneFor(s) + TimeoutDur - 1 + CronLag

LeaseInv == GoneInv /\ \A s \in Slaves : ClockInv(s) /\ NoticeInv(s)

\* What a run of the slave's job leaves of the slave before it judges the ping.
LEMMA BegunFields ==
  ASSUME TypeOK, NEW s \in Slaves
  PROVE  /\ Begun(s).open = slave[s].open /\ Begun(s).closed = slave[s].closed
         /\ Begun(s).alive = slave[s].alive /\ Begun(s).promise = slave[s].promise
         /\ Begun(s).openedAt = slave[s].openedAt /\ Begun(s).last = now
         /\ Begun(s).pinged = slave[s].pinged
         /\ Begun(s).updated = slave[s].updated \/ Begun(s).updated = now
         /\ Begun(s).job # "left"
<1>1. slave[s] \in SlaveState
  BY DEF TypeOK
<1> DEFINE j == IF slave[s].closed THEN "last" ELSE "idle"
           r == [slave[s] EXCEPT !.last = now, !.job = j]
<1>2. Begun(s) = r \/ Begun(s) = [r EXCEPT !.updated = now, !.since = now]
  BY DEF Begun
<1>3. j # "left"
  OBVIOUS
<1> HIDE DEF j
<1>4. /\ r.open = slave[s].open /\ r.closed = slave[s].closed
      /\ r.alive = slave[s].alive /\ r.promise = slave[s].promise
      /\ r.openedAt = slave[s].openedAt /\ r.last = now
      /\ r.pinged = slave[s].pinged /\ r.updated = slave[s].updated
      /\ r.job # "left"
  BY <1>1, <1>3 DEF SlaveState
<1>5. j \in {"idle", "last", "left"} /\ now \in Times
  BY DEF j, TypeOK, Times
<1>6. r \in SlaveState
  BY <1>1, <1>5 DEF SlaveState
<1> HIDE DEF r
<1>7. CASE Begun(s) = r
  BY <1>4, <1>7
<1>8. CASE Begun(s) = [r EXCEPT !.updated = now, !.since = now]
  BY <1>4, <1>6, <1>8 DEF SlaveState
<1>9. QED BY <1>2, <1>7, <1>8

\* A slave no step has touched keeps its part of the invariant.
LEMMA FrameStep ==
  ASSUME TypeOK, NEW s \in Slaves, ClockInv(s), NoticeInv(s),
         slave'[s] = slave[s], now' = now, goneAt' = goneAt,
         replies'[s] \subseteq replies[s]
  PROVE  ClockInv(s)' /\ NoticeInv(s)'
<1>1. slave[s] \in SlaveState /\ now \in Nat
  BY DEF TypeOK
<1>2. ClockInv(s)'
  BY DEF ClockInv, SlaveCronLive
<1>3. NoticeInv(s)'
  BY DEF NoticeInv, IsAlive, GoneFor, Gone
<1>4. QED BY <1>2, <1>3

\* A run of the job that ends the lease, or finds it ended.
LEMMA DeadStep ==
  ASSUME TypeOK, NEW s \in Slaves, ClockInv(s), SlaveCronLive(s), slave'[s].job # "left",
         now' = now, slave'[s].open = slave[s].open, ~slave'[s].alive,
         slave'[s].openedAt = slave[s].openedAt, slave'[s].last = now,
         slave'[s].promise = "none", slave'[s].updated <= now
  PROVE  ClockInv(s)' /\ NoticeInv(s)'
<1>1. slave[s] \in SlaveState /\ now \in Nat
  BY DEF TypeOK
<1>2. ClockInv(s)'
  BY <1>1 DEF ClockInv, SlaveCronLive
<1>3. NoticeInv(s)'
  BY DEF NoticeInv, IsAlive
<1>4. QED BY <1>2, <1>3

\* One run of the slave's cron job.
LEMMA RunStep ==
  ASSUME TypeOK, GoneInv, NEW s \in Slaves, ClockInv(s), NoticeInv(s),
         \/ SlaveUpdateDead(s) \/ SlaveUpdateAnswered(s) \/ SlaveUpdatePending(s)
         \/ SlaveUpdateExpired(s) \/ SlaveUpdatePing(s) \/ SlaveUpdatePingThrows(s)
  PROVE  ClockInv(s)' /\ NoticeInv(s)'
<1> DEFINE r == slave[s]
           q == slave'[s]
<1>1. /\ r \in SlaveState /\ now \in Nat
      /\ Begun(s) \in SlaveState /\ Dropped(s) \in SlaveState
      /\ slave \in [Slaves -> SlaveState]
  BY BegunType DEF TypeOK
<1>2. SlaveCronRuns(s) /\ now' = now /\ goneAt' = goneAt
  BY DEF SlaveUpdateDead, SlaveUpdateAnswered, SlaveUpdatePending,
         SlaveUpdateExpired, SlaveUpdatePing, SlaveUpdatePingThrows, ghost
<1>3. /\ r.open /\ SlaveCronLive(s) /\ r.last \in Nat /\ r.openedAt \in Nat
      /\ r.openedAt <= r.last /\ r.last <= now /\ now - r.last <= CronLag
  BY <1>2 DEF SlaveCronRuns, SlaveCronLive, ClockInv
<1>4. ASSUME q = Dropped(s) PROVE ClockInv(s)' /\ NoticeInv(s)'
  <2>1. /\ q.open = r.open /\ ~q.alive /\ q.openedAt = r.openedAt /\ q.job # "left"
        /\ q.last = now /\ q.promise = "none" /\ q.updated = Begun(s).updated
    BY <1>1, <1>4, BegunFields DEF Dropped, SlaveState
  <2>2. q.updated <= now
    BY <1>1, <2>1, BegunFields DEF ClockInv
  <2>3. QED BY <1>2, <1>3, <2>1, <2>2, DeadStep
<1>5. CASE SlaveUpdateDead(s)
  <2>1. q = Begun(s) /\ ~r.alive
    BY <1>1, <1>5 DEF SlaveUpdateDead
  <2>2. r.promise = "none" /\ Begun(s).updated <= now
    BY <1>1, <2>1, BegunFields DEF ClockInv
  <2>3. QED BY <1>2, <1>3, <2>1, <2>2, BegunFields, DeadStep
<1>6. CASE SlaveUpdateAnswered(s)
  <2>1. CASE r.promise # "ok"
    BY <1>1, <1>4, <1>6, <2>1 DEF SlaveUpdateAnswered
  <2>2. CASE r.promise = "ok"
    <3>1. q = [Begun(s) EXCEPT !.promise = "none", !.pinged = Never, !.updated = now]
      BY <1>1, <1>6, <2>2 DEF SlaveUpdateAnswered
    <3>2. /\ q.open /\ q.alive = r.alive /\ q.openedAt = r.openedAt /\ q.job # "left"
          /\ q.last = now /\ q.promise = "none" /\ q.updated = now
      BY <1>1, <1>3, <3>1, BegunFields DEF SlaveState
    <3>3. r.alive
      BY <1>6 DEF SlaveUpdateAnswered
    <3>4. ClockInv(s)'
      BY <1>1, <1>2, <1>3, <3>2, <3>3 DEF ClockInv, SlaveCronLive
    <3>5. ASSUME Gone PROVE /\ GoneFor(s)' = GoneFor(s) /\ TimeoutDur > 0
                            /\ now <= GoneFor(s) + TimeoutDur - 1 + CronLag
      <4>1. r.pinged <= goneAt /\ goneAt \in Nat
        BY <2>2, <3>5 DEF NoticeInv, GoneInv
      <4>2. /\ r.pinged \in Nat /\ r.last \in Nat /\ r.pinged <= r.last
            /\ r.last <= r.pinged + TimeoutDur - 1 /\ r.openedAt \in Nat
        BY <1>3, <2>2 DEF ClockInv
      <4>3. GoneFor(s)' = GoneFor(s) /\ GoneFor(s) >= goneAt /\ GoneFor(s) \in Nat
        BY <1>2, <3>2, <4>1, <4>2 DEF GoneFor
      <4>4. QED BY <1>1, <1>3, <4>1, <4>2, <4>3
    <3>6. NoticeInv(s)'
      BY <1>2, <3>2, <3>5 DEF NoticeInv, Gone
    <3>7. QED BY <3>4, <3>6
  <2>3. QED BY <2>1, <2>2
<1>7. CASE SlaveUpdatePending(s)
  <2>1. CASE ~(now - r.pinged < TimeoutDur)
    BY <1>1, <1>4, <1>7, <2>1 DEF SlaveUpdatePending
  <2>2. CASE now - r.pinged < TimeoutDur
    <3>1. q = [Begun(s) EXCEPT !.updated = now]
      BY <1>1, <1>7, <2>2 DEF SlaveUpdatePending
    <3>2. /\ q.open /\ q.alive = r.alive /\ q.openedAt = r.openedAt /\ q.job # "left"
          /\ q.closed = r.closed /\ q.last = now /\ q.updated = now
          /\ q.promise = r.promise /\ q.pinged = r.pinged
      BY <1>1, <1>3, <3>1, BegunFields DEF SlaveState
    <3>3. r.alive /\ r.promise = "pending" /\ replies' = replies
      BY <1>7 DEF SlaveUpdatePending, net
    <3>4. ClockInv(s)'
      BY <1>1, <1>2, <1>3, <2>2, <3>2, <3>3 DEF ClockInv, SlaveCronLive
    <3>5. GoneFor(s)' = GoneFor(s) /\ IsAlive(s)' = IsAlive(s)
      BY <1>2, <1>3, <3>2, <3>3 DEF GoneFor, IsAlive
    <3>6. NoticeInv(s)'
      BY <1>2, <3>2, <3>3, <3>5 DEF NoticeInv, Gone
    <3>7. QED BY <3>4, <3>6
  <2>3. QED BY <2>1, <2>2
<1>8. CASE SlaveUpdateExpired(s) \/ SlaveUpdatePingThrows(s)
  BY <1>1, <1>4, <1>8 DEF SlaveUpdateExpired, SlaveUpdatePingThrows
<1>9. CASE SlaveUpdatePing(s)
  <2>1. q = [Begun(s) EXCEPT !.promise = "pending", !.pinged = now]
    BY <1>1, <1>9 DEF SlaveUpdatePing
  <2>2. /\ q.open /\ q.alive = r.alive /\ q.openedAt = r.openedAt /\ q.job # "left"
        /\ q.closed = r.closed /\ q.last = now /\ q.updated = Begun(s).updated
        /\ q.promise = "pending" /\ q.pinged = now
    BY <1>1, <1>3, <2>1, BegunFields DEF SlaveState
  <2>3. r.alive /\ r.promise = "none" /\ replies'[s] = {}
    BY <1>9 DEF SlaveUpdatePing, TypeOK
  <2>4. Begun(s).updated <= now /\ Begun(s).updated \in Int
    BY <1>1, BegunFields DEF ClockInv, SlaveState, Times, Never
  <2>5. TimeoutDur > 0
    BY <1>1, <1>9, <2>4 DEF SlaveUpdatePing, LeaseOver
  <2>6. ClockInv(s)'
    BY <1>1, <1>2, <1>3, <2>2, <2>3, <2>4, <2>5 DEF ClockInv, SlaveCronLive
  <2>7. GoneFor(s)' = GoneFor(s) /\ IsAlive(s)' = IsAlive(s)
    BY <1>2, <1>3, <2>2 DEF GoneFor, IsAlive
  <2>8. ASSUME Gone, IsAlive(s)
        PROVE  now <= GoneFor(s) + TimeoutDur - 1 + 2 * CronLag
    <3>1. /\ r.last \in Nat /\ r.openedAt \in Nat /\ goneAt \in Nat
      BY <1>3, <2>8 DEF ClockInv, GoneInv
    <3>2. GoneFor(s) \in Nat
      BY <3>1 DEF GoneFor
    <3>3. \/ r.last <= GoneFor(s)
          \/ r.last <= GoneFor(s) + TimeoutDur - 1 + CronLag
      BY <2>3, <2>8 DEF NoticeInv
    <3>4. QED BY <1>1, <1>3, <2>5, <3>1, <3>2, <3>3
  <2>9. NoticeInv(s)'
    BY <1>2, <2>2, <2>3, <2>7, <2>8 DEF NoticeInv, Gone
  <2>10. QED BY <2>6, <2>9
<1>10. QED BY <1>5, <1>6, <1>7, <1>8, <1>9

\* The end of the master: closed by its owner, expired, or crashed.
LEMMA EndStep ==
  ASSUME TypeOK, LeaseInv, now' = now, slave' = slave, replies' = replies,
         goneAt' = IF goneAt = Never THEN now ELSE goneAt, ~up' \/ ~topic'
  PROVE  LeaseInv'
<1>1. now \in Nat /\ goneAt \in Times /\ Never \notin Nat
  BY DEF TypeOK, Never
<1>2. GoneInv'
  BY <1>1 DEF LeaseInv, GoneInv, Gone
<1>3. ASSUME NEW s \in Slaves PROVE ClockInv(s)' /\ NoticeInv(s)'
  <2>1. CASE Gone
    BY <1>3, <2>1, FrameStep DEF LeaseInv, Gone
  <2>2. CASE ~Gone
    <3>1. goneAt' = now /\ ClockInv(s)
      BY <1>3, <2>2 DEF Gone, LeaseInv
    <3>2. ClockInv(s)'
      BY <3>1 DEF ClockInv, SlaveCronLive
    <3>3. SlaveCronLive(s) => GoneFor(s)' = now
      BY <1>1, <3>1 DEF GoneFor, ClockInv
    <3>4. NoticeInv(s)'
      BY <1>1, <3>1, <3>3 DEF NoticeInv, IsAlive, ClockInv, SlaveCronLive
    <3>5. QED BY <3>2, <3>4
  <2>3. QED BY <2>1, <2>2
<1>4. QED BY <1>2, <1>3 DEF LeaseInv

\* Every step keeps the invariant of the lease.
LEMMA LeaseStep == TypeOK /\ LeaseInv /\ [Next]_vars => LeaseInv'
<1> SUFFICES ASSUME TypeOK, LeaseInv, [Next]_vars PROVE LeaseInv'
  OBVIOUS
<1>0. /\ now \in Nat /\ goneAt \in Times /\ slave \in [Slaves -> SlaveState]
      /\ replies \in [Slaves -> SUBSET Answers]
  BY DEF TypeOK
<1>1. ASSUME UNCHANGED <<now, slave, replies, goneAt, up, topic>> PROVE LeaseInv'
  <2>1. GoneInv'
    BY <1>1 DEF LeaseInv, GoneInv, Gone
  <2>2. QED BY <1>1, <2>1, FrameStep DEF LeaseInv
<1>2. CASE UNCHANGED vars \/ UpdateDead \/ UpdateFetch \/ UpdateJudge
           \/ Close \/ CloseClaim \/ MasterCronStops
  BY <1>1, <1>2 DEF vars, MasterCronStops, UpdateDead, UpdateFetch, UpdateJudge, Close,
                    CloseClaim, master, net, ghost
<1>3. CASE UpdateErase \/ CloseErase
  BY <1>3, EndStep DEF UpdateErase, CloseErase, close_connection, net
<1>4. CASE MasterCrash
  BY <1>4, EndStep DEF MasterCrash, net
<1>5. CASE Tick
  <2>1. /\ now' = now + 1 /\ UNCHANGED <<slave, replies, goneAt, up, topic>>
        /\ \A s \in Slaves : SlaveCronLive(s) => now - slave[s].last < CronLag
    BY <1>5 DEF Tick, master, net, ghost
  <2>2. GoneInv'
    BY <1>0, <2>1 DEF LeaseInv, GoneInv, Gone
  <2>3. ASSUME NEW s \in Slaves PROVE ClockInv(s)' /\ NoticeInv(s)'
    <3>1. ClockInv(s) /\ NoticeInv(s)
      BY <2>3 DEF LeaseInv
    <3>2. NoticeInv(s)'
      BY <2>1, <3>1 DEF NoticeInv, IsAlive, GoneFor, Gone
    <3>3. slave[s].updated \in Int
      BY <1>0, <2>3 DEF SlaveState, Times, Never
    <3>4. ClockInv(s)'
      BY <1>0, <2>1, <3>1, <3>3 DEF ClockInv, SlaveCronLive
    <3>5. QED BY <3>2, <3>4
  <2>4. QED BY <2>2, <2>3 DEF LeaseInv
<1>6. ASSUME NEW s \in Slaves, SlaveStep(s) PROVE LeaseInv'
  <2>1. /\ UNCHANGED <<now, goneAt, up, topic>>
        /\ \A t \in Slaves : t # s => slave'[t] = slave[t] /\ replies'[t] = replies[t]
    BY <1>0, <1>6 DEF SlaveStep, SlaveOpen, SlaveClose, SlaveCronStops, SlaveUpdateDead,
       SlaveUpdateAnswered, SlaveUpdatePending, SlaveUpdateExpired,
       SlaveUpdatePing, SlaveUpdatePingThrows, master, net, ghost
  <2>2. GoneInv'
    BY <2>1 DEF LeaseInv, GoneInv, Gone
  <2>3. ClockInv(s) /\ NoticeInv(s) /\ GoneInv
    BY DEF LeaseInv
  <2>4. ASSUME SlaveOpen(s) PROVE ClockInv(s)' /\ NoticeInv(s)'
    <3>1. slave'[s] = [slave[s] EXCEPT !.open = TRUE, !.alive = TRUE,
                                       !.openedAt = now, !.last = now]
      BY <1>0, <2>4 DEF SlaveOpen
    <3>2. /\ slave'[s].open /\ slave'[s].alive /\ slave'[s].openedAt = now
          /\ slave'[s].last = now /\ slave'[s].promise = slave[s].promise
          /\ slave'[s].updated = slave[s].updated
          /\ slave'[s].job = slave[s].job /\ slave'[s].closed = slave[s].closed
      BY <1>0, <3>1 DEF SlaveState
    <3>3. slave[s].promise = "none"
      BY <2>3, <2>4 DEF ClockInv, SlaveOpen
    <3>4. ClockInv(s)'
      BY <1>0, <2>1, <2>3, <3>2, <3>3 DEF ClockInv, SlaveCronLive
    <3>5. Gone => GoneFor(s)' >= now
      BY <1>0, <2>1, <2>3, <3>2 DEF GoneFor, GoneInv
    <3>6. NoticeInv(s)'
      BY <2>1, <3>2, <3>3, <3>5 DEF NoticeInv, Gone
    <3>7. QED BY <3>4, <3>6
  <2>5. ASSUME SlaveClose(s) PROVE ClockInv(s)' /\ NoticeInv(s)'
    <3>1. /\ slave'[s] = [slave[s] EXCEPT !.closed = TRUE]
          /\ replies' = replies
      BY <1>0, <2>5 DEF SlaveClose, net
    <3>2. /\ slave'[s].open = slave[s].open /\ slave'[s].alive = slave[s].alive
          /\ slave'[s].openedAt = slave[s].openedAt /\ slave'[s].closed
          /\ slave'[s].last = slave[s].last /\ slave'[s].since = slave[s].since
          /\ slave'[s].promise = slave[s].promise
          /\ slave'[s].pinged = slave[s].pinged
          /\ slave'[s].updated = slave[s].updated
          /\ slave'[s].job = slave[s].job
      BY <1>0, <3>1 DEF SlaveState
    <3>3. ClockInv(s)'
      BY <2>1, <2>3, <2>5, <3>2 DEF ClockInv, SlaveCronLive, SlaveClose
    <3>4. NoticeInv(s)'
      BY <2>1, <2>3, <3>1, <3>2 DEF NoticeInv, Gone, IsAlive
    <3>5. QED BY <3>3, <3>4
  <2>6. ASSUME SlaveCronStops(s) PROVE ClockInv(s)' /\ NoticeInv(s)'
    <3>1. slave'[s] = [NewSlave EXCEPT !.open = TRUE, !.closed = TRUE, !.job = "left"]
      BY <1>0, <2>6 DEF SlaveCronStops
    <3>2. /\ slave'[s].closed /\ slave'[s].job = "left" /\ ~slave'[s].alive
          /\ slave'[s].updated = -1 /\ slave'[s].promise = "none"
      BY <3>1 DEF NewSlave, Never
    <3>3. QED BY <1>0, <2>1, <3>2 DEF ClockInv, NoticeInv, IsAlive, SlaveCronLive
  <2>7. ClockInv(s)' /\ NoticeInv(s)'
    BY <1>6, <2>3, <2>4, <2>5, <2>6, RunStep DEF SlaveStep
  <2>8. ASSUME NEW t \in Slaves, t # s PROVE ClockInv(t)' /\ NoticeInv(t)'
    BY <2>1, <2>8, FrameStep DEF LeaseInv
  <2>9. QED BY <2>2, <2>7, <2>8 DEF LeaseInv
<1>7. ASSUME NEW s \in Slaves, HandlePing(s) \/ Lose(s) PROVE LeaseInv'
  <2>1. UNCHANGED <<now, slave, goneAt, up, topic>>
    BY <1>7 DEF HandlePing, Lose, master, ghost
  <2>2. GoneInv'
    BY <2>1 DEF LeaseInv, GoneInv, Gone
  <2>3. \A t \in Slaves : Gone /\ "ok" \in replies'[t] => "ok" \in replies[t]
    <3>1. CASE Lose(s)
      BY <1>0, <3>1 DEF Lose
    <3>2. CASE HandlePing(s)
      <4>1. Gone => PingAnswer(s) # "ok"
        BY <3>2 DEF LeaseInv, GoneInv, HandlePing, PingAnswer
      <4>2. QED BY <1>0, <3>2, <4>1 DEF HandlePing
    <3>3. QED BY <1>7, <3>1, <3>2
  <2>4. ASSUME NEW t \in Slaves PROVE ClockInv(t)' /\ NoticeInv(t)'
    <3>1. ClockInv(t) /\ NoticeInv(t)
      BY <2>4 DEF LeaseInv
    <3>2. ClockInv(t)'
      BY <2>1, <3>1 DEF ClockInv, SlaveCronLive
    <3>3. NoticeInv(t)'
      BY <2>1, <2>3, <2>4, <3>1 DEF NoticeInv, IsAlive, GoneFor, Gone
    <3>4. QED BY <3>2, <3>3
  <2>5. QED BY <2>2, <2>4 DEF LeaseInv
<1>8. ASSUME NEW s \in Slaves, Reply(s) \/ ReplyError(s) PROVE LeaseInv'
  <2>1. UNCHANGED <<now, goneAt, up, topic>> /\ slave[s].promise = "pending"
    BY <1>8 DEF Reply, ReplyError, master, ghost
  <2>2. GoneInv'
    BY <2>1 DEF LeaseInv, GoneInv, Gone
  <2>3. PICK p \in {"error"} \cup replies[s] : slave' = [slave EXCEPT ![s].promise = p]
    BY <1>8 DEF Reply, ReplyError
  <2>4. \A t \in Slaves : replies'[t] \subseteq replies[t]
    BY <1>0, <1>8 DEF Reply, ReplyError, net
  <2>5. p # "none" /\ p # "pending"
    BY <1>0 DEF Answers
  <2>6. slave'[s] = [slave[s] EXCEPT !.promise = p]
    BY <1>0, <2>3
  <2>7. /\ slave'[s].open = slave[s].open /\ slave'[s].alive = slave[s].alive
        /\ slave'[s].openedAt = slave[s].openedAt
        /\ slave'[s].closed = slave[s].closed
        /\ slave'[s].last = slave[s].last /\ slave'[s].since = slave[s].since
        /\ slave'[s].promise = p /\ slave'[s].pinged = slave[s].pinged
        /\ slave'[s].updated = slave[s].updated /\ slave'[s].job = slave[s].job
    BY <1>0, <2>6 DEF SlaveState
  <2>8. ClockInv(s) /\ NoticeInv(s)
    BY DEF LeaseInv
  <2>9. ClockInv(s)'
    BY <2>1, <2>7, <2>8 DEF ClockInv, SlaveCronLive
  <2>10. NoticeInv(s)'
    BY <2>1, <2>5, <2>7, <2>8 DEF NoticeInv, IsAlive, GoneFor, Gone
  <2>11. ASSUME NEW t \in Slaves, t # s PROVE ClockInv(t)' /\ NoticeInv(t)'
    <3>1. slave'[t] = slave[t]
      BY <1>0, <2>3, <2>11
    <3>2. QED BY <2>1, <2>4, <2>11, <3>1, FrameStep DEF LeaseInv
  <2>12. QED BY <2>2, <2>9, <2>10, <2>11 DEF LeaseInv
<1>9. QED BY <1>2, <1>3, <1>4, <1>5, <1>6, <1>7, <1>8 DEF Next, MasterStep, NetStep

\* The invariant gives the bound.
LEMMA LeaseBound == TypeOK /\ LeaseInv => SlaveNoticesInTime
<1> SUFFICES ASSUME TypeOK, LeaseInv, NEW s \in Slaves, IsAlive(s), goneAt # Never
             PROVE  now <= Bound(s)
  BY DEF SlaveNoticesInTime
<1> DEFINE r == slave[s]
<1>1. ClockInv(s) /\ NoticeInv(s) /\ Gone /\ goneAt \in Nat
  BY DEF LeaseInv, Gone, GoneInv
<1>2. /\ r.open /\ r.last \in Nat /\ r.openedAt \in Nat /\ now \in Nat
      /\ now - r.last <= CronLag
  BY <1>1 DEF ClockInv, SlaveCronLive, IsAlive, TypeOK
<1>3. GoneFor(s) \in Nat
  BY <1>1, <1>2 DEF GoneFor
<1>4. CASE r.promise = "none"
  <2>1. \/ r.last <= GoneFor(s)
        \/ TimeoutDur > 0 /\ r.last <= GoneFor(s) + TimeoutDur - 1 + CronLag
    BY <1>1, <1>4 DEF NoticeInv
  <2>2. QED BY <1>2, <1>3, <2>1 DEF Bound
<1>5. CASE r.promise # "none"
  <2>1. /\ r.pinged <= GoneFor(s) + TimeoutDur - 1 + 2 * CronLag
        /\ r.pinged \in Nat /\ r.last <= r.pinged + TimeoutDur - 1
    BY <1>1, <1>5 DEF NoticeInv, ClockInv
  <2>2. QED BY <1>2, <1>3, <2>1 DEF Bound
<1>6. QED BY <1>4, <1>5

\* For all timeouts and however the network treats the pings: a slave whose
\* cron job runs drops a master that has closed, expired or crashed within two
\* connection timeouts and three runs of the job.
THEOREM NoticesInTime == Spec => []SlaveNoticesInTime
<1>1. Init => LeaseInv
  <2>1. ASSUME Init, NEW s \in Slaves PROVE slave[s] = NewSlave
    BY <2>1 DEF Init
  <2>2. /\ ~NewSlave.open /\ ~NewSlave.alive /\ NewSlave.promise = "none"
        /\ NewSlave.updated = -1 /\ NewSlave.job = "idle"
    BY DEF NewSlave, Never
  <2>3. ASSUME Init, NEW s \in Slaves PROVE ClockInv(s) /\ NoticeInv(s)
    <3>1. slave[s] = NewSlave /\ now = 0 /\ goneAt = Never
      BY <2>1, <2>3 DEF Init
    <3>2. QED BY <2>2, <3>1 DEF ClockInv, NoticeInv, SlaveCronLive, Gone
  <2>4. Init => GoneInv
    BY DEF Init, GoneInv, Gone
  <2>5. QED BY <2>3, <2>4 DEF LeaseInv
<1>2. QED BY <1>1, LeaseStep, LeaseBound, TypeCorrect, PTL DEF Spec

-----------------------------------------------------------------------------
(* No false alarms in the normal case.                                     *)

(***************************************************************************)
(* The settings that tolerate late cron jobs.  A slave pings in every      *)
(* second run of its job, the last ping the master has seen is therefore   *)
(* two runs old at most when update() copies the topic, and update() may   *)
(* take the rest of a run to judge the copy.  The first copy is made no    *)
(* sooner than CronDur, and every slave has pinged within one run.         *)
(***************************************************************************)
Tolerant == /\ Reliable
            /\ Cardinality(Slaves) >= SlaveCount
            /\ TimeoutDur > 3 * CronLag - CronDur
            /\ BrokeDur > 2 * (CronLag - CronDur)

\* The states NoFalseAlarm is about; no step enters them again.
Normal == closing = "open" /\ (\A s \in Slaves : ~slave[s].closed) /\ now < AbsDur

Full == Cardinality(Known(when)) = SlaveCount

\* The master is alive, and a copy of the topic that waits to be judged is
\* recent and, but for the first runs, complete.
MasterWell ==
  /\ up /\ mAlive /\ ~disposed /\ topic
  /\ mUpd \in {"idle", "fetched"}
  /\ mLast <= now /\ now <= mLast + CronLag
  /\ firstAt # Never => firstAt >= CronDur
  /\ mUpd = "fetched" =>
       /\ firstAt # Never
       /\ \A s \in Known(mCopy) : mCopy[s] + 2 * CronLag >= mLast + CronDur
       /\ Cardinality(Known(mCopy)) = SlaveCount \/ mLast + CronDur <= CronLag

\* Where a slave r is with its pings: w is its last ping that was handled, f its
\* requests and a the answers on the wire.  It is not open yet, or is alive and
\* has not run yet; its ping is on the way, or handled, or answered; its ping
\* has been answered and the next one is not sent; it was turned away.
Unopened(r, w, f, a) == /\ ~r.open /\ r.promise = "none" /\ r.updated = Never /\ r.job = "idle"
                        /\ now = 0 /\ w = Never /\ f = {} /\ a = {}
Unrun(r, w, f, a)    == /\ r.alive /\ r.promise = "none" /\ r.updated = Never /\ r.last = 0
                        /\ w = Never /\ f = {} /\ a = {}
Sent(r, w, f, a)     == /\ r.alive /\ r.promise = "pending" /\ r.updated # Never /\ r.since # Never
                        /\ r.pinged = now /\ r.last = now /\ f = {"cur"} /\ a = {}
                        /\ IF w = Never THEN now <= CronLag \/ Full ELSE now <= w + 2 * CronLag
Handled(r, w, f, a)  == /\ r.alive /\ r.promise = "pending" /\ r.updated # Never /\ r.since # Never
                        /\ r.pinged = now /\ r.last = now /\ f = {}
                        /\ \/ a = {"ok"} /\ w = now
                           \/ a = {"overflow"} /\ w = Never /\ Full
Answered(r, w, f, a) == /\ r.alive /\ r.updated # Never /\ r.since # Never /\ f = {} /\ a = {}
                        /\ \/ r.promise = "ok" /\ w = r.last
                           \/ r.promise = "overflow" /\ w = Never /\ Full
Settled(r, w, f, a)  == /\ r.alive /\ r.promise = "none" /\ r.updated = r.last /\ r.since # Never
                        /\ f = {} /\ a = {} /\ w # Never /\ r.last <= w + CronLag
Refused(r, w, f, a)  == /\ ~r.alive /\ r.promise = "none" /\ f = {} /\ a = {}
                        /\ w = Never /\ Full

SlaveWell(r, w, f, a) ==
  /\ w <= now
  /\ \/ Unopened(r, w, f, a)
     \/ /\ r.open /\ r.job = "idle" /\ r.last \in Nat /\ r.last <= now /\ now <= r.last + CronLag
        /\ \/ Unrun(r, w, f, a)    \/ Sent(r, w, f, a)    \/ Handled(r, w, f, a)
           \/ Answered(r, w, f, a) \/ Settled(r, w, f, a) \/ Refused(r, w, f, a)

Well(s) == SlaveWell(slave[s], when[s], flight[s], replies[s])
AllWell == \A s \in Slaves : Well(s)

AlarmInv == Normal => MasterWell /\ AllWell

\* The fields of a slave have their types.
LEMMA SlaveTypes ==
  ASSUME TypeOK, NEW s \in Slaves
  PROVE  /\ slave[s] \in SlaveState /\ now \in Nat
         /\ slave[s].last \in Times /\ slave[s].updated \in Times /\ slave[s].since \in Times
         /\ slave[s].pinged \in Times /\ slave[s].open \in BOOLEAN /\ slave[s].alive \in BOOLEAN
         /\ slave[s].closed \in BOOLEAN
         /\ when[s] \in Times /\ mCopy[s] \in Times
  <1>1. slave[s] \in SlaveState /\ now \in Nat /\ when[s] \in Times /\ mCopy[s] \in Times
    BY DEF TypeOK
  <1> QED
    BY <1>1 DEF SlaveState

\* What a run of the job of a slave that is not closed begins with.
LEMMA BegunNormal ==
  ASSUME TypeOK, NEW s \in Slaves, ~slave[s].closed
  PROVE  /\ Begun(s) \in SlaveState
         /\ Begun(s).open = slave[s].open /\ Begun(s).alive = slave[s].alive
         /\ Begun(s).promise = slave[s].promise /\ Begun(s).pinged = slave[s].pinged
         /\ Begun(s).last = now /\ Begun(s).job = "idle"
         /\ IF slave[s].alive /\ slave[s].updated = Never
              THEN Begun(s).updated = now /\ Begun(s).since = now
              ELSE Begun(s).updated = slave[s].updated /\ Begun(s).since = slave[s].since
  <1> DEFINE r == [slave[s] EXCEPT !.last = now, !.job = "idle"]
  <1>1. slave[s] \in SlaveState /\ now \in Times
    BY DEF TypeOK, Times
  <1>2. /\ r \in SlaveState
        /\ r.open = slave[s].open /\ r.alive = slave[s].alive /\ r.promise = slave[s].promise
        /\ r.pinged = slave[s].pinged /\ r.last = now /\ r.job = "idle"
        /\ r.updated = slave[s].updated /\ r.since = slave[s].since
    BY <1>1 DEF SlaveState
  <1>3. Begun(s) = IF r.alive /\ r.updated = Never THEN [r EXCEPT !.updated = now, !.since = now]
                                                  ELSE r
    BY DEF Begun
  <1> HIDE DEF r
  <1>4. CASE r.alive /\ r.updated = Never
    <2>1. Begun(s) = [r EXCEPT !.updated = now, !.since = now]
      BY <1>3, <1>4
    <2> QED
      BY <1>1, <1>2, <1>4, <2>1 DEF SlaveState
  <1>5. CASE ~(r.alive /\ r.updated = Never)
    BY <1>2, <1>3, <1>5
  <1> QED
    BY <1>4, <1>5

\* A full room stays full: the pings of those inside are taken, the others are
\* turned away.
LEMMA FullStays ==
  ASSUME TypeOK, NEW s \in Slaves, HandlePing(s), Full
  PROVE  Full'
  <1>1. CASE PingAnswer(s) # "ok"
    BY <1>1 DEF HandlePing, Full, Known
  <1>2. CASE PingAnswer(s) = "ok"
    <2>1. when' = [when EXCEPT ![s] = now] /\ s \in Known(when)
      BY <1>2 DEF HandlePing, PingAnswer, Full
    <2>2. Known(when') = Known(when)
      BY <2>1 DEF Known, TypeOK, Never
    <2> QED
      BY <2>2 DEF Full, Known
  <1> QED
    BY <1>1, <1>2

\* Within one run of the cron jobs every slave has pinged and the room is full.
LEMMA FullSoon ==
  ASSUME TypeOK, Tolerant, RoomBounded, AllWell
  PROVE  Full \/ now <= CronLag
  <1> SUFFICES ASSUME ~Full PROVE now <= CronLag
    OBVIOUS
  <1>1. IsFiniteSet(Slaves) /\ Cardinality(Slaves) \in Nat /\ Cardinality(Slaves) >= SlaveCount
    BY SlavesAssumption, FS_CardinalityType DEF Tolerant
  <1>2. Known(when) # Slaves
    BY <1>1 DEF RoomBounded, Full
  <1>3. PICK s \in Slaves : when[s] = Never
    BY <1>2 DEF Known
  <1>4. now \in Nat
    BY DEF TypeOK
  <1>5. SlaveWell(slave[s], when[s], flight[s], replies[s])
    BY DEF AllWell, Well
  <1> QED
    BY <1>3, <1>4, <1>5 DEF SlaveWell, Unopened, Unrun, Sent, Handled, Answered, Settled, Refused, Never

\* A slave no step has touched stays well.
LEMMA WellFrame ==
  ASSUME NEW s \in Slaves, Well(s), now' = now, Full => Full',
         slave'[s] = slave[s], when'[s] = when[s], flight'[s] = flight[s], replies'[s] = replies[s]
  PROVE  Well(s)'
  BY DEF Well, SlaveWell, Unopened, Unrun, Sent, Handled, Answered, Settled, Refused

\* A slave whose ping was answered in its last run, or that has not run yet, has
\* time for the next ping.
LEMMA NotOver ==
  ASSUME TypeOK, Tolerant, Normal, NEW s \in Slaves, Well(s), SlaveCronRuns(s),
         slave[s].alive, slave[s].promise = "none"
  PROVE  ~LeaseOver(s)
  <1> DEFINE r == slave[s]
             b == Begun(s)
  <1>1. /\ now \in Nat /\ now < AbsDur /\ r.since \in Times /\ r.updated \in Times
        /\ TimeoutDur > CronLag
    BY SlaveTypes DEF Normal, Tolerant
  <1>2. IF r.updated = Never THEN b.updated = now /\ b.since = now
                             ELSE b.updated = r.updated /\ b.since = r.since
    BY BegunNormal DEF Normal
  <1>3. r.updated # Never => /\ r.updated = r.last /\ r.since # Never /\ r.last \in Nat
                             /\ now <= r.last + CronLag
    BY DEF Well, SlaveWell, Unopened, Unrun, Sent, Handled, Answered, Settled, Refused, SlaveCronRuns
  <1> HIDE DEF r, b
  <1>4. CASE r.updated = Never
    BY <1>1, <1>2, <1>4 DEF LeaseOver, b
  <1>5. CASE r.updated # Never
    <2>1. b.updated \in Nat /\ b.since \in Nat /\ now <= b.updated + CronLag
      BY <1>1, <1>2, <1>3, <1>5 DEF Times
    <2> QED
      BY <1>1, <2>1 DEF LeaseOver, b
  <1> QED
    BY <1>4, <1>5

\* A run of the slave's job leaves it well.
LEMMA RunWell ==
  ASSUME TypeOK, Tolerant, Normal, NEW s \in Slaves, Well(s), now' = now, when' = when,
         \/ SlaveUpdateDead(s) \/ SlaveUpdateAnswered(s) \/ SlaveUpdatePending(s)
         \/ SlaveUpdateExpired(s) \/ SlaveUpdatePing(s) \/ SlaveUpdatePingThrows(s)
  PROVE  Well(s)'
  <1> DEFINE r == slave[s]
             q == slave'[s]
             b == Begun(s)
             w == when[s]
             f == flight[s]
             a == replies[s]
  <1>0. /\ slave \in [Slaves -> SlaveState] /\ now \in Nat /\ w \in Times /\ Reliable /\ TimeoutDur > 0
        /\ flight \in [Slaves -> SUBSET {"cur", "old"}] /\ replies \in [Slaves -> SUBSET Answers]
    BY DEF TypeOK, Tolerant
  <1>1. /\ b \in SlaveState
        /\ b.open = r.open /\ b.alive = r.alive /\ b.promise = r.promise /\ b.pinged = r.pinged
        /\ b.last = now /\ b.job = "idle"
        /\ IF r.alive /\ r.updated = Never THEN b.updated = now /\ b.since = now
                                          ELSE b.updated = r.updated /\ b.since = r.since
    BY BegunNormal DEF Normal
  <1>2. r.open /\ SlaveWell(r, w, f, a) /\ (Full => Full') /\ Never = -1
    BY DEF Well, SlaveUpdateDead, SlaveUpdateAnswered, SlaveUpdatePending, SlaveUpdateExpired,
           SlaveUpdatePing, SlaveUpdatePingThrows, SlaveCronRuns, Full, Known, Never
  <1>3. /\ w <= now /\ r.last \in Nat /\ r.last <= now /\ now <= r.last + CronLag
        /\ \/ Unrun(r, w, f, a)    \/ Sent(r, w, f, a)    \/ Handled(r, w, f, a)
           \/ Answered(r, w, f, a) \/ Settled(r, w, f, a) \/ Refused(r, w, f, a)
    BY <1>2 DEF SlaveWell, Unopened
  <1>g. ASSUME q.open, q.job = "idle", q.last = now,
               \/ Sent(slave[s], when[s], flight[s], replies[s])'
               \/ Handled(slave[s], when[s], flight[s], replies[s])'
               \/ Settled(slave[s], when[s], flight[s], replies[s])'
               \/ Refused(slave[s], when[s], flight[s], replies[s])'
        PROVE  Well(s)'
    BY <1>0, <1>3, <1>g DEF Well, SlaveWell
  <1>4. CASE SlaveUpdateDead(s)
    <2>1. q = b /\ ~r.alive /\ flight' = flight /\ replies' = replies
      BY <1>0, <1>4 DEF SlaveUpdateDead, net
    <2>2. Refused(r, w, f, a)
      BY <1>3, <2>1 DEF Unrun, Sent, Handled, Answered, Settled
    <2>3. Refused(slave[s], when[s], flight[s], replies[s])'
      BY <1>1, <1>2, <2>1, <2>2 DEF Refused
    <2> QED
      BY <1>1, <1>2, <2>1, <2>3, <1>g
  <1>5. CASE SlaveUpdateAnswered(s)
    <2>1. /\ q = IF r.promise = "ok"
                   THEN [b EXCEPT !.promise = "none", !.pinged = Never, !.updated = now]
                   ELSE Dropped(s)
          /\ r.alive /\ r.promise \in Answers \cup {"error"} /\ flight' = flight /\ replies' = replies
      BY <1>0, <1>5 DEF SlaveUpdateAnswered, net
    <2>2. Answered(r, w, f, a)
      BY <1>3, <2>1 DEF Unrun, Sent, Handled, Refused, Settled, Answers
    <2>3. CASE r.promise = "ok"
      <3>1. /\ q.open = b.open /\ q.alive = b.alive /\ q.promise = "none" /\ q.updated = now
            /\ q.since = b.since /\ q.last = b.last /\ q.job = b.job
        BY <1>1, <2>1, <2>3 DEF SlaveState
      <3>2. w = r.last /\ b.since # Never /\ f = {} /\ a = {} /\ w # Never
        BY <1>0, <1>1, <1>2, <1>3, <2>2, <2>3 DEF Answered
      <3>3. Settled(slave[s], when[s], flight[s], replies[s])'
        BY <1>0, <1>1, <1>3, <2>1, <3>1, <3>2 DEF Settled
      <3> QED
        BY <1>1, <1>2, <3>1, <3>3, <1>g
    <2>4. CASE r.promise # "ok"
      <3>1. q = [b EXCEPT !.alive = FALSE, !.promise = "none", !.pinged = Never]
        BY <2>1, <2>4 DEF Dropped
      <3>2. /\ q.open = b.open /\ q.alive = FALSE /\ q.promise = "none"
            /\ q.last = b.last /\ q.job = b.job
        BY <1>1, <3>1 DEF SlaveState
      <3>3. w = Never /\ Full /\ f = {} /\ a = {}
        BY <2>2, <2>4 DEF Answered
      <3>4. Refused(slave[s], when[s], flight[s], replies[s])'
        BY <1>1, <1>2, <2>1, <3>2, <3>3 DEF Refused
      <3> QED
        BY <1>1, <1>2, <3>2, <3>4, <1>g
    <2> QED
      BY <2>3, <2>4
  <1>6. CASE SlaveUpdatePending(s)
    <2>1. /\ q = IF now - r.pinged < TimeoutDur THEN [b EXCEPT !.updated = now] ELSE Dropped(s)
          /\ r.alive /\ r.promise = "pending" /\ flight' = flight /\ replies' = replies
      BY <1>0, <1>6 DEF SlaveUpdatePending, net
    <2>2. r.pinged = now /\ (Sent(r, w, f, a) \/ Handled(r, w, f, a))
      BY <1>3, <2>1 DEF Unrun, Sent, Handled, Answered, Refused, Settled
    <2>3. q = [b EXCEPT !.updated = now]
      BY <1>0, <2>1, <2>2
    <2>4. /\ q.open = b.open /\ q.alive = b.alive /\ q.promise = b.promise /\ q.updated = now
          /\ q.since = b.since /\ q.last = b.last /\ q.job = b.job /\ q.pinged = b.pinged
      BY <1>1, <2>3 DEF SlaveState
    <2>5. b.since # Never
      BY <1>0, <1>1, <1>2, <2>2 DEF Sent, Handled
    <2>6. now # Never
      BY <1>0, <1>2
    <2>7. CASE Sent(r, w, f, a)
      <3>1. Sent(slave[s], when[s], flight[s], replies[s])'
        BY <1>0, <1>1, <1>2, <2>1, <2>2, <2>4, <2>5, <2>6, <2>7 DEF Sent
      <3> QED
        BY <1>1, <1>2, <2>4, <3>1, <1>g
    <2>8. CASE Handled(r, w, f, a)
      <3>1. Handled(slave[s], when[s], flight[s], replies[s])'
        BY <1>0, <1>1, <1>2, <2>1, <2>2, <2>4, <2>5, <2>6, <2>8 DEF Handled
      <3> QED
        BY <1>1, <1>2, <2>4, <3>1, <1>g
    <2> QED
      BY <2>2, <2>7, <2>8
  <1>7. CASE SlaveUpdatePing(s)
    <2>1. /\ q = [b EXCEPT !.promise = "pending", !.pinged = now]
          /\ flight'[s] = IF f = {} THEN {"cur"} ELSE {"cur", "old"}
          /\ replies'[s] = {} /\ r.alive /\ r.promise = "none"
      BY <1>0, <1>7 DEF SlaveUpdatePing
    <2>2. /\ q.open = b.open /\ q.alive = b.alive /\ q.promise = "pending" /\ q.updated = b.updated
          /\ q.since = b.since /\ q.last = b.last /\ q.job = b.job /\ q.pinged = now
      BY <1>1, <2>1 DEF SlaveState
    <2>3. Unrun(r, w, f, a) \/ Settled(r, w, f, a)
      BY <1>3, <2>1 DEF Sent, Handled, Answered, Refused
    <2>4. f = {} /\ b.updated # Never /\ b.since # Never
      BY <1>0, <1>1, <1>2, <1>3, <2>1, <2>3 DEF Unrun, Settled
    <2>5. IF w = Never THEN now <= CronLag ELSE now <= w + 2 * CronLag
      BY <1>0, <1>2, <1>3, <2>3 DEF Unrun, Settled, Times
    <2>6. flight'[s] = {"cur"}
      BY <2>1, <2>4
    <2>7. Sent(slave[s], when[s], flight[s], replies[s])'
      BY <1>0, <1>1, <1>2, <2>1, <2>2, <2>4, <2>5, <2>6 DEF Sent
    <2> QED
      BY <1>1, <1>2, <2>2, <2>7, <1>g
  <1>8. CASE SlaveUpdateExpired(s)
    BY <1>8, NotOver DEF SlaveUpdateExpired
  <1>9. CASE SlaveUpdatePingThrows(s)
    BY <1>0, <1>9 DEF SlaveUpdatePingThrows
  <1> QED
    BY <1>4, <1>5, <1>6, <1>7, <1>8, <1>9

\* The constructor of a slave leaves it well.
LEMMA OpenWell ==
  ASSUME TypeOK, NEW s \in Slaves, Well(s), SlaveOpen(s)
  PROVE  Well(s)'
  <1>1. /\ slave'[s] = [slave[s] EXCEPT !.open = TRUE, !.alive = TRUE, !.openedAt = now, !.last = now]
        /\ UNCHANGED <<now, when, flight, replies>>
    BY DEF SlaveOpen, TypeOK, master, net
  <1>2. slave[s] \in SlaveState /\ Unopened(slave[s], when[s], flight[s], replies[s])
    BY DEF SlaveOpen, Well, SlaveWell, TypeOK
  <1>3. /\ slave'[s].open /\ slave'[s].alive /\ slave'[s].last = now
        /\ slave'[s].promise = slave[s].promise /\ slave'[s].updated = slave[s].updated
        /\ slave'[s].job = slave[s].job
    BY <1>1, <1>2 DEF SlaveState
  <1>4. Unrun(slave[s], when[s], flight[s], replies[s])'
    BY <1>1, <1>2, <1>3 DEF Unrun, Unopened
  <1> QED
    BY <1>1, <1>2, <1>3, <1>4 DEF Well, SlaveWell, Unopened, Never

\* A ping that is handled is welcome, or the room is full.
LEMMA HandleWell ==
  ASSUME TypeOK, Reliable, topic, NEW s \in Slaves, Well(s), HandlePing(s)
  PROVE  Well(s)'
  <1>0. /\ when \in [Slaves -> Times] /\ flight \in [Slaves -> SUBSET {"cur", "old"}]
        /\ replies \in [Slaves -> SUBSET Answers] /\ now \in Nat
    BY DEF TypeOK
  <1>1. PICK k \in flight[s] :
          /\ flight' = [flight EXCEPT ![s] = @ \ {k}]
          /\ replies' = [replies EXCEPT ![s] = IF k = "cur" THEN @ \cup {PingAnswer(s)} ELSE @]
    BY DEF HandlePing
  <1>2. /\ when' = IF PingAnswer(s) = "ok" THEN [when EXCEPT ![s] = now] ELSE when
        /\ UNCHANGED <<now, slave>>
    BY DEF HandlePing
  <1>3. /\ Sent(slave[s], when[s], flight[s], replies[s])
        /\ slave[s].open /\ slave[s].job = "idle" /\ slave[s].last = now
    BY <1>1 DEF Well, SlaveWell, Unopened, Unrun, Sent, Handled, Answered, Settled, Refused
  <1>4. flight'[s] = {} /\ replies'[s] = {PingAnswer(s)}
    BY <1>0, <1>1, <1>3 DEF Sent
  <1>5. \/ PingAnswer(s) = "ok" /\ when'[s] = now
        \/ PingAnswer(s) = "overflow" /\ when' = when /\ when[s] = Never /\ Full /\ Full'
    <2>1. \/ PingAnswer(s) = "ok"
          \/ PingAnswer(s) = "overflow" /\ s \notin Known(when) /\ Full
      BY DEF PingAnswer, Full
    <2> QED
      BY <2>1, <1>0, <1>2 DEF Known, Full
  <1>6. Handled(slave[s], when[s], flight[s], replies[s])'
    BY <1>2, <1>3, <1>4, <1>5 DEF Handled, Sent
  <1>7. when'[s] <= now
    BY <1>0, <1>5 DEF Never
  <1> QED
    BY <1>0, <1>2, <1>3, <1>6, <1>7 DEF Well, SlaveWell

\* An answer arrives in the run that sent the ping.
LEMMA ReplyWell ==
  ASSUME TypeOK, NEW s \in Slaves, Well(s), Reply(s)
  PROVE  Well(s)'
  <1>0. slave \in [Slaves -> SlaveState] /\ replies \in [Slaves -> SUBSET Answers]
    BY DEF TypeOK
  <1>1. PICK p \in replies[s] : slave' = [slave EXCEPT ![s].promise = p]
    BY DEF Reply
  <1>2. /\ slave[s].promise = "pending" /\ replies'[s] = {} /\ UNCHANGED <<now, when, flight>>
        /\ slave'[s] = [slave[s] EXCEPT !.promise = p] /\ (Full => Full')
    BY <1>0, <1>1 DEF Reply, master, Full, Known
  <1>3. /\ slave'[s].open = slave[s].open /\ slave'[s].alive = slave[s].alive
        /\ slave'[s].last = slave[s].last /\ slave'[s].since = slave[s].since
        /\ slave'[s].promise = p /\ slave'[s].updated = slave[s].updated
        /\ slave'[s].job = slave[s].job
    BY <1>0, <1>2 DEF SlaveState
  <1>4. Handled(slave[s], when[s], flight[s], replies[s])
    BY <1>1, <1>2 DEF Well, SlaveWell, Unopened, Unrun, Sent, Handled, Answered, Settled, Refused
  <1>5. Answered(slave[s], when[s], flight[s], replies[s])'
    BY <1>1, <1>2, <1>3, <1>4 DEF Handled, Answered
  <1> QED
    BY <1>2, <1>3, <1>4, <1>5 DEF Well, SlaveWell, Unopened, Handled

\* Time passes for slaves that are open and whose pings have been answered.
LEMMA TickWell ==
  ASSUME TypeOK, Reliable, Normal, NEW s \in Slaves, Well(s), Tick
  PROVE  Well(s)'
  <1>1. /\ now' = now + 1 /\ UNCHANGED <<slave, when, flight, replies>>
        /\ SlaveCronLive(s) => now - slave[s].last < CronLag
        /\ slave[s].open /\ flight[s] = {} /\ replies[s] = {}
    BY DEF Tick, Prompt, master, net
  <1>2. slave[s].job = "idle" /\ slave[s].last \in Nat /\ slave[s].last <= now
    BY <1>1 DEF Well, SlaveWell, Unopened
  <1>3. now \in Nat /\ now < slave[s].last + CronLag /\ when[s] \in Times /\ when[s] <= now
    BY <1>1, <1>2, SlaveTypes DEF SlaveCronLive, Well, SlaveWell
  <1>4. \/ Unrun(slave[s], when[s], flight[s], replies[s])
        \/ Answered(slave[s], when[s], flight[s], replies[s])
        \/ Settled(slave[s], when[s], flight[s], replies[s])
        \/ Refused(slave[s], when[s], flight[s], replies[s])
    BY <1>1 DEF Well, SlaveWell, Unopened, Sent, Handled
  <1>5. \/ Unrun(slave[s], when[s], flight[s], replies[s])'
        \/ Answered(slave[s], when[s], flight[s], replies[s])'
        \/ Settled(slave[s], when[s], flight[s], replies[s])'
        \/ Refused(slave[s], when[s], flight[s], replies[s])'
    BY <1>1, <1>4 DEF Unrun, Answered, Settled, Refused, Full, Known
  <1>6. when[s] \in Int
    BY <1>3 DEF Times, Never
  <1> QED
    BY <1>1, <1>2, <1>3, <1>5, <1>6 DEF Well, SlaveWell

\* The last ping of a slave the master knows is two runs old at most.
LEMMA Recent ==
  ASSUME TypeOK, NEW s \in Slaves, Well(s), when[s] # Never
  PROVE  now <= when[s] + 2 * CronLag
  <1>1. now \in Nat /\ when[s] \in Nat
    BY SlaveTypes DEF Times
  <1> QED
    BY <1>1 DEF Well, SlaveWell, Unopened, Unrun, Sent, Handled, Answered, Settled, Refused

\* update() copies a topic that is recent and soon complete.
LEMMA FetchWell ==
  ASSUME TypeOK, Tolerant, RoomBounded, MasterWell, AllWell, UpdateFetch
  PROVE  MasterWell'
  <1>1. /\ mCopy' = when /\ mUpd' = "fetched"
        /\ firstAt' = IF firstAt = Never THEN now ELSE firstAt
        /\ UNCHANGED <<now, up, mAlive, disposed, topic, mLast, when>>
        /\ now - mLast >= CronDur
    BY DEF UpdateFetch, MasterWell, MasterCronRuns
  <1>2. now \in Nat /\ mLast \in Nat /\ firstAt \in Times /\ when \in [Slaves -> Times]
    BY DEF TypeOK
  <1>3. firstAt' # Never /\ firstAt' >= CronDur
    BY <1>1, <1>2 DEF MasterWell, Never
  <1>4. ASSUME NEW s \in Known(when) PROVE when[s] + 2 * CronLag >= mLast + CronDur
    <2>1. s \in Slaves /\ when[s] # Never
      BY <1>4 DEF Known
    <2>2. when[s] \in Nat /\ now <= when[s] + 2 * CronLag
      BY <2>1, <1>2, Recent DEF AllWell, Times
    <2> QED
      BY <2>2, <1>1, <1>2
  <1>5. Cardinality(Known(when)) = SlaveCount \/ mLast + CronDur <= CronLag
    BY <1>1, <1>2, FullSoon DEF Full
  <1> QED
    BY <1>1, <1>2, <1>3, <1>4, <1>5 DEF MasterWell, Known

\* It finds nobody silent, nobody missing and the lease not over.
LEMMA JudgeWell ==
  ASSUME TypeOK, Tolerant, Normal, MasterWell, UpdateJudge
  PROVE  MasterWell'
  <1> DEFINE full == Cardinality(Known(mCopy)) = SlaveCount
  <1>1. /\ brokeAt' = IF brokeAt = Never /\ full THEN now ELSE brokeAt
        /\ mAlive' = ~ \/ brokeAt' = Never /\ now - firstAt >= BrokeDur
                       \/ brokeAt' # Never /\ now - brokeAt' >= AbsDur
                       \/ Silent(mCopy)
        /\ mUpd = "fetched" /\ mUpd' = "idle" /\ mLast' = now
        /\ UNCHANGED <<now, up, disposed, topic, firstAt>>
    BY DEF UpdateJudge, Finished, Normal
  <1>2. /\ now \in Nat /\ mLast \in Nat /\ firstAt \in Times /\ brokeAt \in Times
        /\ mCopy \in [Slaves -> Times] /\ now < AbsDur /\ Never = -1
        /\ TimeoutDur > 3 * CronLag - CronDur /\ BrokeDur > 2 * (CronLag - CronDur)
    BY DEF TypeOK, Tolerant, Normal, Never
  <1>3. ~Silent(mCopy)
    <2> SUFFICES ASSUME NEW s \in Known(mCopy) PROVE now - mCopy[s] < TimeoutDur
      BY <1>2 DEF Silent, Known, Times
    <2>1. mCopy[s] \in Nat
      BY <1>2 DEF Known, Times
    <2>2. mCopy[s] + 2 * CronLag >= mLast + CronDur /\ now <= mLast + CronLag
      BY <1>1 DEF MasterWell
    <2> QED
      BY <1>2, <2>1, <2>2
  <1>4. ~(brokeAt' = Never /\ now - firstAt >= BrokeDur)
    <2> SUFFICES ASSUME brokeAt' = Never PROVE now - firstAt < BrokeDur
      BY <1>2 DEF Times
    <2>0. now # Never
      BY <1>2
    <2>1. ~full
      BY <1>1, <2>0
    <2>2. /\ mLast + CronDur <= CronLag /\ firstAt >= CronDur /\ firstAt \in Nat
          /\ now <= mLast + CronLag
      BY <1>1, <1>2, <2>1 DEF MasterWell, Times
    <2> QED
      BY <1>2, <2>2
  <1>5. ~(brokeAt' # Never /\ now - brokeAt' >= AbsDur)
    <2> SUFFICES ASSUME brokeAt' # Never PROVE now - brokeAt' < AbsDur
      BY <1>1, <1>2 DEF Times
    <2>1. brokeAt' \in Nat
      BY <1>1, <1>2 DEF Times
    <2>2. \A b \in Nat : now - b < AbsDur
      BY <1>2
    <2> QED
      BY <2>1, <2>2, Zenon
  <1>6. mAlive' = TRUE
    BY <1>1, <1>3, <1>4, <1>5
  <1> QED
    BY <1>1, <1>2, <1>6 DEF MasterWell

\* Time passes for the master.
LEMMA TickMaster ==
  ASSUME TypeOK, MasterWell, Tick
  PROVE  MasterWell'
  <1>1. now' = now + 1 /\ UNCHANGED master /\ now \in Nat /\ mLast \in Nat /\ now - mLast < CronLag
    BY DEF Tick, TypeOK, MasterWell, MasterCronLive
  <1> QED
    BY <1>1 DEF master, MasterWell, Known

\* Under settings that tolerate late jobs nobody takes a late job for a dead peer.
LEMMA AlarmStep ==
  ASSUME Tolerant, TypeOK, RoomBounded, AlarmInv, [Next]_vars
  PROVE  AlarmInv'
  <1> SUFFICES ASSUME Normal' PROVE MasterWell' /\ AllWell'
    BY DEF AlarmInv
  <1>0. now \in Nat /\ slave \in [Slaves -> SlaveState] /\ Reliable /\ now' \in Nat
    BY TypeStep DEF TypeOK, Tolerant
  <1>k. ASSUME UNCHANGED master, UNCHANGED now, MasterWell PROVE MasterWell'
    BY <1>k DEF master, MasterWell, Known
  <1>w. ASSUME UNCHANGED <<now, slave, when, flight, replies>>, AllWell PROVE AllWell'
    BY <1>w, WellFrame DEF AllWell, Full, Known
  <1>o. ASSUME NEW s \in Slaves, AllWell, now' = now, Full => Full', Well(s)',
               \A t \in Slaves : t # s => /\ slave'[t] = slave[t] /\ when'[t] = when[t]
                                          /\ flight'[t] = flight[t] /\ replies'[t] = replies[t]
        PROVE  AllWell'
    BY <1>o, WellFrame DEF AllWell
  <1>1. CASE UNCHANGED vars
    BY <1>1, <1>k, <1>w DEF vars, master, net, AlarmInv, Normal
  <1>2. CASE Tick
    <2>1. Normal
      BY <1>0, <1>2 DEF Tick, Normal, master
    <2> QED
      BY <1>0, <1>2, <2>1, TickWell, TickMaster DEF AlarmInv, AllWell
  <1>3. CASE MasterStep
    <2>1. Normal /\ slave' = slave /\ now' = now /\ flight' = flight /\ replies' = replies
      BY <1>0, <1>3 DEF MasterStep, MasterCronStops, UpdateDead, UpdateErase, UpdateFetch, UpdateJudge,
                        Close, CloseClaim, CloseErase, MasterCrash, Normal, net
    <2>2. MasterWell /\ AllWell
      BY <2>1 DEF AlarmInv
    <2>3. UpdateFetch \/ UpdateJudge
      BY <1>0, <1>3, <2>1, <2>2 DEF MasterStep, MasterCronStops, UpdateDead, UpdateErase,
           Close, CloseClaim, CloseErase, MasterCrash, Normal, MasterWell
    <2>4. when' = when
      BY <2>3 DEF UpdateFetch, UpdateJudge
    <2> QED
      BY <1>w, <2>1, <2>2, <2>3, <2>4, FetchWell, JudgeWell
  <1>4. ASSUME NEW s \in Slaves, SlaveStep(s) PROVE MasterWell' /\ AllWell'
    <2>1. /\ UNCHANGED <<now, master>> /\ UNCHANGED <<when, closing>>
          /\ \A t \in Slaves : t # s => /\ slave'[t] = slave[t] /\ flight'[t] = flight[t]
                                        /\ replies'[t] = replies[t]
      BY <1>0, <1>4 DEF SlaveStep, SlaveOpen, SlaveClose, SlaveCronStops, SlaveUpdateDead,
         SlaveUpdateAnswered, SlaveUpdatePending, SlaveUpdateExpired, TypeOK,
         SlaveUpdatePing, SlaveUpdatePingThrows, master, net
    <2>2. ~SlaveClose(s) /\ ~SlaveCronStops(s) /\ ~slave'[s].closed
      <3>1. ~slave'[s].closed
        BY DEF Normal
      <3>2. SlaveClose(s) => slave'[s].closed
        BY <1>0 DEF SlaveClose, SlaveState
      <3>3. SlaveCronStops(s) => slave'[s].closed
        BY <1>0 DEF SlaveCronStops, NewSlave
      <3> QED
        BY <3>1, <3>2, <3>3
    <2>3. slave[s].closed => slave'[s].closed
      <3>1. CASE SlaveOpen(s)
        BY <1>0, <3>1 DEF SlaveOpen, SlaveState
      <3>2. Begun(s).closed = slave[s].closed /\ Begun(s) \in SlaveState
        BY BegunFields, BegunType
      <3>3. Dropped(s).closed = slave[s].closed
        BY <3>2 DEF Dropped, SlaveState
      <3>4. CASE SlaveUpdateDead(s) \/ SlaveUpdateExpired(s) \/ SlaveUpdatePingThrows(s)
        BY <1>0, <3>2, <3>3, <3>4 DEF SlaveUpdateDead, SlaveUpdateExpired, SlaveUpdatePingThrows
      <3>5. CASE SlaveUpdateAnswered(s)
        BY <1>0, <3>2, <3>3, <3>5 DEF SlaveUpdateAnswered, SlaveState
      <3>6. CASE SlaveUpdatePending(s)
        BY <1>0, <3>2, <3>3, <3>6 DEF SlaveUpdatePending, SlaveState
      <3>7. CASE SlaveUpdatePing(s)
        BY <1>0, <3>2, <3>7 DEF SlaveUpdatePing, SlaveState
      <3> QED
        BY <1>4, <2>2, <3>1, <3>4, <3>5, <3>6, <3>7 DEF SlaveStep
    <2>4. Normal
      BY <2>1, <2>2, <2>3 DEF Normal
    <2>5. MasterWell /\ AllWell /\ Well(s)
      BY <2>4 DEF AlarmInv, AllWell
    <2>6. Well(s)'
      BY <1>4, <2>1, <2>2, <2>4, <2>5, RunWell, OpenWell DEF SlaveStep
    <2>7. Full => Full'
      BY <2>1 DEF Full, Known
    <2> QED
      BY <1>k, <1>o, <2>1, <2>5, <2>6, <2>7
  <1>5. ASSUME NEW s \in Slaves, NetStep(s) PROVE MasterWell' /\ AllWell'
    <2>1. CASE HandlePing(s)
      <3>1. UNCHANGED <<now, slave, closing, up, mAlive, disposed, topic, mUpd, mLast, firstAt, mCopy>>
        BY <2>1 DEF HandlePing
      <3>2. MasterWell /\ AllWell
        BY <3>1 DEF AlarmInv, Normal
      <3>3. MasterWell'
        BY <3>1, <3>2 DEF MasterWell, Known
      <3>4. Well(s)' /\ (Full => Full')
        BY <1>0, <2>1, <3>2, HandleWell, FullStays DEF MasterWell, AllWell
      <3>5. \A t \in Slaves : t # s => /\ slave'[t] = slave[t] /\ when'[t] = when[t]
                                       /\ flight'[t] = flight[t] /\ replies'[t] = replies[t]
        BY <2>1, <3>1 DEF HandlePing, TypeOK
      <3> QED
        BY <1>o, <3>1, <3>2, <3>3, <3>4, <3>5
    <2>2. CASE Reply(s)
      <3>1. /\ UNCHANGED <<now, master>> /\ UNCHANGED <<closing, when, flight>>
            /\ \A t \in Slaves : t # s => slave'[t] = slave[t] /\ replies'[t] = replies[t]
        BY <1>0, <2>2 DEF Reply, master, TypeOK
      <3>2. \A t \in Slaves : slave'[t].closed = slave[t].closed
        <4>1. \E p \in replies[s] : slave'[s] = [slave[s] EXCEPT !.promise = p]
          BY <1>0, <2>2 DEF Reply
        <4>2. slave'[s].closed = slave[s].closed
          BY <1>0, <4>1 DEF SlaveState
        <4> QED
          BY <3>1, <4>2
      <3>3. MasterWell /\ AllWell
        BY <3>1, <3>2 DEF AlarmInv, Normal
      <3>4. Well(s)' /\ (Full => Full')
        BY <2>2, <3>1, <3>3, ReplyWell DEF AllWell, Full, Known
      <3> QED
        BY <1>k, <1>o, <3>1, <3>3, <3>4
    <2>3. CASE ReplyError(s) \/ Lose(s)
      BY <1>0, <2>3 DEF ReplyError, Lose
    <2> QED
      BY <1>5, <2>1, <2>2, <2>3 DEF NetStep
  <1> QED
    BY <1>1, <1>2, <1>3, <1>4, <1>5 DEF Next

\* Under settings that tolerate late cron jobs (a connection timeout of more than
\* three runs of a job less its period, a broke timeout of more than twice the
\* lateness of a job), with as many slaves as the master waits for and a network
\* that delivers, no lease ends before its time, whatever the timings are.
THEOREM NoFalseAlarms == Tolerant => (Spec => []NoFalseAlarm)
  <1> SUFFICES ASSUME Tolerant PROVE Spec => []NoFalseAlarm
    OBVIOUS
  <1>1. Init => AlarmInv
    <2> SUFFICES ASSUME Init, Normal PROVE MasterWell /\ AllWell
      BY DEF AlarmInv
    <2>1. MasterWell
      BY DEF Init, MasterWell, Never
    <2>2. ASSUME NEW s \in Slaves PROVE Well(s)
      <3>1. slave[s] = NewSlave /\ now = 0 /\ when[s] = Never /\ flight[s] = {} /\ replies[s] = {}
        BY DEF Init, Nobody
      <3> QED
        BY <3>1 DEF Well, SlaveWell, Unopened, NewSlave, Never
    <2> QED
      BY <2>1, <2>2 DEF AllWell
  <1>2. AlarmInv /\ TypeOK => NoFalseAlarm
    <2> SUFFICES ASSUME TypeOK, Normal, MasterWell, AllWell
                 PROVE  /\ MasterIsAlive
                        /\ \A s \in Slaves : slave[s].open =>
                             \/ IsAlive(s)
                             \/ s \notin Known(when) /\ Cardinality(Known(when)) = SlaveCount
      BY DEF AlarmInv, NoFalseAlarm, Normal
    <2>1. MasterIsAlive
      BY DEF Normal, MasterWell, MasterIsAlive
    <2>2. ASSUME NEW s \in Slaves, slave[s].open
          PROVE  IsAlive(s) \/ (s \notin Known(when) /\ Cardinality(Known(when)) = SlaveCount)
      <3>1. slave[s].alive \/ (when[s] = Never /\ Full)
        BY <2>2 DEF AllWell, Well, SlaveWell, Unopened, Unrun, Sent, Handled, Answered, Settled, Refused
      <3> QED
        BY <2>2, <3>1 DEF Normal, IsAlive, Known, Full
    <2> QED
      BY <2>1, <2>2
  <1> QED
    BY <1>1, <1>2, AlarmStep, Room, TypeCorrect, PTL DEF Spec
=============================================================================
