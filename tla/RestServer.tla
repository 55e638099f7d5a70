----------------------------- MODULE RestServer -----------------------------
(***************************************************************************)
(* internal_rest, the side that answers: the request resolver of           *)
(* network_rest_frame.h (server_impl1), its response cache, its set of     *)
(* unique writes and its traffic controller.                               *)
(*                                                                         *)
(* An epoch of a worker receives requests and passes them through feeders  *)
(* that are flushed one after the other: cache reads, traffic and unique   *)
(* write checks, handler, cache inserts, responses.  The epochs of two     *)
(* workers interleave: a flush takes the locks of the cache, or of the     *)
(* unique write set, stripe by stripe (the Distributed controllers).  The  *)
(* stripes are one here, and the ids of a flush are taken one by one,      *)
(* which allows every division into stripes and more.  To receive late is  *)
(* to be slow in the mailbox, and so receiving is one step with the cache  *)
(* reads.                                                                  *)
(* Requests that carry an id are to be handled once, however often they    *)
(* are retried: that is what the unique write set is for.                  *)
(***************************************************************************)
EXTENDS CyclicSet

CONSTANTS
  Resolvers,   \* workers that resolve requests
  Ids,         \* designated request ids
  NoId,        \* a request without one
  ConsumeSz,   \* resolve_consume_sz
  CacheCap,    \* capacity of cache_map
  UexCap,      \* capacity of cache_id_set
  ThruCap      \* thru_cap of the traffic controller

ASSUME ServerAssumption ==
  /\ NoId \notin Ids
  /\ {ConsumeSz, CacheCap, UexCap, ThruCap} \subseteq Nat \ {0}

VARIABLES
  open,      \* tickets the clients wait for
  inbox,     \* requests in the mailbox
  answers,   \* responses in the mailbox, as <<ticket, answer>>
  cache,     \* cache_map, oldest first, as <<id, response>>
  uex,       \* cache_id_set, oldest first
  thru_counter,
  job,       \* the epoch of each worker
  runs,      \* how often the handler ran for an id
  forgotten  \* how often an id fell out of cache_id_set

serverVars == <<open, inbox, answers, cache, uex, thru_counter, job, runs, forgotten>>

\* The answers: a Response, by the run of the handler that made it (0: by the
\* filterer that refused the request), or an error.  Which error it is makes no
\* difference to who retries (TrueOnAllRetryExceptionRule).
Resp(v) == <<"response", v>>
Error   == <<"error", 0>>

\* An epoch: its requests, what each feeder holds, the responses to send.
NoJob == [at |-> "recv", batch |-> {}, miss |-> {}, write |-> {}, serve |-> {},
          put |-> <<>>, out |-> {}]

ServerInit ==
  /\ open = {}
  /\ inbox = {}
  /\ answers = {}
  /\ cache = <<>>
  /\ uex = <<>>
  /\ thru_counter = 0
  /\ job = [w \in Resolvers |-> NoJob]
  /\ runs = [i \in Ids |-> 0]
  /\ forgotten = [i \in Ids |-> 0]

\* A request is <<requestor, its number there, id>>, and is named by its ticket.
IdOf(t) == t[3]

Answered(T, a) == {<<t, a>> : t \in T}

-----------------------------------------------------------------------------
Cached(t) == {n \in DOMAIN cache : cache[n][1] = IdOf(t)}
Hit(t)    == Resp(cache[CHOOSE n \in Cached(t) : TRUE][2])

\* Requests are received; one that cannot be read is dropped, and is one that
\* stays in the mailbox here.  One that is late, or asks for a path without a
\* handler, is refused.  One without an id is for the handler.  One with an id
\* is looked up (InternalCacheFeedResolutor): a cached response is the answer,
\* one that cannot be copied an internal error.
Receive(w) ==
  /\ job[w].at = "recv"
  /\ \E S \in SUBSET inbox : \E refused, broken \in SUBSET S :
       LET fetch == {t \in S \ refused : IdOf(t) # NoId}
           hits  == {t \in fetch : Cached(t) # {}}
       IN /\ S # {} /\ Cardinality(S) <= ConsumeSz
          /\ broken \subseteq hits
          /\ inbox' = inbox \ S
          /\ job' = [job EXCEPT ![w] =
               [NoJob EXCEPT !.at    = "gate",
                             !.batch = S,
                             !.miss  = fetch \ hits,
                             !.serve = (S \ refused) \ fetch,
                             !.out   = Answered(refused \cup broken, Error)
                                         \cup {<<t, Hit(t)>> : t \in hits \ broken}]]
  /\ UNCHANGED <<open, answers, cache, uex, thru_counter, runs, forgotten>>

\* The requests of w have passed the feeders up to the handler's.
Allowed(w) == job[w].at = "gate" /\ job[w].miss = {} /\ job[w].write = {}
Handled(w) == Allowed(w) /\ job[w].serve = {}

\* What the feeder holds at most: it is never more than the traffic controller
\* can let through.
Chunks(T) == {C \in SUBSET T : Cardinality(C) = Min({Cardinality(T), ThruCap})}

\* Mutant of TrafficThru: requests that are not let through get no answer.
TrafficThruSilent(w) ==
  /\ job[w].at = "gate" /\ job[w].write = {} /\ job[w].miss # {}
  /\ \E C \in Chunks(job[w].miss) :
       IF thru_counter + Cardinality(C) > ThruCap
         THEN /\ job' = [job EXCEPT ![w].miss = @ \ C]
              /\ UNCHANGED thru_counter
         ELSE /\ job' = [job EXCEPT ![w].miss = @ \ C, ![w].write = C]
              /\ thru_counter' = thru_counter + Cardinality(C)
  /\ UNCHANGED <<open, inbox, answers, cache, uex, runs, forgotten>>

\* InternalCacheServerFeedResolutor, first half: a flush of the feeder counts
\* as a whole against the traffic of this interval.
TrafficThru(w) ==
  /\ job[w].at = "gate" /\ job[w].write = {} /\ job[w].miss # {}
  /\ \E C \in Chunks(job[w].miss) :
       IF thru_counter + Cardinality(C) > ThruCap
         THEN /\ job' = [job EXCEPT ![w].miss = @ \ C,
                                    ![w].out  = @ \cup Answered(C, Error)]
              /\ UNCHANGED thru_counter
         ELSE /\ job' = [job EXCEPT ![w].miss = @ \ C, ![w].write = C]
              /\ thru_counter' = thru_counter + Cardinality(C)
  /\ UNCHANGED <<open, inbox, answers, cache, uex, runs, forgotten>>

\* Mutant of UniqueWrite: the right to write is given without being recorded.
UniqueWriteUnrecorded(i) == UNCHANGED <<uex, forgotten>>

\* AdvancedInfiniteCacheUniqueWriteController::thru gives the right to write the
\* response of i, for good unless the set forgets.
UniqueWrite(i) ==
  /\ uex' = CyclicInsert(uex, i, UexCap)
  /\ forgotten' = [k \in Ids |-> forgotten[k] + IF Forgets(uex, UexCap, k) THEN 1 ELSE 0]

\* InternalCacheServerFeedResolutor, second half: who has the right goes to the
\* handler, others are refused.
UniqueWriteThru(w, t) ==
  /\ IF IdOf(t) \in ToSet(uex)
       THEN /\ job' = [job EXCEPT ![w].write = @ \ {t}, ![w].out = @ \cup {<<t, Error>>}]
            /\ UNCHANGED <<uex, forgotten>>
       ELSE /\ job' = [job EXCEPT ![w].write = @ \ {t}, ![w].serve = @ \cup {t}]
            /\ UniqueWrite(IdOf(t))
  /\ UNCHANGED <<open, inbox, answers, cache, thru_counter, runs>>

\* Mutant of Outcome: the copy for the cache is taken before the handler ran.
OutcomeEarly(v) == [put |-> 0, out |-> v]

\* What a handled request leaves for the cache and for its client
Outcome(v) == [put |-> v, out |-> v]

\* InternalServerFeedResolutor: the filterer refuses a request or the handler
\* handles it.  Either response goes to the cache, unless there is no id, the
\* copy fails, or it is larger than the cache takes.
Serve(w, t) ==
  /\ Allowed(w)
  /\ \E filtered, kept \in BOOLEAN :
       LET i == IdOf(t)
           v == IF filtered THEN 0 ELSE IF i = NoId THEN 1 ELSE runs[i] + 1
       IN /\ kept => i # NoId
          /\ runs' = IF v = 0 \/ i = NoId THEN runs ELSE [runs EXCEPT ![i] = v]
          /\ job' = [job EXCEPT
               ![w].serve = @ \ {t},
               ![w].put   = IF kept THEN Append(@, <<i, Outcome(v).put>>) ELSE @,
               ![w].out   = @ \cup {<<t, Resp(Outcome(v).out)>>}]
  /\ UNCHANGED <<open, inbox, answers, cache, uex, thru_counter, forgotten>>

\* The last feeders.  A response is put into the cache
\* (InternalCacheMapFeedResolutor).
Insert(w) ==
  /\ Handled(w) /\ job[w].put # <<>>
  /\ cache' = CyclicMapInsert(cache, Head(job[w].put), CacheCap)
  /\ job' = [job EXCEPT ![w].put = Tail(@)]
  /\ UNCHANGED <<open, inbox, answers, uex, thru_counter, runs, forgotten>>

\* Responses are sent.  The client ignores one whose ticket is closed.
Send(w) ==
  /\ Handled(w) /\ job[w].put = <<>>
  /\ answers' = answers \cup {m \in job[w].out : m[1] \in open}
  /\ job' = [job EXCEPT ![w] = NoJob]
  /\ UNCHANGED <<open, inbox, cache, uex, thru_counter, runs, forgotten>>

\* the cron job of SelfUpdateCacheUniqueWriteTrafficController
ResetTraffic ==
  /\ thru_counter > 0
  /\ thru_counter' = 0
  /\ UNCHANGED <<open, inbox, answers, cache, uex, job, runs, forgotten>>

Epoch(w) == \/ TrafficThru(w) \/ Insert(w) \/ Send(w)
            \/ \E t \in job[w].write : UniqueWriteThru(w, t)
            \/ \E t \in job[w].serve : Serve(w, t)

ServerNext == ResetTraffic \/ \E w \in Resolvers : Receive(w) \/ Epoch(w)

-----------------------------------------------------------------------------
(* Properties.                                                             *)

\* A request with an id is handled once, whichever of its attempts come when
\* and to whom, unless the set of unique writes has forgotten the id: "we are
\* still honoring the contract of all fails == one normal request signal fail".
HandledOnce == \A i \in Ids : runs[i] <= 1 + forgotten[i]

\* An epoch answers each of its requests once, on every path through the feeders.
AnsweredOnce == \A w \in Resolvers :
  LET j == job[w]
  IN /\ j.batch = j.miss \cup j.write \cup j.serve \cup {m[1] : m \in j.out}
     /\ Cardinality(j.batch) = Cardinality(j.miss)
          + Cardinality(j.write) + Cardinality(j.serve) + Cardinality(j.out)
=============================================================================
