----------------------------- MODULE RestClient -----------------------------
(***************************************************************************)
(* internal_rest, the side that asks: network_rest_frame.h (client_impl1)  *)
(* with its TicketController, NonBlockingRequestContainer, workers and     *)
(* RestController, and the TicketTimeoutManager of                         *)
(* network_ticket_timeout_manager.h.                                       *)
(*                                                                         *)
(* request() opens a ticket, binds an observer to it, queues the request   *)
(* and then clocks the ticket in.  Whoever takes the observer out of the   *)
(* ticket, the worker that received an answer or the worker that was       *)
(* handed the expired ticket, completes the response.  A step under one    *)
(* lock is one action.  Ticket ids come from a 64-bit counter and are      *)
(* never reused, so a ticket is named by its call.  Of the mailbox:        *)
(* requests and answers may be lost, an answer may come several times.     *)
(***************************************************************************)
EXTENDS Integers, Sequences, FiniteSets

CONSTANTS
  Calls,
  InWorkers,   \* daemons that receive answers
  TicketCaps,  \* the values ticket_resource_map_cap may be constructed with
  ClockCap,    \* capacity of expiry_bucket_queue
  ExpireCap    \* timeout_consume_sz

ASSUME CapAssumption == TicketCaps \subseteq Nat /\ TicketCaps # {}
                        /\ ClockCap \in Nat \ {0} /\ ExpireCap \in Nat \ {0}

VARIABLES
  ticketCap, \* ticket_resource_map_cap
  pc,        \* where each call's thread is
  outcome,   \* what each call returned
  tickets,   \* ticket_resource_map: the open tickets
  observer,  \* those that hold an observer
  response,  \* resp_vec of each call: what its observer was updated with
  container, \* producer_queue
  sent,      \* requests handed to the mailbox
  inbound,   \* per worker: the answered ticket and what is left to do
  clock,     \* expiry_bucket_queue: the state of each ticket in it, or "out"
  pushWait,  \* push_wait_bucket_vec
  expiry,    \* the expiry worker: what it does and the tickets in its hands
  aborted    \* std::abort was called

vars == <<ticketCap, pc, outcome, tickets, observer, response, container, sent, inbound,
          clock, pushWait, expiry, aborted>>

Min(a, b)  == IF a < b THEN a ELSE b
Clocked(k) == {c \in Calls : k[c] # "out"}
Expired(k) == {c \in Calls : k[c] = "expired"}

Init ==
  /\ ticketCap \in TicketCaps
  /\ pc = [c \in Calls |-> "idle"]
  /\ outcome = [c \in Calls |-> "none"]
  /\ tickets = {}
  /\ observer = {}
  /\ response = [c \in Calls |-> <<>>]
  /\ container = <<>>
  /\ sent = {}
  /\ inbound = [w \in InWorkers |-> [at |-> "recv", for |-> {}]]
  /\ clock = [c \in Calls |-> "out"]
  /\ pushWait = <<>>
  /\ expiry = [at |-> "ask", for |-> {}]
  /\ aborted = FALSE

Goto(c, l)  == pc' = [pc EXCEPT ![c] = l]
Ends(c, v)  == Goto(c, "done") /\ outcome' = [outcome EXCEPT ![c] = v]

-----------------------------------------------------------------------------
(* batch_request with one request, by the calling thread.                  *)

Open(c) ==
  /\ pc[c] = "idle"
  /\ Cardinality(tickets) + 1 <= ticketCap
  /\ tickets' = tickets \cup {c}
  /\ Goto(c, "opened")
  /\ UNCHANGED <<outcome, observer, response, container, sent, inbound, clock, pushWait,
                 expiry, aborted>>

OpenExhausted(c) ==
  /\ pc[c] = "idle"
  /\ Cardinality(tickets) + 1 > ticketCap
  /\ Ends(c, "refused")
  /\ UNCHANGED <<tickets, observer, response, container, sent, inbound, clock, pushWait,
                 expiry, aborted>>

\* The response cannot be allocated: the ticket is closed again.
MakeResponseFails(c) ==
  /\ pc[c] = "opened"
  /\ tickets' = tickets \ {c}
  /\ Ends(c, "refused")
  /\ UNCHANGED <<observer, response, container, sent, inbound, clock, pushWait, expiry,
                 aborted>>

AssignObserver(c) ==
  /\ pc[c] = "opened"
  /\ observer' = observer \cup {c}
  /\ Goto(c, "bound")
  /\ UNCHANGED <<outcome, tickets, response, container, sent, inbound, clock, pushWait,
                 expiry, aborted>>

\* Mutant of MakeRequestFails: the response goes without releasing its ticket.
MakeRequestFailsKept(c) ==
  /\ pc[c] = "bound"
  /\ Ends(c, "refused")
  /\ UNCHANGED <<tickets, observer, response, container, sent, inbound, clock, pushWait,
                 expiry, aborted>>

\* Mutant of MakeRequestFails: batch_request pushes before it finds the failure.
MakeRequestFailsLate(c) ==
  /\ pc[c] = "pushed"
  /\ tickets' = tickets \ {c}
  /\ observer' = observer \ {c}
  /\ Ends(c, "refused")
  /\ UNCHANGED <<response, container, sent, inbound, clock, pushWait, expiry, aborted>>

\* The request cannot be allocated: the response is destroyed with its ticket.
MakeRequestFails(c) ==
  /\ pc[c] = "bound"
  /\ tickets' = tickets \ {c}
  /\ observer' = observer \ {c}
  /\ Ends(c, "refused")
  /\ UNCHANGED <<response, container, sent, inbound, clock, pushWait, expiry, aborted>>

Push(c) ==
  /\ pc[c] = "bound"
  /\ container' = Append(container, c)
  /\ Goto(c, "pushed")
  /\ UNCHANGED <<outcome, tickets, observer, response, sent, inbound, clock, pushWait,
                 expiry, aborted>>

ClockIn(c) ==
  /\ pc[c] = "pushed"
  /\ Cardinality(Clocked(clock)) + 1 <= ClockCap
  /\ pushWait = <<>>
  /\ clock' = [clock EXCEPT ![c] = "ticking"]
  /\ Goto(c, "handle")
  /\ UNCHANGED <<outcome, tickets, observer, response, container, sent, inbound, pushWait,
                 expiry, aborted>>

ClockInBlocks(c) ==
  /\ pc[c] = "pushed"
  /\ Cardinality(Clocked(clock)) + 1 > ClockCap \/ pushWait # <<>>
  /\ pushWait' = Append(pushWait, c)
  /\ Goto(c, "waiting")
  /\ UNCHANGED <<outcome, tickets, observer, response, container, sent, inbound, clock,
                 expiry, aborted>>

\* Mutant of ClockInWakes: the expiry time of the entry is left at max.
ClockInWakesUnset(c) ==
  /\ pc[c] = "woken"
  /\ Goto(c, "handle")
  /\ UNCHANGED <<outcome, tickets, observer, response, container, sent, inbound, clock,
                 pushWait, expiry, aborted>>

\* The entry made for the waiter gets its expiry time; when an answer has
\* voided it in between, update() fails and nothrow_log aborts.
ClockInWakes(c) ==
  /\ pc[c] = "woken"
  /\ IF clock[c] = "out"
       THEN aborted' = TRUE /\ UNCHANGED <<clock, pc>>
       ELSE clock' = [clock EXCEPT ![c] = "ticking"] /\ Goto(c, "handle")
            /\ UNCHANGED aborted
  /\ UNCHANGED <<outcome, tickets, observer, response, container, sent, inbound, pushWait,
                 expiry>>

-----------------------------------------------------------------------------
(* batch_request has returned; request() wraps its response in a handle.   *)

\* response() has waited for the update
Respond(c) ==
  /\ pc[c] = "handle"
  /\ response[c] # <<>>
  /\ outcome' = [outcome EXCEPT ![c] = Head(response[c])]
  /\ Goto(c, "closing")
  /\ UNCHANGED <<tickets, observer, response, container, sent, inbound, clock, pushWait,
                 expiry, aborted>>

\* What batch_request returned is destroyed, with its ticket.
Destroyed(c, v) ==
  /\ pc[c] = "handle"
  /\ tickets' = tickets \ {c}
  /\ observer' = observer \ {c}
  /\ Ends(c, v)
  /\ UNCHANGED <<response, container, sent, inbound, clock, pushWait, expiry, aborted>>

\* request() cannot allocate the wrapper and returns an error, although the
\* request was pushed.
MakeSingleResponseFails(c) == Destroyed(c, "failed")

\* The handle is destroyed without a response(), as by a retry promise that was
\* cancelled.
Drop(c) == Destroyed(c, "dropped")

Abandon(c) == MakeSingleResponseFails(c) \/ Drop(c)

\* release_ticket
Close(c) ==
  /\ pc[c] = "closing"
  /\ tickets' = tickets \ {c}
  /\ observer' = observer \ {c}
  /\ Goto(c, "done")
  /\ UNCHANGED <<outcome, response, container, sent, inbound, clock, pushWait, expiry,
                 aborted>>

-----------------------------------------------------------------------------
(* TicketTimeoutManager::internal_update, on a queue k under its lock: the *)
(* waiting expiry worker is handed expired tickets, up to its buffer, and  *)
(* waiting callers get entries, in their order, while there is room.  An   *)
(* entry made so has the latest possible expiry time.                      *)

Handed(k) == IF expiry.at # "wait" THEN {{}}
             ELSE {T \in SUBSET Expired(k) :
                     Cardinality(T) = Min(Cardinality(Expired(k)), ExpireCap)}

\* Mutant of internal_update: the waiting expiry worker is not woken.
internal_updatePushOnly(k) ==
  LET n  == Min(ClockCap - Cardinality(Clocked(k)), Len(pushWait))
      in == {pushWait[i] : i \in 1 .. n}
  IN /\ clock' = [c \in Calls |-> IF c \in in THEN "max" ELSE k[c]]
     /\ pushWait' = SubSeq(pushWait, n + 1, Len(pushWait))
     /\ pc' = [c \in Calls |-> IF c \in in THEN "woken" ELSE pc[c]]
     /\ UNCHANGED expiry

internal_update(k) ==
  \E T \in Handed(k) :
    LET room == ClockCap - Cardinality(Clocked(k) \ T)
        n    == Min(room, Len(pushWait))
        in   == {pushWait[i] : i \in 1 .. n}
    IN /\ clock' = [c \in Calls |-> IF c \in in THEN "max"
                                    ELSE IF c \in T THEN "out" ELSE k[c]]
       /\ pushWait' = SubSeq(pushWait, n + 1, Len(pushWait))
       /\ pc' = [c \in Calls |-> IF c \in in THEN "woken" ELSE pc[c]]
       /\ expiry' = IF T = {} THEN expiry ELSE [at |-> "steal", for |-> T]

\* the cron job of SelfUpdateTicketTimeoutManager
CronUpdate ==
  /\ internal_update(clock)
  /\ UNCHANGED <<outcome, tickets, observer, response, container, sent, inbound, aborted>>

\* The expiry time of an entry passes.
Tick(c) ==
  /\ clock[c] = "ticking"
  /\ clock' = [clock EXCEPT ![c] = "expired"]
  /\ UNCHANGED <<pc, outcome, tickets, observer, response, container, sent, inbound,
                 pushWait, expiry, aborted>>

-----------------------------------------------------------------------------
(* OutBoundWorker: a request that cannot be serialized or sent is logged.  *)

OutBoundSend ==
  /\ container # <<>>
  /\ sent' = sent \cup {Head(container)}
  /\ container' = Tail(container)
  /\ UNCHANGED <<pc, outcome, tickets, observer, response, inbound, clock, pushWait,
                 expiry, aborted>>

OutBoundFails ==
  /\ container # <<>>
  /\ container' = Tail(container)
  /\ UNCHANGED <<pc, outcome, tickets, observer, response, sent, inbound, clock, pushWait,
                 expiry, aborted>>

-----------------------------------------------------------------------------
(* InBoundWorker                                                           *)

InBoundAt(w, l, c) == inbound' = [inbound EXCEPT ![w] = [at |-> l, for |-> {c}]]
update(c, v)       == response' = [response EXCEPT ![c] = Append(@, v)]

\* Mutant of InBoundSteal: the observer is copied and stays in the ticket.
InBoundStealCopied(w, c) ==
  /\ inbound[w].at = "recv"
  /\ c \in sent
  /\ InBoundAt(w, IF c \in observer THEN "update" ELSE "void", c)
  /\ UNCHANGED <<pc, outcome, tickets, observer, response, container, sent, clock,
                 pushWait, expiry, aborted>>

\* An answer is received and steal_observer called; without an observer the
\* answer is lost.
InBoundSteal(w, c) ==
  /\ inbound[w].at = "recv"
  /\ c \in sent
  /\ InBoundAt(w, IF c \in observer THEN "update" ELSE "void", c)
  /\ observer' = observer \ {c}
  /\ UNCHANGED <<pc, outcome, tickets, response, container, sent, clock, pushWait,
                 expiry, aborted>>

InBoundUpdate(w, c) ==
  /\ inbound[w] = [at |-> "update", for |-> {c}]
  /\ update(c, "answer")
  /\ InBoundAt(w, "void", c)
  /\ UNCHANGED <<pc, outcome, tickets, observer, container, sent, clock, pushWait, expiry,
                 aborted>>

InBoundVoid(w, c) ==
  /\ inbound[w] = [at |-> "void", for |-> {c}]
  /\ inbound' = [inbound EXCEPT ![w] = [at |-> "recv", for |-> {}]]
  /\ internal_update([clock EXCEPT ![c] = "out"])
  /\ UNCHANGED <<outcome, tickets, observer, response, container, sent, aborted>>

-----------------------------------------------------------------------------
(* ExpiryWorker                                                            *)

\* get_expired_ticket
ExpiryAsk ==
  /\ expiry.at = "ask"
  /\ IF Expired(clock) = {}
       THEN expiry' = [at |-> "wait", for |-> {}] /\ UNCHANGED clock
       ELSE \E T \in SUBSET Expired(clock) :
              /\ Cardinality(T) = Min(Cardinality(Expired(clock)), ExpireCap)
              /\ expiry' = [at |-> "steal", for |-> T]
              /\ clock' = [c \in Calls |-> IF c \in T THEN "out" ELSE clock[c]]
  /\ UNCHANGED <<pc, outcome, tickets, observer, response, container, sent, inbound,
                 pushWait, aborted>>

ExpirySteal ==
  /\ expiry.at = "steal"
  /\ expiry' = [at |-> "update", for |-> expiry.for \cap observer]
  /\ observer' = observer \ expiry.for
  /\ UNCHANGED <<pc, outcome, tickets, response, container, sent, inbound, clock,
                 pushWait, aborted>>

ExpiryUpdate(c) ==
  /\ expiry.at = "update"
  /\ c \in expiry.for
  /\ update(c, "timeout")
  /\ expiry' = [expiry EXCEPT !.for = @ \ {c}]
  /\ UNCHANGED <<pc, outcome, tickets, observer, container, sent, inbound, clock,
                 pushWait, aborted>>

ExpiryDone ==
  /\ expiry = [at |-> "update", for |-> {}]
  /\ expiry' = [at |-> "ask", for |-> {}]
  /\ UNCHANGED <<pc, outcome, tickets, observer, response, container, sent, inbound,
                 clock, pushWait, aborted>>

-----------------------------------------------------------------------------
Request(c) == \/ Open(c) \/ OpenExhausted(c) \/ MakeResponseFails(c) \/ AssignObserver(c)
              \/ MakeRequestFails(c) \/ Push(c) \/ ClockIn(c) \/ ClockInBlocks(c)
              \/ ClockInWakes(c)
Handle(c)  == Respond(c) \/ Close(c)
OutBound   == OutBoundSend \/ OutBoundFails
InBound(w) == \E c \in Calls : InBoundUpdate(w, c) \/ InBoundVoid(w, c)
Expiry     == \/ ExpiryAsk \/ ExpirySteal \/ ExpiryDone
              \/ \E c \in Calls : ExpiryUpdate(c)

Next == /\ ~aborted
        /\ UNCHANGED ticketCap
        /\ \/ \E c \in Calls : Request(c) \/ Handle(c) \/ Abandon(c) \/ Tick(c)
           \/ \E w \in InWorkers : InBound(w) \/ \E c \in Calls : InBoundSteal(w, c)
           \/ OutBound \/ Expiry \/ CronUpdate

Safety == Init /\ [][Next]_vars

\* Threads and daemons are scheduled, cron runs its job again and again, and
\* time passes.  Nothing says that a request or an answer arrives.
Alive(A) == ~aborted /\ UNCHANGED ticketCap /\ A

Spec == /\ Safety
        /\ \A c \in Calls : WF_vars(pc[c] # "idle" /\ Alive(Request(c) \/ Handle(c)))
        /\ \A w \in InWorkers : WF_vars(Alive(InBound(w)))
        /\ WF_vars(Alive(\E c \in Calls : Tick(c)))
        /\ WF_vars(Alive(OutBound)) /\ WF_vars(Alive(Expiry)) /\ WF_vars(Alive(CronUpdate))

-----------------------------------------------------------------------------
(* Properties.                                                             *)

TypeOK ==
  /\ ticketCap \in TicketCaps
  /\ pc \in [Calls -> {"idle", "opened", "bound", "pushed", "waiting", "woken", "handle",
                       "closing", "done"}]
  /\ outcome \in [Calls -> {"none", "answer", "timeout", "refused", "failed", "dropped"}]
  /\ tickets \subseteq Calls
  /\ observer \subseteq Calls
  /\ response \in [Calls -> Seq({"answer", "timeout"})]
  /\ container \in Seq(Calls)
  /\ sent \subseteq Calls
  /\ inbound \in [InWorkers -> [at: {"recv", "update", "void"}, for: SUBSET Calls]]
  /\ clock \in [Calls -> {"out", "max", "ticking", "expired"}]
  /\ pushWait \in Seq(Calls)
  /\ expiry \in [at: {"ask", "wait", "steal", "update"}, for: SUBSET Calls]
  /\ aborted \in BOOLEAN

\* The workers that have taken a call's observer and not updated it yet.
Holders(c) ==
  {w \in InWorkers : inbound[w] = [at |-> "update", for |-> {c}]}
    \cup (IF expiry.at = "update" /\ c \in expiry.for THEN {"expiry"} ELSE {})

\* An answer, its duplicates and the timeout race for the observer: it is in
\* the ticket, in the hands of one worker, or has been updated, one of the
\* three, and so no response is written twice (internal_update of the response
\* aborts on a second one).
ObserverOnce == \A c \in Calls :
  /\ Cardinality(Holders(c)) + Len(response[c]) + (IF c \in observer THEN 1 ELSE 0) <= 1
  /\ c \in observer => c \in tickets

\* Every path through request(), its failures included, and through the handle
\* closes the ticket once: tickets are open for the calls in progress only, the
\* one that close_ticket is about to erase is there, and the map keeps its bound.
TicketsOwned ==
  /\ tickets = {c \in Calls : pc[c] \notin {"idle", "done"}}
  /\ Cardinality(tickets) <= ticketCap

\* Who waits for a response is sure to be woken: its response is written, or a
\* worker has its observer, or its ticket is in the expiry queue with a finite
\* expiry time, or in the hands of the expiry worker with the observer in place.
Rescued == ~aborted => \A c \in Calls : pc[c] = "handle" =>
  \/ response[c] # <<>>
  \/ Holders(c) # {}
  \/ /\ c \in observer
     /\ \/ clock[c] \in {"ticking", "expired"}
        \/ expiry.at = "steal" /\ c \in expiry.for

\* Every request() comes to an end: callers blocked in clock_in() get room, and
\* response() returns, be the request or every answer lost.
CallEnds == \A c \in Calls : pc[c] = "opened" ~> pc[c] = "done" \/ aborted

\* batch_request: "unable to fail, resource leaks + deadlock otherwise, very
\* dangerous, rather terminate".
ClockInSucceeds == ~aborted

\* The client keeps the promise of RestCall: whatever the order of answer, timeout
\* and failures, a call ends once, only what was sent is answered, and what
\* batch_request refused never leaves.
Call == INSTANCE RestCall WITH
          stage <- [c \in Calls |-> IF outcome[c] # "none" THEN "done"
                                    ELSE IF pc[c] = "idle" THEN "idle" ELSE "pending"]
RefinesCall == Call!Spec
=============================================================================
