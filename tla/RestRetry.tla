----------------------------- MODULE RestRetry ------------------------------
(***************************************************************************)
(* The requests of RequestDispatcher with a retry policy                   *)
(* (Base2ExponentialRetryPromise of network_rest_frame.h) against the      *)
(* server of RestServer.  All attempts of a promise carry the designated   *)
(* request id of the first; each has a ticket of its own.                  *)
(*                                                                         *)
(* An attempt is a call of RestClient, taken at its word (RestCall): it    *)
(* completes once, with an answer to it or with an error such as its       *)
(* timeout, which may come at any time.  A request or a response that the  *)
(* mailbox loses is one that stays in it for ever.                         *)
(***************************************************************************)
EXTENDS RestServer

CONSTANTS
  Clients,   \* promises; a promise's id is named by it
  MaxRetry   \* max_retry_count of each, by its retry policy

ASSUME RetryAssumption ==
  /\ MaxRetry \in [Clients -> Nat]
  /\ Ids = Clients

VARIABLES
  phase,   \* of the promise: "idle", "attempt", "sleep" or "done"
  id,      \* its designated_request_id, or NoId
  idx,     \* retry_idx
  result   \* the result of the promise, or <<>>

clientVars == <<phase, id, idx, result>>
retryVars  == <<serverVars, clientVars>>

RetryInit ==
  /\ ServerInit
  /\ phase = [c \in Clients |-> "idle"]
  /\ id = [c \in Clients |-> NoId]
  /\ idx = [c \in Clients |-> 0]
  /\ result = [c \in Clients |-> <<>>]

Ticket(c) == <<c, idx[c], id[c]>>

\* The current attempt is over: its ticket is closed.
Closes(c) ==
  /\ open' = open \ {Ticket(c)}
  /\ answers' = {m \in answers : m[1] # Ticket(c)}
  /\ UNCHANGED <<inbox, cache, uex, thru_counter, job, runs, forgotten>>

\* result_finalize and error_finalize
Finalize(c, r) ==
  /\ phase[c] \in {"attempt", "sleep"}
  /\ Closes(c)
  /\ phase' = [phase EXCEPT ![c] = "done"]
  /\ result' = [result EXCEPT ![c] = r]
  /\ UNCHANGED <<id, idx>>

\* promise_factory->get(): request() of the client
Attempt(c, t) ==
  /\ open' = open \cup {t}
  /\ inbox' = inbox \cup {t}
  /\ phase' = [phase EXCEPT ![c] = "attempt"]
  /\ UNCHANGED <<answers, cache, uex, thru_counter, job, runs, forgotten, idx, result>>

\* get_promise(), after unique() or non_unique(): the first attempt is made by
\* the constructor.
GetPromise(c, i) ==
  /\ phase[c] = "idle"
  /\ id' = [id EXCEPT ![c] = i]
  /\ Attempt(c, <<c, 0, i>>)

-----------------------------------------------------------------------------
(* next() of the coroutine.                                                *)

\* The promise was cancelled or dropped, or its time is over, or the client
\* could not make another request.  A request() that fails after its push is
\* an attempt that is followed by this.
NextOver(c) == Finalize(c, Error)

\* The attempt has its response, and the resolutor takes it.
NextResult(c) ==
  \E m \in answers : m[1] = Ticket(c) /\ m[2] # Error /\ Finalize(c, m[2])

\* Mutant of NextRetry: the retry is not counted.
NextRetryUncounted(c) ==
  /\ phase[c] = "attempt"
  /\ idx[c] # MaxRetry[c]
  /\ Closes(c)
  /\ phase' = [phase EXCEPT ![c] = "sleep"]
  /\ UNCHANGED <<id, idx, result>>

\* The attempt has completed with an error, or the resolutor threw.
NextRetry(c) ==
  /\ phase[c] = "attempt"
  /\ idx[c] # MaxRetry[c]
  /\ Closes(c)
  /\ phase' = [phase EXCEPT ![c] = "sleep"]
  /\ idx' = [idx EXCEPT ![c] = @ + 1]
  /\ UNCHANGED <<id, result>>

NextGiveUp(c) ==
  /\ phase[c] = "attempt"
  /\ idx[c] = MaxRetry[c]
  /\ Finalize(c, Error)

\* The sleep of get_retry_sleep_duration() is over.
NextAttempt(c) == phase[c] = "sleep" /\ Attempt(c, Ticket(c)) /\ UNCHANGED id

-----------------------------------------------------------------------------
NextPromise(c) == NextResult(c) \/ NextRetry(c) \/ NextGiveUp(c) \/ NextAttempt(c)

RetryStep ==
  \/ ServerNext /\ UNCHANGED clientVars
  \/ \E c \in Clients : GetPromise(c, c) \/ GetPromise(c, NoId) \/ NextOver(c) \/ NextPromise(c)

RetrySafety == RetryInit /\ [][RetryStep]_retryVars

\* A coroutine is resumed until it has concluded, and an attempt completes (a
\* call of RestClient ends).  That the server answers, or the mailbox delivers,
\* or the promise is cancelled, is not assumed.
RetrySpec == RetrySafety /\ \A c \in Clients : WF_retryVars(NextPromise(c))

-----------------------------------------------------------------------------
(* Properties.                                                             *)

\* Whatever is lost, a promise is concluded.
PromiseEnds == \A c \in Clients : phase[c] = "attempt" ~> phase[c] = "done"

\* The responses about an id, wherever they are
Said(c) ==
  {cache[n][2] : n \in {m \in DOMAIN cache : cache[m][1] = c}}
    \cup {m[2][2] : m \in {x \in answers \cup UNION {job[w].out : w \in Resolvers} :
                             IdOf(x[1]) = c /\ x[2][1] = "response"}}
    \cup {r[2] : r \in {x \in {result[c]} \ {<<>>, Error} : id[c] = c}}

\* As long as the server remembers the id, all attempts that get a response get
\* the same one, cached or not.
OneResponse == \A c \in Clients :
  forgotten[c] = 0 => Cardinality(Said(c)) <= 1
=============================================================================
