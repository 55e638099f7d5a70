------------------------------ MODULE RestCall ------------------------------
(***************************************************************************)
(* What internal_rest promises the caller of RestController::request(): a  *)
(* call ends once, with the answer to a request that was sent, with a      *)
(* timeout, or with an error.  There are two errors, which the caller of   *)
(* request() cannot tell apart: batch_request() refused the request, and   *)
(* it will never be sent, or request() failed after that, and nothing is   *)
(* said: the request may be on its way or answered.  A request may leave   *)
(* after its caller has stopped waiting for it.                            *)
(***************************************************************************)
CONSTANTS Calls

VARIABLES
  stage,    \* "idle", "pending" or "done"
  outcome,  \* how each call ended
  sent      \* the requests that reached the mailbox

callVars == <<stage, outcome, sent>>

Outcomes == {"none", "answer", "timeout", "refused", "failed", "dropped"}

Init ==
  /\ stage = [c \in Calls |-> "idle"]
  /\ outcome = [c \in Calls |-> "none"]
  /\ sent = {}

Begin(c) ==
  /\ stage[c] = "idle"
  /\ stage' = [stage EXCEPT ![c] = "pending"]
  /\ UNCHANGED <<outcome, sent>>

Send(c) ==
  /\ stage[c] # "idle"
  /\ outcome[c] # "refused"
  /\ c \notin sent
  /\ sent' = sent \cup {c}
  /\ UNCHANGED <<stage, outcome>>

Finish(c, v) ==
  /\ stage[c] # "done"
  /\ v = "answer"  => c \in sent
  /\ v = "refused" => c \notin sent
  /\ stage' = [stage EXCEPT ![c] = "done"]
  /\ outcome' = [outcome EXCEPT ![c] = v]
  /\ UNCHANGED sent

Next == \E c \in Calls :
          \/ Begin(c) \/ Send(c)
          \/ \E v \in Outcomes \ {"none"} : Finish(c, v)

Spec == Init /\ [][Next]_callVars
=============================================================================
