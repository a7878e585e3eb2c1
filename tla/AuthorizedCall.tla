---------------------------- MODULE AuthorizedCall ----------------------------
(***************************************************************************)
(* What AirflowClient._authenticated_request promises its callers, with    *)
(* every HTTP attempt, delay and token number hidden: a call acquires a    *)
(* credential, uses it, and either returns an answer or reports one error. *)
(* It may renew its credential once, after a refusal, and never otherwise. *)
(***************************************************************************)
EXTENDS Naturals

CONSTANTS Errors        \* what a failed call may report

VARIABLES stage,        \* "idle", "acquire" or "use"
          renewed,      \* the current call has renewed its credential
          outcome       \* of the last finished call

vars == <<stage, renewed, outcome>>

Init == /\ stage = "idle"
        /\ renewed = FALSE
        /\ outcome = "none"

Begin == /\ stage = "idle"
         /\ stage' = "acquire"
         /\ renewed' = FALSE
         /\ outcome' = "none"

Acquire == /\ stage = "acquire"
           /\ stage' = "use"
           /\ UNCHANGED <<renewed, outcome>>

Serve == /\ stage = "use"
         /\ stage' = "idle"
         /\ outcome' = "ok"
         /\ UNCHANGED renewed

Renew == /\ stage = "use"
         /\ ~renewed
         /\ stage' = "acquire"
         /\ renewed' = TRUE
         /\ UNCHANGED outcome

Fail == /\ stage # "idle"
        /\ stage' = "idle"
        /\ outcome' \in Errors
        /\ UNCHANGED renewed

Next == Begin \/ Acquire \/ Serve \/ Renew \/ Fail

\* A call that has begun is finished: the client neither waits for ever nor
\* retries for ever.
Spec == /\ Init /\ [][Next]_vars
        /\ WF_vars(Acquire \/ Serve \/ Renew \/ Fail)
===============================================================================
