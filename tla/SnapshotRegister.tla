--------------------------- MODULE SnapshotRegister ---------------------------
(***************************************************************************)
(* What the metrics service promises whoever scrapes it, with the lock,    *)
(* the two writes of a record and the two copies of a response hidden: one *)
(* register with the latest record of every DAG, written in one step; a    *)
(* response is the register as it was at one moment between the request    *)
(* and the response.  Only the end of the service may leave half a record, *)
(* and a request without a response.                                       *)
(***************************************************************************)
EXTENDS Naturals

CONSTANTS Dags, Scrapers

VARIABLES time,         \* the clock that records are stamped with
          measured,     \* per DAG, the time of the measurements kept
          run,          \* per DAG, how its analyses went
          recording,    \* DAGs are still analysed
          service,      \* serving, closed to new requests, gone
          status,       \* per scraper: idle, asked, read, answered
          answer        \* per scraper: the register as it read it

register == <<measured, run>>
scrapes == <<status, answer>>
vars == <<time, register, recording, service, scrapes>>

Untried == [success |-> 0, lastSuccess |-> 0, lastFailure |-> 0]
Unread == [analyses |-> [d \in Dags |-> 0], runtime |-> [d \in Dags |-> Untried]]

Init == /\ time = 1
        /\ measured = [d \in Dags |-> 0]
        /\ run = [d \in Dags |-> Untried]
        /\ recording = TRUE
        /\ service = "serving"
        /\ status = [s \in Scrapers |-> "idle"]
        /\ answer = [s \in Scrapers |-> Unread]

Tick == /\ recording
        /\ time' = time + 1
        /\ UNCHANGED <<register, recording, service, scrapes>>

\* Every record is later than all records before it.
Later == \A d \in Dags : run[d].lastSuccess < time /\ run[d].lastFailure < time

Succeed(d) == /\ recording /\ Later
              /\ measured' = [measured EXCEPT ![d] = time]
              /\ run' = [run EXCEPT ![d].success = 1, ![d].lastSuccess = time]
              /\ UNCHANGED <<time, recording, service, scrapes>>

\* A failure keeps the measurements of the last success.
Fail(d) == /\ recording /\ Later
           /\ run' = [run EXCEPT ![d].success = 0, ![d].lastFailure = time]
           /\ UNCHANGED <<time, measured, recording, service, scrapes>>

\* The end of the service, perhaps in the middle of recording a success.
End == /\ recording
       /\ recording' = FALSE
       /\ \/ UNCHANGED measured
          \/ Later /\ \E d \in Dags : measured' = [measured EXCEPT ![d] = time]
       /\ UNCHANGED <<time, run, service, scrapes>>

Close == /\ ~recording
         /\ service = "serving"
         /\ service' = "closed"
         /\ UNCHANGED <<time, register, recording, scrapes>>

\* Who waits for a response then gets none.
Vanish == /\ service = "closed"
          /\ service' = "gone"
          /\ UNCHANGED <<time, register, recording, scrapes>>

Ask(s) == /\ service = "serving"
          /\ status[s] \in {"idle", "answered"}
          /\ status' = [status EXCEPT ![s] = "asked"]
          /\ answer' = [answer EXCEPT ![s] = Unread]
          /\ UNCHANGED <<time, register, recording, service>>

Read(s) == /\ service # "gone"
           /\ status[s] = "asked"
           /\ status' = [status EXCEPT ![s] = "read"]
           /\ answer' = [answer EXCEPT ![s] = [analyses |-> measured, runtime |-> run]]
           /\ UNCHANGED <<time, register, recording, service>>

Reply(s) == /\ service # "gone"
            /\ status[s] = "read"
            /\ status' = [status EXCEPT ![s] = "answered"]
            /\ UNCHANGED <<time, register, recording, service, answer>>

Next == \/ Tick \/ End \/ Close \/ Vanish
        \/ \E d \in Dags : Succeed(d) \/ Fail(d)
        \/ \E s \in Scrapers : Ask(s) \/ Read(s) \/ Reply(s)

\* Whoever asks is answered unless the service is gone, and a service that has ended
\* stops serving and goes.
Spec == /\ Init /\ [][Next]_vars
        /\ WF_vars(Close) /\ WF_vars(Vanish)
        /\ \A s \in Scrapers : WF_vars(Read(s) \/ Reply(s))
===============================================================================
