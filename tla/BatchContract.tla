----------------------------- MODULE BatchContract -----------------------------
(***************************************************************************)
(* What a batch analysis promises, without threads, queues or sources: an  *)
(* unacceptable request is rejected before anything is analysed; otherwise *)
(* the DAGs are decided one by one, in any order, and the batch either     *)
(* returns when every one is decided, each DAG with the outcome of its own *)
(* analysis, or raises the defect that a caller analysing the DAGs one     *)
(* after the other would have met.                                         *)
(***************************************************************************)
EXTENDS Naturals, Sequences

CONSTANTS Dags,         \* DAG ids
          Positions     \* positions a batch may have

VARIABLES requested,    \* DAG ids, in request order
          accepted,     \* the request is one that may be analysed
          verdict,      \* per position: none, analysis, failure or defect
          answer,       \* listed as analyses and as failures: DAG id, position
          blame,        \* position whose exception is raised, 0 for none
          reply         \* none, rejected, returned or raised

vars == <<requested, accepted, verdict, answer, blame, reply>>

Size == Len(requested)

Init == /\ requested \in Seq(Dags)
        /\ accepted \in BOOLEAN
        /\ answer = [analyses |-> {}, failures |-> {}]
        /\ verdict = [i \in Positions |-> "none"]
        /\ blame = 0
        /\ reply = "none"

Reject == /\ reply = "none"
          /\ ~accepted
          /\ reply' = "rejected"
          /\ UNCHANGED <<requested, accepted, verdict, answer, blame>>

\* Once the batch has replied nothing is decided any more.
Decide == /\ reply = "none"
          /\ accepted
          /\ \E i \in 1..Size, v \in {"analysis", "failure", "defect"} :
               /\ verdict[i] = "none"
               /\ verdict' = [verdict EXCEPT ![i] = v]
          /\ UNCHANGED <<requested, accepted, answer, blame, reply>>

Decided(i) == verdict[i] \in {"analysis", "failure"}

Listed(v) == {<<requested[i], i>> : i \in {j \in 1..Size : verdict[j] = v}}

Return == /\ reply = "none"
          /\ accepted
          /\ \A i \in 1..Size : Decided(i)
          /\ answer' = [analyses |-> Listed("analysis"), failures |-> Listed("failure")]
          /\ reply' = "returned"
          /\ UNCHANGED <<requested, accepted, verdict, blame>>

Raise == /\ reply = "none"
         /\ \E i \in 1..Size : /\ verdict[i] = "defect"
                               /\ \A j \in 1..i - 1 : Decided(j)
                               /\ blame' = i
         /\ reply' = "raised"
         /\ UNCHANGED <<requested, accepted, verdict, answer>>

Next == Reject \/ Decide \/ Return \/ Raise

\* A batch replies.
Spec == Init /\ [][Next]_vars /\ WF_vars(Next)
===============================================================================
