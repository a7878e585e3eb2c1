------------------------------ MODULE CliDelivery ------------------------------
(***************************************************************************)
(* What a scheduler, a CI job or an assistant runs: the commands analyze,  *)
(* analyze-batch, dags and doctor and the MCP tool, from their arguments   *)
(* and the environment to the exit code, the checks and the output file    *)
(* they leave: which configuration they accept, which DAGs are selected,   *)
(* which policy is resolved, and what of a failure at each step the caller *)
(* sees.  A previous run may have left a result in the output file; the    *)
(* command may be killed at any moment.                                    *)
(*                                                                         *)
(* DAG ids are numbers, in the order of their names; Blank is an id of     *)
(* blanks only, which a caller may give and Airflow has not.  Of the       *)
(* policy two options are kept, tied to each other and to                  *)
(* history_run_limit by the validations.  A severity is its rank: 0 is     *)
(* NORMAL.  The MCP tool has no exit code: 0 is an answer, 1 an exception  *)
(* that reaches the assistant.                                             *)
(***************************************************************************)
EXTENDS Integers, Sequences, SequencesExt, Orderings

CONSTANTS Dags,         \* DAG ids, numbers from 1 on
          Severities,   \* ranks of severity, 0 among them
          Invocations,  \* command lines: records of InvocationType
          MaxListed     \* bound: DAGs that Airflow lists

ASSUME DagsAssumption == Dags \subseteq Nat \ {0}
ASSUME SeveritiesAssumption == Severities \subseteq Nat /\ 0 \in Severities
ASSUME MaxListedAssumption == MaxListed \in Nat

Absent == 0             \* None: an option that is not set, no threshold
Blank == 0

Options == {"minimum_history", "baseline_window"}
Policies == [minimum_history : Nat, baseline_window : Nat]
Default == [minimum_history |-> 5, baseline_window |-> Absent]

\* The environment.  numbers: the numeric variables parse; credentials: those set;
\* inRange: API version, timeouts, retries and backoff; limit: AIRFLOW_HISTORY_RUN_LIMIT.
\* sendable: httpx can make a request of AIRFLOW_BASE_URL and the bearer token; where it
\* cannot (httpx.InvalidURL, UnicodeEncodeError), no FlowSenseError is made of that.
EnvironmentType == [numbers : BOOLEAN, mode : {"basic", "token", "bearer", "other"},
                    credentials : SUBSET {"username", "password", "bearer_token"},
                    inRange : BOOLEAN, limit : Nat, sendable : BOOLEAN]

\* file: no policy file, one that is not a policy document, or a document.  given:
\* options on the command line; cli: their values there.
InvocationType == [command : {"analyze", "batch", "mcp", "dags", "doctor"},
                   env : EnvironmentType, dagIds : Seq(Dags \cup {Blank}), allDags : BOOLEAN,
                   includePaused : BOOLEAN, dagLimit : Nat,
                   file : {"none", "broken", "document"},
                   document : Policies, given : SUBSET Options, cli : Policies,
                   historyRunLimit : Nat, toFile : BOOLEAN, failOn : Severities]

\* analyze and the MCP tool take one DAG id, a positional argument or a parameter.
ASSUME InvocationsAssumption ==
         /\ Invocations \subseteq InvocationType
         /\ \A i \in Invocations : i.command \in {"analyze", "mcp"} => Len(i.dagIds) = 1

\* --all-dags is an option of analyze-batch.
ASSUME AllDagsAssumption == \A i \in Invocations : i.allDags => i.command = "batch"

VARIABLES args,         \* the command line
          stage,        \* list, select, policy, analyze, write, gate, ended
          selected,     \* DAG ids to analyse, or listed
          policy,       \* the resolved policy
          outcome,      \* per position: rank of its severity, or Failed
          output,       \* where the result goes: previous, partial, result
          exit,         \* exit code, Running, or Killed
          runLimit,     \* history_run_limit of the Airflow clients
          checks        \* the results of the doctor

\* History variables.
VARIABLES listed,       \* what Airflow listed for --all-dags
          pausedDags    \* those that the listing says are paused

listing == <<listed, pausedDags>>
result == <<outcome, runLimit, checks>>

vars == <<args, stage, selected, policy, output, exit, listing, result>>

Failed == -1
Running == -1
Killed == -2

Init == /\ args \in Invocations
        /\ stage = CASE args.command \in {"dags", "doctor"} -> "list"
                     [] args.command = "batch" -> "select"
                     [] OTHER -> "policy"
        /\ selected = IF args.command \in {"analyze", "mcp"} THEN args.dagIds ELSE <<>>
        /\ policy = Default
        /\ outcome = <<>>
        /\ output = "previous"
        /\ exit = Running
        /\ listed = <<>>
        /\ pausedDags = {}
        /\ runLimit = Absent
        /\ checks = <<>>

Leave(code) == stage' = "ended" /\ exit' = code

Proceed(to) == stage' = to /\ UNCHANGED exit

-------------------------------------------------------------------------------
(* load_airflow_config, and what AirflowClient.__init__ makes of it.       *)

Required(mode) == IF mode = "bearer" THEN {"bearer_token"} ELSE {"username", "password"}

Loads == /\ args.env.numbers
         /\ args.env.mode # "other"
         /\ Required(args.env.mode) \subseteq args.env.credentials

EffectiveLimit(option) == IF option # Absent THEN option ELSE args.env.limit

\* A client can be built, for a request with this history_run_limit.
Opens(option) == Loads /\ args.env.inRange /\ EffectiveLimit(option) >= 2

-------------------------------------------------------------------------------
(* _resolve_batch_dag_ids.                                                 *)

Listings == SeqOf(Dags, MaxListed)

SelectionRefused == IF args.allDags THEN args.dagIds # <<>>
                    ELSE \/ args.includePaused
                         \/ args.dagLimit # Absent
                         \/ args.dagIds = <<>>

Visible(found, paused) ==
  IF args.includePaused THEN found
  ELSE Only(found, Dags \ paused)

\* Mutant of FirstOf: the listing is cut, and what is left of it sorted.
FirstOfListing(seq) ==
  SortedBy(IF args.dagLimit # Absent /\ args.dagLimit < Len(seq)
           THEN SubSeq(seq, 1, args.dagLimit) ELSE seq, [d \in Dags |-> d])

\* sorted(...), cut to the DAG limit.
FirstOf(seq) ==
  LET ordered == SortedBy(seq, [d \in Dags |-> d])
  IN  IF args.dagLimit # Absent /\ args.dagLimit < Len(seq)
      THEN SubSeq(ordered, 1, args.dagLimit) ELSE ordered

RefuseSelection == /\ stage = "select"
                   /\ SelectionRefused
                   /\ Leave(1)
                   /\ UNCHANGED <<args, selected, policy, output, listing, result>>

SelectExplicit == /\ stage = "select"
                  /\ ~SelectionRefused
                  /\ ~args.allDags
                  /\ selected' = args.dagIds
                  /\ Proceed("policy")
                  /\ UNCHANGED <<args, policy, output, listing, result>>

\* A listing may name a DAG twice: one added while the pages were fetched moves
\* another onto the next page (see AirflowPaging).
Discover == /\ stage = "select"
            /\ ~SelectionRefused
            /\ args.allDags
            /\ Opens(Absent) /\ args.env.sendable
            /\ listed' \in Listings /\ pausedDags' \in SUBSET Dags
            /\ LET chosen == FirstOf(Visible(listed', pausedDags')) IN
               IF chosen = <<>>
               THEN Leave(1) /\ UNCHANGED selected
               ELSE Proceed("policy") /\ selected' = chosen
            /\ UNCHANGED <<args, policy, output, result>>

\* The configuration is not valid, or Airflow does not list its DAGs.
DiscoveryFails == /\ stage = "select"
                  /\ ~SelectionRefused
                  /\ args.allDags
                  /\ Leave(1)
                  /\ UNCHANGED <<args, selected, policy, output, listing, result>>

-------------------------------------------------------------------------------
(* The commands dags and doctor.                                           *)

\* Mutant of Successful: the last check decides.
SuccessfulAtLast(cs) == cs[Len(cs)] # "fail"

Successful(cs) == \A i \in DOMAIN cs : cs[i] # "fail"

\* dags ends well, with or without DAGs; doctor with what its checks say.
Report(cs, code) ==
  IF args.command = "doctor"
  THEN checks' = cs /\ Leave(IF Successful(cs) THEN 0 ELSE 1)
  ELSE UNCHANGED checks /\ Leave(code)

Checked(dags) == <<"pass", "pass", IF dags = <<>> THEN "fail" ELSE "pass">>

List == /\ stage = "list"
        /\ Opens(Absent) /\ args.env.sendable
        /\ \E found \in Listings, paused \in SUBSET Dags : selected' = Visible(found, paused)
        /\ Report(Checked(selected'), 0)
        /\ UNCHANGED <<args, policy, output, outcome, runLimit, listing>>

\* The configuration is not valid, or Airflow does not list its DAGs.  What only the
\* client refuses of the configuration fails the second check of the doctor.
ListFails == /\ stage = "list"
             /\ Opens(Absent) => args.env.sendable
             /\ Report(IF Loads THEN <<"pass", "fail", "skip">>
                                ELSE <<"fail", "skip", "skip">>, 1)
             /\ UNCHANGED <<args, selected, policy, output, outcome, runLimit, listing>>

\* An exception of the client's requests that is no FlowSenseError: a request that
\* httpx cannot make, or a Retry-After that time.sleep refuses.  No check is shown.
ListEscapes == /\ stage = "list"
               /\ Opens(Absent)
               /\ Leave(1)
               /\ UNCHANGED <<args, selected, policy, output, listing, result>>

-------------------------------------------------------------------------------
(* resolve_analysis_policy.                                                *)

\* Mutant of Explicit: an option counts as given when it is not the default.
ExplicitIfDifferent(name) == name \in args.given /\ args.cli[name] # Default[name]

Explicit(name) == name \in args.given

\* The command line's value of an option is its default unless it is given.
FromCli(name) == IF name \in args.given THEN args.cli[name] ELSE Default[name]

Resolved == [name \in Options |->
               IF args.file = "document" /\ ~Explicit(name)
               THEN args.document[name] ELSE FromCli(name)]

\* AnalysisPolicy.__post_init__.
Sound(p) == /\ p.minimum_history >= 2
            /\ p.baseline_window # Absent =>
                 p.baseline_window >= p.minimum_history - 1

PolicyAccepted == args.file # "broken" /\ Sound(Resolved)

ResolvePolicy == /\ stage = "policy"
                 /\ PolicyAccepted
                 /\ policy' = Resolved
                 /\ Proceed("analyze")
                 /\ UNCHANGED <<args, selected, output, listing, result>>

\* analyze-batch and the MCP tool report a failure, analyze a usage error.
RefusePolicy == /\ stage = "policy"
                /\ ~PolicyAccepted
                /\ Leave(IF args.command = "analyze" THEN 2 ELSE 1)
                /\ UNCHANGED <<args, selected, policy, output, listing, result>>

-------------------------------------------------------------------------------
(* The analysis.                                                           *)

HistoryLimitOk == args.historyRunLimit # Absent =>
                    args.historyRunLimit >= policy.minimum_history

RequestAccepted == HistoryLimitOk /\ Blank \notin ToSet(selected) /\ IsInjective(selected)

\* AnalysisRequest, or AnalyzeDAGBatch._validate_input.
RefuseRequest == /\ stage = "analyze"
                 /\ ~RequestAccepted
                 /\ Leave(1)
                 /\ UNCHANGED <<args, selected, policy, output, listing, result>>

\* A batch keeps the expected failures of its DAGs, a configuration that is refused
\* among them; analyze and the MCP tool have one DAG and raise.
Kept == IF args.command = "batch" THEN {Failed} ELSE {}

Analyze == /\ stage = "analyze"
           /\ RequestAccepted
           /\ Opens(args.historyRunLimit) => args.env.sendable
           /\ IF Opens(args.historyRunLimit)
              THEN /\ outcome' \in [1..Len(selected) -> Severities \cup Kept]
                   /\ runLimit' = EffectiveLimit(args.historyRunLimit)
              ELSE /\ outcome' \in [1..Len(selected) -> Kept]
                   /\ UNCHANGED runLimit
           /\ Proceed("write")
           /\ UNCHANGED <<args, selected, policy, output, listing, checks>>

\* A FlowSenseError of the only DAG of analyze or the MCP tool, or an unexpected exception of any.
AnalysisRaises == /\ stage = "analyze"
                  /\ RequestAccepted
                  /\ Leave(1)
                  /\ UNCHANGED <<args, selected, policy, output, listing, result>>

-------------------------------------------------------------------------------
(* The output and the exit code.                                           *)

\* Mutant of AfterWrite: without --fail-on there is nothing to look at.
WriteAndLeave == IF args.failOn = Absent THEN Leave(0) ELSE Proceed("gate")

AfterWrite == Proceed("gate")

Write == /\ stage = "write"
         /\ output' = "result"
         /\ AfterWrite
         /\ UNCHANGED <<args, selected, policy, listing, result>>

\* write_text cannot open the file, or fails after having emptied it.
WriteFails == /\ stage = "write"
              /\ args.toFile
              /\ output' \in {"previous", "partial"}
              /\ Leave(1)
              /\ UNCHANGED <<args, selected, policy, listing, result>>

AnyFailed == \E i \in DOMAIN outcome : outcome[i] = Failed

\* severity_meets_threshold, with Absent for no --fail-on.
Reached(i) == args.failOn # Absent /\ outcome[i] >= args.failOn

\* Mutant of Code: the threshold is looked at before the failures.
CodeThresholdFirst == IF \E i \in DOMAIN outcome : Reached(i) THEN 2
                      ELSE IF AnyFailed THEN 1 ELSE 0

Code == IF AnyFailed THEN 1
        ELSE IF \E i \in DOMAIN outcome : Reached(i) THEN 2 ELSE 0

Gate == /\ stage = "gate"
        /\ Leave(Code)
        /\ UNCHANGED <<args, selected, policy, output, listing, result>>

\* The process is killed; in the middle of a write the file may be left partial.
Kill == /\ stage # "ended"
        /\ Leave(Killed)
        /\ output' \in IF stage = "write" /\ args.toFile
                       THEN {output, "partial"} ELSE {output}
        /\ UNCHANGED <<args, selected, policy, listing, result>>

Step == \/ List \/ ListFails \/ ListEscapes
        \/ RefuseSelection \/ SelectExplicit \/ Discover \/ DiscoveryFails
        \/ ResolvePolicy \/ RefusePolicy
        \/ RefuseRequest \/ Analyze \/ AnalysisRaises
        \/ Write \/ WriteFails
        \/ Gate

Next == Step \/ Kill

Spec == Init /\ [][Next]_vars

-------------------------------------------------------------------------------
(* Properties.                                                             *)

Ended == stage = "ended"
Analyses == args.command \in {"analyze", "batch", "mcp"}
Analysed == \E i \in DOMAIN outcome : outcome[i] # Failed

\* Exit code 0 can be trusted: something was selected, every DAG of it was
\* analysed, the complete result was written, and no severity reached --fail-on.
SuccessIsComplete ==
  (exit = 0 /\ Analyses) =>
              /\ selected # <<>> /\ DOMAIN outcome = 1..Len(selected)
              /\ \A i \in DOMAIN outcome : outcome[i] # Failed /\ ~Reached(i)
              /\ output = "result"

\* What the outcomes tell reaches the caller.  Once there are outcomes, a command
\* that is not killed ends with the complete result, or with code 1 if the file
\* could not be written; and a failed DAG outranks a severity that was reached, so
\* that 2 is never the answer to an incomplete batch.
OutcomesDelivered ==
  (Ended /\ outcome # <<>> /\ exit # Killed) =>
     /\ output # "result" => exit = 1 /\ args.toFile
     /\ AnyFailed => exit = 1

\* A DAG is analysed under the policy that was asked for: an option given on the
\* command line wins over the file, also when its value is the default one, and
\* the baseline window leaves room for minimum_history.  So does a run limit that
\* was given, and it is the one with which the runs are collected, whatever the
\* environment says.
PolicyAsAsked ==
  outcome # <<>> =>
     /\ \A name \in args.given : policy[name] = args.cli[name]
     /\ args.file = "document" =>
          \A name \in Options \ args.given : policy[name] = args.document[name]
     /\ policy.baseline_window # Absent =>
          policy.minimum_history <= policy.baseline_window + 1
     /\ Analysed /\ args.historyRunLimit # Absent =>
          runLimit = args.historyRunLimit /\ policy.minimum_history <= runLimit

\* The DAGs that --all-dags asks for.
Wanted == {d \in ToSet(listed) : args.includePaused \/ d \notin pausedDags}

\* What --all-dags analyses depends on which DAGs Airflow lists, not on their order:
\* those wanted in ascending order, all of them unless there is a limit; then as many as
\* the limit, and the first ones, each before any that is left out.
DiscoveryOrdered ==
  (args.allDags /\ outcome # <<>>) =>
     /\ \A i, j \in 1..Len(selected) : i < j => selected[i] < selected[j]
     /\ ToSet(selected) \subseteq Wanted
     /\ \A d \in Wanted \ ToSet(selected) :
          /\ args.dagLimit # Absent /\ Len(selected) = args.dagLimit
          /\ \A i \in 1..Len(selected) : selected[i] < d

AllPass == <<"pass", "pass", "pass">>

\* Those before the check that failed passed, those after it were not tried.
FailedAt(n) == [i \in 1..3 |-> IF i < n THEN "pass" ELSE IF i = n THEN "fail" ELSE "skip"]

\* The doctor can be trusted.  It ends with 0 only when the configuration is one that
\* an analysis accepts, requests can be made of it and Airflow lists a DAG.  With 1, the
\* checks name the layer at fault: the loading of the configuration, the client or
\* Airflow, or a listing without DAGs; there are no checks only where the configuration
\* is accepted and a request breaks in a way nobody expects.
DoctorTruthful ==
  (args.command = "doctor" /\ Ended /\ exit # Killed) =>
     \/ exit = 0 /\ checks = AllPass /\ Opens(Absent) /\ args.env.sendable /\ selected # <<>>
     \/ exit = 1 /\ checks = FailedAt(1) /\ ~Loads
     \/ exit = 1 /\ checks = FailedAt(2) /\ Loads /\ (Opens(Absent) => args.env.sendable)
     \/ exit = 1 /\ checks = FailedAt(3) /\ Opens(Absent) /\ args.env.sendable /\ selected = <<>>
     \/ exit = 1 /\ checks = <<>> /\ Opens(Absent)

\* What README.md says of the history run limit: it is not lower than
\* minimum_history in any analysis that is carried out.
ContradictionRejected == Analysed => policy.minimum_history <= runLimit
===============================================================================
