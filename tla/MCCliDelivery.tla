---------------------------- MODULE MCCliDelivery ----------------------------
(* An instance of CliDelivery for TLC: three DAGs, three severities, and the *)
(* command lines that differ in what one part of the command makes of them.  *)
EXTENDS CliDelivery

MCDags == 1..3
MCSeverities == 0..2

Local == [numbers |-> TRUE, mode |-> "token", credentials |-> {"username", "password"},
          inRange |-> TRUE, limit |-> 5, sendable |-> TRUE]

Plain == [command |-> "analyze", env |-> Local, dagIds |-> <<1>>, allDags |-> FALSE,
          includePaused |-> FALSE, dagLimit |-> Absent,
          file |-> "none", document |-> Default, given |-> {}, cli |-> Default,
          historyRunLimit |-> Absent, toFile |-> FALSE, failOn |-> Absent]

\* Every way to select DAGs, under one policy.
Selections ==
  {[Plain EXCEPT !.command = "batch", !.dagIds = ids, !.allDags = all,
                 !.includePaused = paused, !.dagLimit = n, !.failOn = 1] :
     ids \in {<<>>, <<1>>, <<2, 1>>, <<3, 3>>, <<2, Blank>>}, all \in BOOLEAN,
     paused \in BOOLEAN, n \in 0..2}

\* Every policy, for one DAG: the smallest history is too small, the other two are
\* the default and one that the window of 3 does not serve.
Values == [minimum_history : {1, 4, 5}, baseline_window : {Absent, 3, 4}]

PolicyChoices ==
  {[Plain EXCEPT !.command = c, !.file = "document", !.document = d, !.given = g, !.cli = v,
                 !.historyRunLimit = n] :
     c \in {"analyze", "batch"}, d \in Values, g \in SUBSET Options,
     v \in {p \in Values : p.minimum_history >= 2}, n \in {Absent, 4}}
  \cup {[Plain EXCEPT !.command = c, !.file = f, !.given = g, !.cli = v] :
     c \in {"analyze", "batch"}, f \in {"none", "broken"}, g \in SUBSET Options,
     v \in {p \in Values : p.minimum_history >= 2}}

\* Every output and threshold, for one DAG and for two.
Deliveries ==
  {[Plain EXCEPT !.command = "batch", !.dagIds = ids, !.toFile = f, !.failOn = t] :
     ids \in {<<1>>, <<2, 1>>}, f \in BOOLEAN, t \in 0..2}
  \cup {[Plain EXCEPT !.toFile = f, !.failOn = t] : f \in BOOLEAN, t \in 0..2}

\* Every environment, with a limit that no client accepts, one below the default
\* minimum_history and one above it, for every command.
Environments ==
  {[Local EXCEPT !.mode = m, !.credentials = k] :
     m \in {"basic", "token", "bearer", "other"},
     k \in SUBSET {"username", "password", "bearer_token"}}
  \cup {[Local EXCEPT !.numbers = n, !.inRange = r, !.limit = l, !.sendable = s] :
     n \in BOOLEAN, r \in BOOLEAN, l \in {1, 3, 5}, s \in BOOLEAN}

Configurations ==
  {[Plain EXCEPT !.command = c, !.env = e, !.historyRunLimit = n] :
     c \in {"analyze", "batch", "mcp"}, e \in Environments, n \in {Absent, 2, 6}}
  \cup {[Plain EXCEPT !.command = c, !.env = e, !.dagIds = <<>>, !.includePaused = p] :
     c \in {"dags", "doctor"}, e \in Environments, p \in BOOLEAN}
  \cup {[Plain EXCEPT !.command = "batch", !.env = e, !.dagIds = <<>>, !.allDags = TRUE] :
     e \in Environments}

\* The MCP tool bounds none of its arguments itself; a DAG id may be blank.
ToolCalls ==
  {[Plain EXCEPT !.command = "mcp", !.given = g, !.cli = v, !.historyRunLimit = n] :
     g \in SUBSET Options, v \in Values, n \in {Absent, 1, 4}}
  \cup {[Plain EXCEPT !.command = c, !.dagIds = <<Blank>>] : c \in {"analyze", "mcp"}}

MCInvocations == Selections \cup PolicyChoices \cup Deliveries \cup Configurations
                 \cup ToolCalls
===============================================================================
