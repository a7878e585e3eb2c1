-------------------------- MODULE CliDelivery_proofs --------------------------
(***************************************************************************)
(* Proofs about CliDelivery, for any DAGs, severities and command lines,   *)
(* and any number of listed DAGs: exit code 0 can be trusted, what an      *)
(* analysis found is delivered, under the policy asked for and for the     *)
(* DAGs asked for, and the doctor tells the truth.                         *)
(***************************************************************************)
EXTENDS CliDelivery, Orderings_proofs, SequenceTheorems

Commands == {"analyze", "batch", "mcp", "dags", "doctor"}
Early == {"list", "select", "policy", "analyze"}
Resolving == {"policy", "analyze", "write", "gate"}
Outcomes == Severities \cup {Failed}

\* Which commands go through which steps, and that none has ended before the end.
Staged ==
  /\ args \in Invocations
  /\ stage \in Early \cup Resolving \cup {"ended"}
  /\ stage # "ended" => exit = Running
  /\ stage = "list" => args.command \in {"dags", "doctor"}
  /\ stage = "select" => args.command = "batch"
  /\ stage \in Resolving => Analyses /\ selected # <<>>

\* Nothing is known before the analysis.
Unknown ==
  /\ stage \in Early => outcome = <<>> /\ runLimit = Absent /\ checks = <<>>
  /\ stage \in {"list", "select"} => selected = <<>>

\* The list l begins the ascending list of the DAGs in W: with all of them, or with as
\* many as the limit and none after one that is left out.
Begins(l, W) ==
  /\ \A i, j \in 1..Len(l) : i < j => l[i] <= l[j]
  /\ \A i \in 1..Len(l) : l[i] \in W
  /\ \A d \in W : \/ \E i \in 1..Len(l) : l[i] = d
                  \/ /\ args.dagLimit # Absent /\ Len(l) = args.dagLimit
                     /\ \A i \in 1..Len(l) : l[i] <= d

\* What --all-dags selects, or the DAGs that were named.
Chosen ==
  /\ selected \in Seq(Dags \cup {Blank}) /\ listed \in Seq(Dags)
  /\ args.allDags /\ selected # <<>> => Begins(selected, Wanted)

\* The policy is the one asked for as soon as the analysis may begin.
Asked ==
  (stage \in {"analyze", "write", "gate"} \/ outcome # <<>>) =>
     policy = Resolved /\ PolicyAccepted

\* There are outcomes only of a request that was accepted, one for each DAG, and
\* those of an analysis that ran are of runs collected with the limit asked for.
Accepted ==
  (stage \in {"write", "gate"} \/ outcome # <<>>) =>
     /\ Analyses /\ RequestAccepted
     /\ outcome \in [1..Len(selected) -> Outcomes]
     /\ Analysed => runLimit = EffectiveLimit(args.historyRunLimit)

\* The result is written before the exit code is decided.
Delivered ==
  /\ stage = "gate" => output = "result"
  /\ OutcomesDelivered
  /\ SuccessIsComplete

IInv == Staged /\ Unknown /\ Chosen /\ Asked /\ Accepted /\ Delivered /\ DoctorTruthful

-------------------------------------------------------------------------------
(* Lemmas about the operators.                                             *)

\* The DAGs of a listing that are wanted, and only they, are visible.
LEMMA VisibleFacts ==
  ASSUME NEW found \in Listings, NEW paused \in SUBSET Dags
  PROVE  /\ Visible(found, paused) \in Seq(Dags)
         /\ ToSet(Visible(found, paused)) =
              {d \in ToSet(found) : args.includePaused \/ d \notin paused}
<1>1. found \in Seq(Dags)
  BY MaxListedAssumption DEF Listings, SeqOf
<1> DEFINE s == Only(found, Dags \ paused)
<1>2. /\ s \in Seq(Dags \cap (Dags \ paused))
      /\ \E p : /\ At(p, found, s)
                /\ \A i \in DOMAIN found : found[i] \in Dags \ paused =>
                     \E k \in DOMAIN s : p[k] = i
                /\ \A i, j \in DOMAIN s : i < j => p[i] < p[j]
  BY <1>1, OnlyKeeps
<1>3. Dags \cap (Dags \ paused) = Dags \ paused
  OBVIOUS
<1>4. s \in Seq(Dags \ paused)
  BY <1>2, <1>3
<1> HIDE DEF s
<1>5. PICK p : /\ At(p, found, s)
               /\ \A i \in DOMAIN found : found[i] \in Dags \ paused =>
                    \E k \in DOMAIN s : p[k] = i
  BY <1>2
<1>6. \A k \in DOMAIN s : p[k] \in DOMAIN found /\ s[k] = found[p[k]] /\ s[k] \notin paused
  BY <1>4, <1>5 DEF At
<1>7. \A i \in DOMAIN found : found[i] \notin paused => \E k \in DOMAIN s : s[k] = found[i]
  BY <1>1, <1>5, <1>6
<1>8. ToSet(s) = {d \in ToSet(found) : d \notin paused}
  BY <1>6, <1>7 DEF ToSet
<1>9. CASE args.includePaused
  <2>1. Visible(found, paused) = found
    BY <1>9 DEF Visible
  <2>2. {d \in ToSet(found) : args.includePaused \/ d \notin paused} = ToSet(found)
    BY <1>9
  <2> QED
    BY <1>1, <2>1, <2>2
<1>10. CASE ~args.includePaused
  <2>1. Visible(found, paused) = s
    BY <1>10 DEF Visible, s
  <2>2. {d \in ToSet(found) : args.includePaused \/ d \notin paused}
          = {d \in ToSet(found) : d \notin paused}
    BY <1>10
  <2>3. s \in Seq(Dags)
    BY <1>4
  <2> QED
    BY <1>8, <2>1, <2>2, <2>3
<1> QED
  BY <1>9, <1>10

\* The first DAG ids of a list begin the ascending list of its DAG ids.
LEMMA FirstOfFacts ==
  ASSUME NEW seq \in Seq(Dags), args \in Invocations
  PROVE  FirstOf(seq) \in Seq(Dags) /\ Begins(FirstOf(seq), ToSet(seq))
<1> DEFINE rank == [d \in Dags |-> d]
           s == SortedBy(seq, rank)
<1>1. rank \in [Dags -> Int]
  BY DagsAssumption
<1>2. PICK p : /\ At(p, seq, s)
               /\ \A i \in DOMAIN seq : \E k \in DOMAIN seq : p[k] = i
               /\ \A i, j \in DOMAIN seq : i < j => InOrder(rank, s, p, i, j)
  BY <1>1, SortedByRank
<1>3. s \in Seq(Dags) /\ Len(s) = Len(seq)
  BY <1>1, SortedByRank
<1> HIDE DEF s
<1>4. ToSet(seq) = {s[i] : i \in 1..Len(s)}
  <2>1. \A i \in 1..Len(s) : p[i] \in 1..Len(seq) /\ s[i] = seq[p[i]]
    BY <1>2, <1>3 DEF At
  <2>2. ASSUME NEW k \in 1..Len(seq) PROVE \E i \in 1..Len(s) : s[i] = seq[k]
    <3> k \in DOMAIN seq
      OBVIOUS
    <3>1. PICK i \in DOMAIN seq : p[i] = k
      BY <1>2
    <3>2. i \in 1..Len(s)
      BY <1>3
    <3> QED
      BY <2>1, <3>1, <3>2
  <2> QED
    BY <2>1, <2>2 DEF ToSet
<1>5. \A i, j \in 1..Len(s) : i < j => s[i] <= s[j]
  <2> SUFFICES ASSUME NEW i \in 1..Len(s), NEW j \in 1..Len(s), i < j
               PROVE  s[i] <= s[j]
    OBVIOUS
  <2>1. InOrder(rank, s, p, i, j)
    <3>1. i \in DOMAIN seq /\ j \in DOMAIN seq
      BY <1>3
    <3> QED
      BY <1>2, <3>1
  <2>2. s[i] \in Dags /\ s[j] \in Dags /\ Dags \subseteq Int
    BY <1>3, DagsAssumption
  <2> QED
    BY <2>1, <2>2 DEF InOrder
<1>6. args.dagLimit \in Nat
  BY InvocationsAssumption DEF InvocationType
<1>7. CASE args.dagLimit # Absent /\ args.dagLimit < Len(seq)
  <2>1. FirstOf(seq) = SubSeq(s, 1, args.dagLimit)
    BY <1>7 DEF FirstOf, s
  <2>2. args.dagLimit \in 1..Len(s)
    BY <1>3, <1>6, <1>7 DEF Absent
  <2> DEFINE f == SubSeq(s, 1, args.dagLimit)
  <2>3. /\ f \in Seq(Dags) /\ Len(f) = args.dagLimit
        /\ \A i \in 1..Len(f) : i \in 1..Len(s) /\ f[i] = s[i]
    BY <1>3, <2>2
  <2> HIDE DEF f
  <2>4. \A i, j \in 1..Len(f) : i < j => f[i] <= f[j]
    BY <1>5, <2>3
  <2>5. \A k \in 1..Len(s) : \/ \E i \in 1..Len(f) : f[i] = s[k]
                             \/ \A i \in 1..Len(f) : f[i] <= s[k]
    <3> SUFFICES ASSUME NEW k \in 1..Len(s), k \notin 1..Len(f), NEW i \in 1..Len(f)
                 PROVE  f[i] <= s[k]
      BY <2>3
    <3>1. i < k
      BY <1>3, <1>6, <2>3
    <3> QED
      BY <1>5, <2>3, <3>1
  <2>6. Begins(f, {s[i] : i \in 1..Len(s)})
    BY <1>7, <2>3, <2>4, <2>5 DEF Begins
  <2> QED
    BY <1>4, <2>1, <2>3, <2>6 DEF f
<1>8. CASE ~(args.dagLimit # Absent /\ args.dagLimit < Len(seq))
  <2>1. FirstOf(seq) = s
    BY <1>8 DEF FirstOf, s
  <2>2. Begins(s, {s[i] : i \in 1..Len(s)})
    BY <1>5 DEF Begins
  <2> QED
    BY <1>3, <1>4, <2>1, <2>2
<1> QED
  BY <1>7, <1>8

-------------------------------------------------------------------------------
(* The inductive invariant.                                                *)

\* Before a command does anything, the invariant holds.
LEMMA InitIInv == Init => IInv
<1> SUFFICES ASSUME Init PROVE IInv
  OBVIOUS
<1>1. /\ args.command \in Commands /\ args.dagIds \in Seq(Dags \cup {Blank})
      /\ args.command \in {"analyze", "mcp"} => Len(args.dagIds) = 1
      /\ args.allDags => args.command = "batch"
  <2>1. args \in Invocations
    BY DEF Init
  <2>2. args \in InvocationType
    BY <2>1, InvocationsAssumption
  <2>3. args.command \in Commands /\ args.dagIds \in Seq(Dags \cup {Blank})
    BY <2>2 DEF InvocationType, Commands
  <2>4. args.command \in {"analyze", "mcp"} => Len(args.dagIds) = 1
    BY <2>1, InvocationsAssumption
  <2>5. args.allDags => args.command = "batch"
    BY <2>1, AllDagsAssumption
  <2> QED
    BY <2>3, <2>4, <2>5
<1>2. /\ args.command \in {"dags", "doctor"} => stage = "list"
      /\ args.command = "batch" => stage = "select"
      /\ args.command \in {"analyze", "mcp"} => stage = "policy"
  BY <1>1 DEF Init, Commands
<1>3. /\ args.command \in {"analyze", "mcp"} => selected = args.dagIds
      /\ args.command \notin {"analyze", "mcp"} => selected = <<>>
  BY DEF Init
<1>4. Staged
  <2>1. stage \in {"list", "select", "policy"} /\ exit = Running /\ args \in Invocations
    BY <1>1, <1>2 DEF Init, Commands
  <2>2. stage = "policy" => args.command \in {"analyze", "mcp"} /\ selected # <<>>
    BY <1>1, <1>2, <1>3 DEF Commands
  <2>3. /\ stage = "list" => args.command \in {"dags", "doctor"}
        /\ stage = "select" => args.command = "batch"
    BY <1>1, <1>2 DEF Commands
  <2> QED
    BY <2>1, <2>2, <2>3 DEF Staged, Early, Resolving, Analyses
<1>5. selected \in Seq(Dags \cup {Blank})
  <2>1. <<>> \in Seq(Dags \cup {Blank})
    OBVIOUS
  <2> QED
    BY <1>1, <1>3, <2>1
<1>6. Chosen
  <2>1. listed \in Seq(Dags)
    BY DEF Init
  <2> QED
    BY <1>1, <1>3, <1>5, <2>1 DEF Chosen
<1>7. Unknown /\ Asked /\ Accepted
  BY <1>1, <1>2, <1>3 DEF Init, Unknown, Asked, Accepted, Commands
<1>8. Delivered /\ DoctorTruthful
  BY <1>1, <1>2 DEF Init, Delivered, DoctorTruthful, OutcomesDelivered, SuccessIsComplete, Ended, Commands,
     Running
<1> QED
  BY <1>4, <1>6, <1>7, <1>8 DEF IInv

\* What depends on the arguments only.
LEMMA ArgsKept ==
  args' = args => /\ Analyses' = Analyses
                  /\ Resolved' = Resolved
                  /\ PolicyAccepted' = PolicyAccepted
                  /\ EffectiveLimit(args.historyRunLimit)' = EffectiveLimit(args.historyRunLimit)
                  /\ Opens(Absent)' = Opens(Absent)
                  /\ Loads' = Loads
BY DEF Analyses, Resolved, PolicyAccepted, Explicit, FromCli, Sound, EffectiveLimit, Opens, Loads

\* What depends on what was listed and selected.
LEMMA ChosenKept == UNCHANGED <<args, selected, listing>> => Chosen' = Chosen
BY DEF Chosen, Begins, Wanted, listing

\* What depends on the request and its outcomes.
LEMMA RequestKept ==
  UNCHANGED <<args, selected, policy, outcome>> =>
     /\ RequestAccepted' = RequestAccepted
     /\ Analysed' = Analysed
     /\ AnyFailed' = AnyFailed
     /\ \A i : Reached(i)' = Reached(i)
BY DEF RequestAccepted, HistoryLimitOk, Analysed, AnyFailed, Reached

\* A command that ends without learning anything more keeps what it knows.
LEMMA EndingKeeps ==
  ASSUME IInv, stage' = "ended", UNCHANGED <<args, selected, policy, listing, result>>
  PROVE  Staged' /\ Unknown' /\ Chosen' /\ Asked' /\ Accepted'
<1> USE DEF IInv, result
<1>1. Staged' /\ Unknown'
  BY DEF Staged, Unknown, Early, Resolving
<1>2. Chosen'
  BY ChosenKept
<1>3. Asked'
  BY ArgsKept DEF Asked
<1>4. Accepted'
  BY ArgsKept, RequestKept DEF Accepted
<1> QED
  BY <1>1, <1>2, <1>3, <1>4

\* It keeps the invariant if nothing was analysed and it says that it failed.
LEMMA EndingEarly ==
  ASSUME IInv, stage \in {"select", "policy", "analyze"}, Leave(1) \/ Leave(2),
         UNCHANGED <<args, selected, policy, output, listing, result>>
  PROVE  IInv'
<1>1. stage' = "ended" /\ exit' \in {1, 2}
  BY DEF Leave
<1>2. Staged' /\ Unknown' /\ Chosen' /\ Asked' /\ Accepted'
  BY <1>1, EndingKeeps
<1>3. outcome' = <<>> /\ args' = args /\ args.command # "doctor"
  BY DEF IInv, Staged, Unknown, Early, Resolving, Analyses, result
<1>4. Delivered' /\ DoctorTruthful'
  BY <1>1, <1>3 DEF Delivered, OutcomesDelivered, SuccessIsComplete, DoctorTruthful
<1> QED
  BY <1>2, <1>4 DEF IInv

\* Every way to stop early, with an exit code and no result, keeps the invariant.
LEMMA RefusalsIInv ==
  IInv /\ (RefuseSelection \/ DiscoveryFails \/ RefusePolicy \/ RefuseRequest \/ AnalysisRaises)
  => IInv'
<1> SUFFICES ASSUME IInv,
                    RefuseSelection \/ DiscoveryFails \/ RefusePolicy \/ RefuseRequest
                      \/ AnalysisRaises
             PROVE  IInv'
  OBVIOUS
<1>1. /\ stage \in {"select", "policy", "analyze"}
      /\ Leave(1) \/ Leave(2)
      /\ UNCHANGED <<args, selected, policy, output, listing, result>>
  BY DEF RefuseSelection, DiscoveryFails, RefusePolicy, RefuseRequest, AnalysisRaises
<1> QED
  BY <1>1, EndingEarly

\* A kill leaves the file as it is and no exit code.
LEMMA KillIInv == IInv /\ Kill => IInv'
<1> SUFFICES ASSUME IInv, Kill PROVE IInv'
  OBVIOUS
<1>1. /\ stage' = "ended" /\ exit' = Killed
      /\ UNCHANGED <<args, selected, policy, listing, result>>
  BY DEF Kill, Leave
<1>2. Staged' /\ Unknown' /\ Chosen' /\ Asked' /\ Accepted'
  BY <1>1, EndingKeeps
<1>3. Delivered' /\ DoctorTruthful'
  BY <1>1 DEF Delivered, OutcomesDelivered, SuccessIsComplete, DoctorTruthful, Killed
<1> QED
  BY <1>2, <1>3 DEF IInv

\* An output that cannot be written is reported as a failure.
LEMMA WriteFailsIInv == IInv /\ WriteFails => IInv'
<1> SUFFICES ASSUME IInv, WriteFails PROVE IInv'
  OBVIOUS
<1>1. /\ stage = "write" /\ args.toFile /\ output' \in {"previous", "partial"}
      /\ stage' = "ended" /\ exit' = 1
      /\ UNCHANGED <<args, selected, policy, listing, result>>
  BY DEF WriteFails, Leave
<1>2. Staged' /\ Unknown' /\ Chosen' /\ Asked' /\ Accepted'
  BY <1>1, EndingKeeps
<1>3. args.command # "doctor"
  BY <1>1 DEF IInv, Staged, Resolving, Analyses
<1>4. Delivered' /\ DoctorTruthful'
  BY <1>1, <1>3 DEF Delivered, OutcomesDelivered, SuccessIsComplete, DoctorTruthful
<1> QED
  BY <1>2, <1>4 DEF IInv

\* The threshold decides the exit code of a result that was delivered.
LEMMA GateIInv == IInv /\ Gate => IInv'
<1> SUFFICES ASSUME IInv, Gate PROVE IInv'
  OBVIOUS
<1>1. /\ stage = "gate" /\ stage' = "ended" /\ exit' = Code
      /\ UNCHANGED <<args, selected, policy, output, listing, outcome, result>>
  BY DEF Gate, Leave, result
<1>2. Staged' /\ Unknown' /\ Chosen' /\ Asked' /\ Accepted'
  BY <1>1, EndingKeeps
<1>3. output' = "result" /\ selected' # <<>> /\ args.command # "doctor"
  BY <1>1 DEF IInv, Delivered, Staged, Resolving, Analyses
<1>4. DOMAIN outcome = 1..Len(selected)
  BY <1>1 DEF IInv, Accepted
<1>5. /\ Code = 0 => ~AnyFailed /\ \A i \in DOMAIN outcome : ~Reached(i)
      /\ AnyFailed => Code = 1
  BY DEF Code
<1>6. SuccessIsComplete'
  BY <1>1, <1>3, <1>4, <1>5, RequestKept DEF SuccessIsComplete, AnyFailed
<1>7. OutcomesDelivered'
  BY <1>1, <1>3, <1>5, RequestKept DEF OutcomesDelivered
<1>8. DoctorTruthful' /\ stage' # "gate"
  BY <1>1, <1>3 DEF DoctorTruthful
<1> QED
  BY <1>2, <1>6, <1>7, <1>8 DEF IInv, Delivered

\* Writing puts every outcome into the file or on the screen.
LEMMA WriteIInv == IInv /\ Write => IInv'
<1> SUFFICES ASSUME IInv, Write PROVE IInv'
  OBVIOUS
<1> USE DEF IInv
<1>1. /\ stage = "write" /\ stage' = "gate" /\ output' = "result"
      /\ UNCHANGED <<args, selected, policy, exit, listing, result>>
      /\ UNCHANGED <<outcome, runLimit, checks>>
  BY DEF Write, AfterWrite, Proceed, result
<1>2. Staged' /\ Unknown'
  BY <1>1, ArgsKept DEF Staged, Unknown, Early, Resolving
<1>3. Chosen'
  BY <1>1, ChosenKept
<1>4. Asked' /\ Accepted'
  BY <1>1, ArgsKept, RequestKept DEF Asked, Accepted
<1>5. exit' = Running
  BY <1>1 DEF Staged
<1>6. Delivered' /\ DoctorTruthful'
  BY <1>1, <1>5 DEF Delivered, OutcomesDelivered, SuccessIsComplete, DoctorTruthful, Ended, Running
<1> QED
  BY <1>2, <1>3, <1>4, <1>6

\* A policy that is accepted has the options that were asked for.
LEMMA ResolvePolicyIInv == IInv /\ ResolvePolicy => IInv'
<1> SUFFICES ASSUME IInv, ResolvePolicy PROVE IInv'
  OBVIOUS
<1> USE DEF IInv
<1>1. /\ stage = "policy" /\ stage' = "analyze" /\ policy' = Resolved /\ PolicyAccepted
      /\ UNCHANGED <<args, selected, output, exit, listing, outcome, runLimit, checks>>
  BY DEF ResolvePolicy, Proceed, result
<1>2. outcome = <<>> /\ runLimit = Absent /\ checks = <<>>
  BY <1>1 DEF Unknown, Early
<1>3. Staged' /\ Unknown'
  BY <1>1, <1>2, ArgsKept DEF Staged, Unknown, Early, Resolving
<1>4. Chosen'
  BY <1>1, ChosenKept
<1>5. Asked' /\ Accepted'
  BY <1>1, <1>2, ArgsKept DEF Asked, Accepted
<1>6. exit' = Running
  BY <1>1 DEF Staged
<1>7. Delivered' /\ DoctorTruthful'
  BY <1>1, <1>6 DEF Delivered, OutcomesDelivered, SuccessIsComplete, DoctorTruthful, Ended, Running
<1> QED
  BY <1>3, <1>4, <1>5, <1>7

\* The end of the selection, with DAGs that were asked for.
LEMMA SelectionIInv ==
  ASSUME IInv, stage = "select", stage' = "policy", selected' # <<>>, Chosen',
         UNCHANGED <<args, policy, output, exit, result>>
  PROVE  IInv'
<1> USE DEF IInv
<1>1. /\ UNCHANGED <<outcome, runLimit, checks>> /\ exit' = Running /\ args.command = "batch"
      /\ outcome = <<>> /\ runLimit = Absent /\ checks = <<>>
  BY DEF result, Staged, Unknown, Early
<1>2. Staged' /\ Unknown'
  BY <1>1 DEF Staged, Unknown, Early, Resolving, Analyses
<1>3. Asked' /\ Accepted'
  BY <1>1 DEF Asked, Accepted
<1>4. Delivered' /\ DoctorTruthful'
  BY <1>1 DEF Delivered, OutcomesDelivered, SuccessIsComplete, DoctorTruthful, Ended, Running
<1> QED
  BY <1>2, <1>3, <1>4

\* The ids given on the command line are the ones selected.
LEMMA SelectExplicitIInv == IInv /\ SelectExplicit => IInv'
<1> SUFFICES ASSUME IInv, SelectExplicit PROVE IInv'
  OBVIOUS
<1>1. /\ stage = "select" /\ stage' = "policy" /\ selected' = args.dagIds
      /\ ~SelectionRefused /\ ~args.allDags
      /\ UNCHANGED <<args, policy, output, exit, listed, result>>
  BY DEF SelectExplicit, Proceed, listing
<1>2. args \in Invocations
  BY DEF IInv, Staged
<1>3. selected' \in Seq(Dags \cup {Blank}) /\ selected' # <<>>
  BY <1>1, <1>2, InvocationsAssumption DEF InvocationType, SelectionRefused
<1>4. Chosen'
  BY <1>1, <1>3 DEF Chosen, IInv
<1> QED
  BY <1>1, <1>3, <1>4, SelectionIInv

\* Discovered ids are selected in order, up to the limit.
LEMMA DiscoverIInv == IInv /\ Discover => IInv'
<1> SUFFICES ASSUME IInv, Discover PROVE IInv'
  OBVIOUS
<1> DEFINE v == Visible(listed', pausedDags')
           chosen == FirstOf(v)
<1>1. /\ stage = "select" /\ args.allDags
      /\ listed' \in Listings /\ pausedDags' \in SUBSET Dags
      /\ UNCHANGED <<args, policy, output, result>>
      /\ IF chosen = <<>>
         THEN Leave(1) /\ UNCHANGED selected
         ELSE Proceed("policy") /\ selected' = chosen
  BY DEF Discover
<1>2. args \in Invocations /\ args.command = "batch" /\ listed' \in Seq(Dags)
  BY <1>1, MaxListedAssumption DEF IInv, Staged, Listings, SeqOf
<1>3. v \in Seq(Dags) /\ ToSet(v) = Wanted'
  <2>1. ToSet(v) = {d \in ToSet(listed') : args.includePaused \/ d \notin pausedDags'}
    BY <1>1, VisibleFacts
  <2> HIDE DEF v
  <2> QED
    BY <1>1, <2>1, VisibleFacts DEF Wanted, v
<1> HIDE DEF v
<1>4. chosen \in Seq(Dags) /\ Begins(chosen, Wanted')
  BY <1>2, <1>3, FirstOfFacts
<1> HIDE DEF chosen
<1>5. CASE chosen = <<>>
  <2>1. stage' = "ended" /\ exit' = 1 /\ UNCHANGED selected
    BY <1>1, <1>5 DEF Leave
  <2>2. /\ UNCHANGED <<outcome, runLimit, checks>>
        /\ outcome = <<>> /\ runLimit = Absent /\ checks = <<>> /\ selected = <<>>
    BY <1>1 DEF IInv, result, Unknown, Early
  <2>3. Staged' /\ Unknown'
    BY <1>1, <1>2, <2>1, <2>2 DEF Staged, Unknown, Early, Resolving
  <2>4. Chosen'
    BY <1>2, <1>4, <1>5, <2>1, <2>2 DEF Chosen
  <2>5. Asked' /\ Accepted'
    BY <2>1, <2>2 DEF Asked, Accepted
  <2>6. Delivered' /\ DoctorTruthful'
    BY <1>1, <1>2, <2>1, <2>2 DEF Delivered, OutcomesDelivered, SuccessIsComplete, DoctorTruthful
  <2> QED
    BY <2>3, <2>4, <2>5, <2>6 DEF IInv
<1>6. CASE chosen # <<>>
  <2>1. stage' = "policy" /\ UNCHANGED exit /\ selected' = chosen
    BY <1>1, <1>6 DEF Proceed
  <2>2. selected' \in Seq(Dags \cup {Blank})
    BY <1>4, <2>1
  <2>3. Begins(selected, Wanted)'
    BY <1>1, <1>4, <2>1 DEF Begins
  <2>4. Chosen'
    BY <1>2, <2>2, <2>3 DEF Chosen
  <2> QED
    BY <1>1, <1>6, <2>1, <2>4, SelectionIInv
<1> QED
  BY <1>5, <1>6

\* An analysis leaves one outcome for each selected DAG.
LEMMA AnalyzeIInv == IInv /\ Analyze => IInv'
<1> SUFFICES ASSUME IInv, Analyze PROVE IInv'
  OBVIOUS
<1> USE DEF IInv
<1>1. /\ stage = "analyze" /\ stage' = "write" /\ RequestAccepted
      /\ UNCHANGED <<args, selected, policy, output, exit, listing, checks>>
  BY DEF Analyze, Proceed
<1>2. Staged' /\ Unknown'
  BY <1>1, ArgsKept DEF Staged, Unknown, Early, Resolving
<1>3. Chosen'
  BY <1>1, ChosenKept
<1>4. Asked'
  BY <1>1, ArgsKept DEF Asked
<1>5. RequestAccepted'
  BY <1>1 DEF RequestAccepted, HistoryLimitOk
<1>6. /\ outcome' \in [1..Len(selected) -> Outcomes]
      /\ Analysed' => runLimit' = EffectiveLimit(args.historyRunLimit)
  <2>1. CASE Opens(args.historyRunLimit)
    <3>1. /\ outcome' \in [1..Len(selected) -> Severities \cup Kept]
          /\ runLimit' = EffectiveLimit(args.historyRunLimit)
      BY <2>1 DEF Analyze
    <3> QED
      BY <3>1 DEF Outcomes, Kept
  <2>2. CASE ~Opens(args.historyRunLimit)
    <3>1. outcome' \in [1..Len(selected) -> Kept]
      BY <2>2 DEF Analyze
    <3>2. ~Analysed'
      BY <3>1 DEF Analysed, Kept
    <3> QED
      BY <3>1, <3>2 DEF Outcomes, Kept
  <2> QED
    BY <2>1, <2>2
<1>7. Accepted'
  <2>1. Analyses
    BY <1>1 DEF Staged, Resolving
  <2> QED
    BY <1>1, <1>5, <1>6, <2>1, ArgsKept DEF Accepted
<1>8. exit' = Running
  BY <1>1 DEF Staged
<1>9. Delivered' /\ DoctorTruthful'
  BY <1>1, <1>8 DEF Delivered, OutcomesDelivered, SuccessIsComplete, DoctorTruthful, Ended, Running
<1> QED
  BY <1>2, <1>3, <1>4, <1>7, <1>9

\* dags and doctor end with what they have listed.
LEMMA ListingIInv ==
  ASSUME IInv, stage = "list", stage' = "ended", UNCHANGED <<args, outcome, runLimit, listing>>,
         selected' \in Seq(Dags \cup {Blank}), DoctorTruthful'
  PROVE  IInv'
<1> USE DEF IInv
<1>1. /\ args.command \in {"dags", "doctor"} /\ ~Analyses /\ outcome' = <<>>
      /\ args \in Invocations
  BY DEF Staged, Unknown, Early, Analyses
<1>2. Staged' /\ Unknown'
  BY <1>1, ArgsKept DEF Staged, Unknown, Early, Resolving
<1>3. Chosen'
  BY <1>1, AllDagsAssumption DEF Chosen, listing
<1>4. Asked' /\ Accepted'
  BY <1>1 DEF Asked, Accepted
<1>5. Delivered'
  BY <1>1, ArgsKept DEF Delivered, OutcomesDelivered, SuccessIsComplete
<1> QED
  BY <1>2, <1>3, <1>4, <1>5

\* The three ways in which one check can fail, as lists.
LEMMA Failures ==
  /\ FailedAt(1) = <<"fail", "skip", "skip">>
  /\ FailedAt(2) = <<"pass", "fail", "skip">>
  /\ FailedAt(3) = <<"pass", "pass", "fail">>
<1>1. FailedAt(1) = <<"fail", "skip", "skip">>
  BY DEF FailedAt
<1>2. FailedAt(2) = <<"pass", "fail", "skip">>
  BY DEF FailedAt
<1>3. FailedAt(3) = <<"pass", "pass", "fail">>
  BY DEF FailedAt
<1> QED
  BY <1>1, <1>2, <1>3

\* The short command that lists DAGs keeps the invariant.
LEMMA ListIInv == IInv /\ List => IInv'
<1> SUFFICES ASSUME IInv, List PROVE IInv'
  OBVIOUS
<1>1. PICK found \in Listings, paused \in SUBSET Dags : selected' = Visible(found, paused)
  BY DEF List
<1>2. /\ stage = "list" /\ Opens(Absent) /\ args.env.sendable
      /\ UNCHANGED <<args, outcome, runLimit, listing>> /\ Report(Checked(selected'), 0)
  BY DEF List
<1>3. stage' = "ended"
  BY <1>2 DEF Report, Leave
<1>4. selected' \in Seq(Dags \cup {Blank})
  <2>1. Visible(found, paused) \in Seq(Dags)
    BY VisibleFacts
  <2> QED
    BY <1>1, <2>1
<1>5. DoctorTruthful'
  <2> SUFFICES ASSUME args.command = "doctor"
               PROVE  \/ exit' = 0 /\ checks' = AllPass /\ selected' # <<>>
                      \/ exit' = 1 /\ checks' = FailedAt(3) /\ selected' = <<>>
    BY <1>2, ArgsKept DEF DoctorTruthful
  <2>1. checks' = Checked(selected') /\ exit' = IF Successful(checks') THEN 0 ELSE 1
    BY <1>2 DEF Report, Leave
  <2>2. CASE selected' = <<>>
    <3>1. checks' = <<"pass", "pass", "fail">>
      BY <2>1, <2>2 DEF Checked
    <3>2. ~Successful(checks')
      BY <3>1 DEF Successful
    <3> QED
      BY <2>1, <2>2, <3>1, <3>2, Failures
  <2>3. CASE selected' # <<>>
    <3>1. checks' = <<"pass", "pass", "pass">>
      BY <2>1, <2>3 DEF Checked
    <3>2. Successful(checks')
      BY <3>1 DEF Successful
    <3> QED
      BY <2>1, <2>3, <3>1, <3>2 DEF AllPass
  <2> QED
    BY <2>2, <2>3
<1> QED
  BY <1>2, <1>3, <1>4, <1>5, ListingIInv

\* A short command that cannot reach Airflow keeps the invariant.
LEMMA ListFailsIInv == IInv /\ ListFails => IInv'
<1> SUFFICES ASSUME IInv, ListFails PROVE IInv'
  OBVIOUS
<1> DEFINE cs == IF Loads THEN <<"pass", "fail", "skip">> ELSE <<"fail", "skip", "skip">>
<1>1. /\ stage = "list" /\ UNCHANGED <<args, selected, outcome, runLimit, listing>> /\ Report(cs, 1)
      /\ Opens(Absent) => args.env.sendable
  BY DEF ListFails
<1>2. stage' = "ended"
  BY <1>1 DEF Report, Leave
<1>3. selected' \in Seq(Dags \cup {Blank})
  BY <1>1 DEF IInv, Chosen
<1>4. DoctorTruthful'
  <2> SUFFICES ASSUME args.command = "doctor"
               PROVE  /\ exit' = 1
                      /\ checks' = IF Loads THEN FailedAt(2) ELSE FailedAt(1)
    BY <1>1, ArgsKept DEF DoctorTruthful
  <2>1. checks' = cs /\ exit' = IF Successful(cs) THEN 0 ELSE 1
    BY <1>1 DEF Report, Leave
  <2>2. ~Successful(cs)
    BY DEF Successful
  <2> QED
    BY <2>1, <2>2, Failures
<1> QED
  BY <1>1, <1>2, <1>3, <1>4, ListingIInv

\* So does an exception that shows no check.
LEMMA ListEscapesIInv == IInv /\ ListEscapes => IInv'
<1> SUFFICES ASSUME IInv, ListEscapes PROVE IInv'
  OBVIOUS
<1>1. /\ stage = "list" /\ stage' = "ended" /\ exit' = 1 /\ Opens(Absent)
      /\ UNCHANGED <<args, selected, outcome, runLimit, checks, listing>>
  BY DEF ListEscapes, Leave, result
<1>2. checks = <<>> /\ selected \in Seq(Dags \cup {Blank})
  BY <1>1 DEF IInv, Unknown, Early, Chosen
<1>3. DoctorTruthful'
  BY <1>1, <1>2, ArgsKept DEF DoctorTruthful
<1> QED
  BY <1>1, <1>2, <1>3, ListingIInv

\* The invariant is inductive.
THEOREM AlwaysIInv == Spec => []IInv
<1>1. IInv /\ [Next]_vars => IInv'
  <2> SUFFICES ASSUME IInv, [Next]_vars PROVE IInv'
    OBVIOUS
  <2>1. CASE Next
    BY <2>1, ListIInv, ListFailsIInv, ListEscapesIInv, RefusalsIInv, SelectExplicitIInv, DiscoverIInv,
       ResolvePolicyIInv, AnalyzeIInv, WriteIInv, WriteFailsIInv, GateIInv, KillIInv
    DEF Next, Step
  <2>2. CASE UNCHANGED vars
    <3>1. UNCHANGED <<args, stage, selected, policy, output, exit, listing, outcome,
                      runLimit, checks>>
      BY <2>2 DEF vars, result
    <3>2. Staged' /\ Unknown' /\ Chosen'
      BY <3>1, ArgsKept, ChosenKept DEF IInv, Staged, Unknown
    <3>3. Asked' /\ Accepted'
      BY <3>1, ArgsKept, RequestKept DEF IInv, Asked, Accepted
    <3>4. Delivered' /\ DoctorTruthful'
      BY <3>1, ArgsKept, RequestKept
      DEF IInv, Delivered, OutcomesDelivered, SuccessIsComplete, DoctorTruthful, Ended
    <3> QED
      BY <3>2, <3>3, <3>4 DEF IInv
  <2> QED
    BY <2>1, <2>2
<1> QED
  BY InitIInv, <1>1, PTL DEF Spec

-------------------------------------------------------------------------------
(* The properties.                                                         *)

\* Exit code 0 of an analysis: everything that was selected was analysed and
\* written, and no severity reached --fail-on (main.py, analyze_batch and analyze).
THEOREM SuccessIsCompleteAlways == Spec => []SuccessIsComplete
<1>1. IInv => SuccessIsComplete
  BY DEF IInv, Delivered
<1> QED
  BY <1>1, AlwaysIInv, PTL

\* Outcomes reach the caller: as the complete result, or as exit code 1; and a
\* failed DAG outranks a severity that was reached (main.py, analyze_batch).
THEOREM OutcomesAreDelivered == Spec => []OutcomesDelivered
<1>1. IInv => OutcomesDelivered
  BY DEF IInv, Delivered
<1> QED
  BY <1>1, AlwaysIInv, PTL

\* The policy and the run limit of an analysis are those asked for, whatever the
\* file, the command line and the environment say (resolve_analysis_policy).
THEOREM PolicyIsAsAsked == Spec => []PolicyAsAsked
<1>1. IInv => PolicyAsAsked
  <2> SUFFICES ASSUME IInv, outcome # <<>> PROVE PolicyAsAsked
    BY DEF PolicyAsAsked
  <2>1. policy = Resolved /\ PolicyAccepted /\ RequestAccepted /\ args \in Invocations
    BY DEF IInv, Asked, Accepted, Staged
  <2>2. /\ args.given \subseteq Options /\ args.cli \in Policies /\ args.document \in Policies
        /\ args.historyRunLimit \in Nat
    BY <2>1, InvocationsAssumption DEF InvocationType
  <2>3. \A name \in Options : FromCli(name) \in Nat /\ args.document[name] \in Nat
    BY <2>2 DEF Options, FromCli, Default, Policies, Absent
  <2>4. \A name \in Options : policy[name] = IF args.file = "document" /\ ~Explicit(name)
                                             THEN args.document[name] ELSE FromCli(name)
    BY <2>1 DEF Resolved
  <2>5. policy.minimum_history \in Nat /\ policy.baseline_window \in Nat
    BY <2>3, <2>4 DEF Options
  <2>6. /\ \A name \in args.given : policy[name] = args.cli[name]
        /\ args.file = "document" =>
             \A name \in Options \ args.given : policy[name] = args.document[name]
    BY <2>2, <2>4 DEF Explicit, FromCli
  <2>7. policy.baseline_window # Absent => policy.minimum_history <= policy.baseline_window + 1
    BY <2>1, <2>5 DEF PolicyAccepted, Sound
  <2>8. Analysed /\ args.historyRunLimit # Absent =>
          runLimit = args.historyRunLimit /\ policy.minimum_history <= runLimit
    <3> SUFFICES ASSUME Analysed, args.historyRunLimit # Absent
                 PROVE  runLimit = args.historyRunLimit /\ policy.minimum_history <= runLimit
      OBVIOUS
    <3>1. runLimit = args.historyRunLimit
      BY DEF IInv, Accepted, EffectiveLimit
    <3>2. args.historyRunLimit >= policy.minimum_history
      BY <2>1 DEF RequestAccepted, HistoryLimitOk
    <3> QED
      BY <2>2, <2>5, <3>1, <3>2
  <2> QED
    BY <2>6, <2>7, <2>8 DEF PolicyAsAsked
<1> QED
  BY <1>1, AlwaysIInv, PTL

\* However Airflow orders its listing, --all-dags analyses the DAGs of it that are
\* wanted, in ascending order: all of them, or the first ones up to the limit
\* (_resolve_batch_dag_ids, list_dag_ids).
THEOREM DiscoveryIsOrdered == Spec => []DiscoveryOrdered
<1>1. IInv => DiscoveryOrdered
  <2> SUFFICES ASSUME IInv, args.allDags, outcome # <<>> PROVE DiscoveryOrdered
    BY DEF DiscoveryOrdered
  <2>1. outcome \in [1..Len(selected) -> Outcomes] /\ IsInjective(selected)
    BY DEF IInv, Accepted, RequestAccepted
  <2>2. selected \in Seq(Dags \cup {Blank}) /\ Dags \cup {Blank} \subseteq Nat
    BY DagsAssumption DEF IInv, Chosen, Blank
  <2>3. selected # <<>>
    BY <2>1
  <2>4. Begins(selected, Wanted)
    BY <2>3 DEF IInv, Chosen
  <2>5. \A i \in 1..Len(selected) : selected[i] \in Nat
    BY <2>2
  <2>6. ASSUME NEW i \in 1..Len(selected), NEW j \in 1..Len(selected), i < j
        PROVE  selected[i] < selected[j]
    <3>1. selected[i] # selected[j]
      BY <2>1, <2>2, <2>6 DEF IsInjective
    <3>2. selected[i] <= selected[j]
      BY <2>4, <2>6 DEF Begins
    <3> QED
      BY <2>5, <3>1, <3>2
  <2>7. ToSet(selected) = {selected[i] : i \in 1..Len(selected)}
    BY <2>2 DEF ToSet
  <2>8. ToSet(selected) \subseteq Wanted
    BY <2>4, <2>7 DEF Begins
  <2>9. ASSUME NEW d \in Wanted \ ToSet(selected)
        PROVE  /\ args.dagLimit # Absent /\ Len(selected) = args.dagLimit
               /\ \A i \in 1..Len(selected) : selected[i] < d
    <3>1. /\ args.dagLimit # Absent /\ Len(selected) = args.dagLimit
          /\ \A i \in 1..Len(selected) : selected[i] <= d
      BY <2>4, <2>7 DEF Begins
    <3>2. \A i \in 1..Len(selected) : selected[i] # d
      BY <2>7
    <3>3. d \in Nat
      <4>1. listed \in Seq(Dags) /\ d \in ToSet(listed)
        BY DEF IInv, Chosen, Wanted
      <4>2. PICK i \in DOMAIN listed : d = listed[i]
        BY <4>1 DEF ToSet
      <4>3. d \in Dags /\ Dags \subseteq Nat
        BY <4>1, <4>2, DagsAssumption
      <4> QED
        BY <4>3
    <3> QED
      BY <2>5, <3>1, <3>2, <3>3
  <2> QED
    BY <2>6, <2>8, <2>9 DEF DiscoveryOrdered
<1> QED
  BY <1>1, AlwaysIInv, PTL

\* The doctor ends with 0 only where an analysis could be made; otherwise it names the
\* layer at fault, or breaks in a request with nothing shown (doctor of main.py).
THEOREM DoctorIsTruthful == Spec => []DoctorTruthful
<1>1. IInv => DoctorTruthful
  BY DEF IInv
<1> QED
  BY <1>1, AlwaysIInv, PTL
===============================================================================
