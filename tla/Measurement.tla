---------------------------- MODULE Measurement ----------------------------
(***************************************************************************)
(* measure_live_isolation.py: the evaluator, its pool of workers and the   *)
(* report, against a service that may answer anything.  The service itself *)
(* is TenantVault's subject; here its answers are inputs.                  *)
(*                                                                         *)
(* A worker whose request raises ends its job with the exception.  The     *)
(* executor still runs every other job before main sees it, and then there *)
(* is no report.                                                           *)
(***************************************************************************)
EXTENDS Integers, Sequences, FiniteSets, Functions

CONSTANTS
  TENANTS,      \* in the order of the dict
  iterations,
  workers,
  Service,      \* how the service under test may answer
  Latencies,    \* round trips a request may take
  Fraction      \* of the reported percentile, as a quotient

ASSUME MeasurementAssumption ==
  /\ iterations \in Nat \ {0} /\ workers \in Nat \ {0}     \* parser.error otherwise
  /\ Len(TENANTS) \in Nat \ {0} /\ Latencies \in SUBSET Nat
  /\ Service \subseteq {"good", "error", "unsound", "exposed"}
  /\ Fraction[1] \in Nat /\ Fraction[2] \in Nat \ {0} /\ Fraction[1] <= Fraction[2]

VARIABLES
  stage,       \* of main
  fences,      \* status of the two override attempts
  next,        \* the job a free worker takes next
  state,       \* of each job
  answer,      \* to its request
  results,     \* jobs whose result as_completed has handed over
  report

measureVars == <<stage, fences, next, state, answer, results, report>>

\* Per iteration and tenant a retrieval and a canary probe.
Jobs == 1..(iterations * Len(TENANTS) * 2)

Kind(j) == IF j % 2 = 1 THEN "retrieval" ELSE "canary_probe"

In(states) == {j \in Jobs : state[j] \in states}

Resolved == In({"answered"})

\* error: a status other than 200.  unsound: a 200 that lacks the receipt, the
\* signature, a source or the JSON.  exposed: a probe reports the canary.
Answers(j) ==
  IF Kind(j) = "retrieval" THEN [kind : Service \ {"exposed"}, latency : Latencies]
                           ELSE [kind : Service, latency : {0}]

Valid(j) == answer[j].kind = "good"

Total(S) == [attempted |-> Cardinality(S), passed |-> Cardinality({j \in S : Valid(j)})]

OfKind(k) == {j \in results : Kind(j) = k}
-----------------------------------------------------------------------------
\* The jobs of S in an order in which the latencies of these answers ascend.
Ascending(answers, S) ==
  CHOOSE f \in Bijection(1..Cardinality(S), S) :
    \A i, k \in 1..Cardinality(S) : i <= k => answers[f[i]].latency <= answers[f[k]].latency

\* sorted() over the latencies of S.
Sorted(S) == [i \in 1..Cardinality(S) |-> answer[Ascending(answer, S)[i]].latency]

Ceil(a, b) == -((-a) \div b)

\* Mutant: floor for ceil.
RankDown(n) == IF (n * Fraction[1]) \div Fraction[2] = 0 THEN 1 ELSE (n * Fraction[1]) \div Fraction[2]

\* max(0, ceil(n * fraction) - 1), counted from 1.
Rank(n) == IF Ceil(n * Fraction[1], Fraction[2]) = 0 THEN 1 ELSE Ceil(n * Fraction[1], Fraction[2])

percentile(ordered) == IF ordered = <<>> THEN 0 ELSE ordered[Rank(Len(ordered))]

\* statistics.median, doubled: the mean of the two in the middle.
median2(ordered) == ordered[(Len(ordered) + 1) \div 2] + ordered[Len(ordered) \div 2 + 1]
-----------------------------------------------------------------------------
MeasureInit ==
  /\ stage = "fences"
  /\ fences = <<0, 0>>
  /\ next = 1
  /\ state = [j \in Jobs |-> "queued"]
  /\ answer = [j \in Jobs |-> [kind |-> "none", latency |-> 0]]
  /\ results = {}
  /\ report = [passed |-> FALSE]

\* The header override and the body override, answered as they must be or not.
TryFences ==
  /\ stage = "fences"
  /\ fences' \in {400, 500} \X {422, 500}
  /\ stage' = "pool"
  /\ UNCHANGED <<next, state, answer, results, report>>

\* A request fails: the exception ends the script, without a report.
FencesRaise ==
  /\ stage = "fences"
  /\ stage' = "aborted"
  /\ UNCHANGED <<fences, next, state, answer, results, report>>

Take ==
  /\ stage = "pool"
  /\ next \in Jobs
  /\ Cardinality(In({"running"})) < workers
  /\ state' = [state EXCEPT ![next] = "running"]
  /\ next' = next + 1
  /\ UNCHANGED <<stage, fences, answer, results, report>>

Complete(j) ==
  /\ state[j] = "running"
  /\ \/ /\ \E a \in Answers(j) : answer' = [answer EXCEPT ![j] = a]
        /\ state' = [state EXCEPT ![j] = "answered"]
     \/ state' = [state EXCEPT ![j] = "raised"] /\ UNCHANGED answer
  /\ UNCHANGED <<stage, fences, next, results, report>>

\* as_completed: any resolved job, each once.
Collect(j) ==
  /\ stage = "pool"
  /\ j \in Resolved \ results
  /\ results' = results \cup {j}
  /\ UNCHANGED <<stage, fences, next, state, answer, report>>

\* Mutant: main waits for the result of a job that raised.
AwaitRaised ==
  /\ stage = "pool"
  /\ In({"raised"}) # {}
  /\ UNCHANGED measureVars

\* result() raises; leaving the with block waits for the rest.
PoolRaises ==
  /\ stage = "pool"
  /\ In({"raised"}) # {}
  /\ In({"queued", "running"}) = {}
  /\ stage' = "aborted"
  /\ UNCHANGED <<fences, next, state, answer, results, report>>

\* Mutant: the report is made of what is there when no job is left to take.
CollectedSoFar == In({"queued"}) = {} /\ OfKind("retrieval") # {}

Collected == results = Jobs

WriteReport ==
  /\ stage = "pool"
  /\ Collected
  /\ LET retrieval == Total(OfKind("retrieval"))
         probes == Total(OfKind("canary_probe"))
         latencies == Sorted(OfKind("retrieval"))
         exposures == probes.attempted - probes.passed
     IN  report' = [retrieval |-> retrieval, probes |-> probes, exposures |-> exposures,
                    p50doubled |-> median2(latencies), p95 |-> percentile(latencies),
                    passed |-> fences = <<400, 422>> /\ retrieval.attempted = retrieval.passed
                               /\ exposures = 0]
  /\ stage' = "reported"
  /\ UNCHANGED <<fences, next, state, answer, results>>

Over == stage \in {"reported", "aborted"} /\ UNCHANGED measureVars

Main == TryFences \/ FencesRaise \/ PoolRaises \/ WriteReport \/ \E j \in Jobs : Collect(j)

MeasureNext == Main \/ Take \/ (\E j \in Jobs : Complete(j)) \/ Over

\* httpx ends every request within its timeout.
MeasureSpec ==
  /\ MeasureInit /\ [][MeasureNext]_measureVars
  /\ WF_measureVars(Main) /\ WF_measureVars(Take) /\ \A j \in Jobs : WF_measureVars(Complete(j))
-----------------------------------------------------------------------------
\* A good report stands for every attempt there was to make: both overrides were
\* turned away, and all retrievals and probes were answered, and as they should be.
PassedMeansAllValid ==
  stage = "reported" =>
    (report.passed <=> fences = <<400, 422>> /\ Resolved = Jobs /\ \A j \in Jobs : Valid(j))

\* The reported percentile is the nearest-rank one: an observed latency that the
\* fraction of all retrievals does not exceed, and the least such; for a fraction above
\* one half it is no less than the median.
PercentileIsNearestRank ==
  stage = "reported" =>
    LET n == report.retrieval.attempted
        atMost(x) == Cardinality({j \in OfKind("retrieval") : answer[j].latency <= x})
        enough(x) == atMost(x) * Fraction[2] >= n * Fraction[1]
    IN  /\ \E j \in OfKind("retrieval") : answer[j].latency = report.p95
        /\ enough(report.p95)
        /\ \A j \in OfKind("retrieval") : enough(answer[j].latency) => report.p95 <= answer[j].latency
        /\ 2 * Fraction[1] > Fraction[2] => report.p50doubled <= 2 * report.p95

\* The evaluator comes to an end, with a report or without, whatever a request does.
MeasurementEnds == <>(stage \in {"reported", "aborted"})
=============================================================================
