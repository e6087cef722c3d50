---------------------------- MODULE ScriptProofs ----------------------------
(***************************************************************************)
(* The two scripts that judge the service: the measurement, for any number *)
(* of tenants, iterations and workers and any answers of the service, and  *)
(* the benchmark, for any number of tenants and documents, any corpus and  *)
(* any set of broken fences.                                               *)
(***************************************************************************)
EXTENDS Measurement, Benchmark, FiniteSetTheorems, WellFoundedInduction, TLAPS

\* Among finitely many places there is a first of the largest: a smallest set of places
\* without one would have one when some place is left out, and then that or the left-out
\* place would be it.
LEMMA FirstOfTheLargest ==
  ASSUME NEW K, IsFiniteSet(K), K \subseteq Nat, K # {}, NEW s \in [K -> Nat]
  PROVE  \E k \in K : \A j \in K : s[j] <= s[k] /\ (j < k => s[j] < s[k])
<1> DEFINE Best(A, k) == k \in A /\ \A j \in A : s[j] <= s[k] /\ (j < k => s[j] < s[k])
           bad == {A \in SUBSET K : A # {} /\ ~ \E k \in A : Best(A, k)}
<1> SUFFICES ASSUME K \in bad PROVE FALSE
  OBVIOUS
<1>1. bad \subseteq FiniteSubsetsOf(K)
  BY FS_Subset DEF FiniteSubsetsOf
<1>2. PICK A \in bad : \A B \in bad : <<B, A>> \notin StrictSubsetOrdering(K)
  BY <1>1, FS_StrictSubsetOrderingWellFounded, WFMin
<1>3. PICK x \in A : TRUE
  OBVIOUS
<1>4. A \ {x} \notin bad
  <2>1. A \in SUBSET K
    OBVIOUS
  <2>2. <<A \ {x}, A>> \in StrictSubsetOrdering(K)
    BY <1>3, <2>1 DEF StrictSubsetOrdering
  <2> HIDE DEF bad
  <2> QED
    BY <1>2, <2>2
<1>5. \A k \in A : k \in Nat /\ s[k] \in Nat
  OBVIOUS
<1>6. CASE A \ {x} = {}
  BY <1>3, <1>5, <1>6
<1>7. CASE A \ {x} # {}
  <2>1. PICK k \in A \ {x} : Best(A \ {x}, k)
    BY <1>4, <1>7
  <2>2. s[k] < s[x] \/ (s[k] = s[x] /\ x < k) => Best(A, x)
    BY <1>3, <1>5, <2>1
  <2>3. s[x] < s[k] \/ (s[k] = s[x] /\ k < x) => Best(A, k)
    BY <1>3, <1>5, <2>1
  <2> QED
    BY <1>3, <1>5, <2>1, <2>2, <2>3
<1> QED
  BY <1>6, <1>7
-----------------------------------------------------------------------------
(***************************************************************************)
(* The measurement.  A result is handed over only once its job has been    *)
(* answered, and an answer is never taken back.                            *)
(***************************************************************************)
JobState == {"queued", "running", "answered", "raised"}

\* Jobs are taken in their order, and what the report says is what the results of all jobs say.
MeasureInv ==
  /\ state \in [Jobs -> JobState]
  /\ DOMAIN answer = Jobs
  /\ next \in Nat /\ \A j \in Jobs : j >= next => state[j] = "queued"
  /\ results \subseteq Resolved
  /\ stage = "reported" =>
       /\ results = Jobs
       /\ report.passed <=> fences = <<400, 422>> /\ \A j \in Jobs : Valid(j)

LEMMA JobsAreFinite == IsFiniteSet(Jobs)
<1>1. iterations * Len(TENANTS) * 2 \in Nat
  BY MeasurementAssumption
<1> QED
  BY <1>1, FS_Interval DEF Jobs

\* As many passed as were attempted exactly if all passed.
LEMMA AllPassed ==
  ASSUME NEW S, IsFiniteSet(S)
  PROVE  /\ Total(S).attempted = Total(S).passed <=> \A j \in S : Valid(j)
         /\ Total(S).attempted - Total(S).passed = 0 <=> \A j \in S : Valid(j)
<1> DEFINE good == {j \in S : Valid(j)}
<1>1. IsFiniteSet(good) /\ Cardinality(good) \in Nat /\ Cardinality(S) \in Nat
  BY FS_Subset, FS_CardinalityType
<1>2. Cardinality(good) = Cardinality(S) <=> good = S
  BY FS_Subset
<1>3. Total(S).attempted = Cardinality(S) /\ Total(S).passed = Cardinality(good)
  BY DEF Total
<1> QED
  BY <1>1, <1>2, <1>3

LEMMA MeasureStart == MeasureInit => MeasureInv
BY DEF MeasureInit, MeasureInv, JobState, Resolved, In

LEMMA MeasureStep == MeasureInv /\ [MeasureNext]_measureVars => MeasureInv'
<1> SUFFICES ASSUME MeasureInv, [MeasureNext]_measureVars PROVE MeasureInv'
  OBVIOUS
<1> USE DEF MeasureInv, JobState, Resolved, In, Valid
<1>0. \A j \in Jobs : j \in Nat
  BY DEF Jobs
<1>1. CASE TryFences \/ FencesRaise \/ PoolRaises
  BY <1>1 DEF TryFences, FencesRaise, PoolRaises
<1>2. ASSUME NEW j \in Jobs, Collect(j) PROVE MeasureInv'
  BY <1>2 DEF Collect
<1>3. ASSUME NEW j \in Jobs, Complete(j) PROVE MeasureInv'
  <2>1. state[j] = "running" /\ stage' = stage /\ results' = results /\ next' = next
    BY <1>3 DEF Complete
  <2>2. state' \in [Jobs -> JobState] /\ DOMAIN answer' = Jobs
    BY <1>3 DEF Complete
  <2>3. \A k \in Jobs : k # j => state'[k] = state[k] /\ answer'[k] = answer[k]
    BY <1>3 DEF Complete
  <2>4. j \notin results /\ stage # "reported"
    BY <2>1
  <2>5. next' \in Nat /\ \A k \in Jobs : k >= next' => state'[k] = "queued"
    BY <2>1, <2>3
  <2>6. results' \subseteq Resolved'
    BY <2>1, <2>3, <2>4
  <2> QED
    BY <2>1, <2>2, <2>4, <2>5, <2>6
<1>4. CASE WriteReport
  <2>1. results = Jobs /\ UNCHANGED <<fences, next, state, answer, results>>
    BY <1>4 DEF WriteReport, Collected
  <2>2. report'.passed <=>
          /\ fences = <<400, 422>>
          /\ Total(OfKind("retrieval")).attempted = Total(OfKind("retrieval")).passed
          /\ Total(OfKind("canary_probe")).attempted - Total(OfKind("canary_probe")).passed = 0
    BY <1>4 DEF WriteReport
  <2>3. IsFiniteSet(OfKind("retrieval")) /\ IsFiniteSet(OfKind("canary_probe"))
    BY <2>1, JobsAreFinite, FS_Subset DEF OfKind
  <2>4. Jobs = OfKind("retrieval") \cup OfKind("canary_probe")
    BY <2>1 DEF OfKind, Kind
  <2>5. report'.passed <=> fences = <<400, 422>> /\ \A j \in Jobs : Valid(j)
    BY <2>2, <2>3, <2>4, AllPassed
  <2>6. Resolved' = Resolved /\ \A j \in Jobs : Valid(j)' <=> Valid(j)
    BY <2>1
  <2> QED
    BY <2>1, <2>5, <2>6
<1>5. CASE Take
  <2>1. /\ next \in Jobs /\ state' = [state EXCEPT ![next] = "running"] /\ next' = next + 1
        /\ stage = "pool" /\ UNCHANGED <<stage, fences, answer, results, report>>
    BY <1>5 DEF Take
  <2>2. state[next] = "queued"
    BY <1>0, <2>1
  <2>3. \A j \in Jobs : j >= next' => j >= next /\ j # next
    BY <1>0, <2>1
  <2> QED
    BY <1>0, <2>1, <2>2, <2>3
<1>6. CASE Over \/ UNCHANGED measureVars
  BY <1>6 DEF Over, measureVars
<1> QED
  BY <1>1, <1>2, <1>3, <1>4, <1>5, <1>6 DEF MeasureNext, Main

\* A report is written only when every job was answered, and passes exactly if every
\* answer was as it should be, however the workers took and finished the jobs.
THEOREM ReportsAreComplete == MeasureSpec => []PassedMeansAllValid
<1>1. MeasureInv => PassedMeansAllValid
  BY DEF MeasureInv, PassedMeansAllValid, Resolved, In
<1> QED
  BY <1>1, MeasureStart, MeasureStep, PTL DEF MeasureSpec
-----------------------------------------------------------------------------
(***************************************************************************)
(* The percentile.  A sort of the latencies exists; how many of them are   *)
(* at most the one at rank r is then a matter of positions; and the rank   *)
(* is the least r whose r / n reaches the fraction.                        *)
(***************************************************************************)
\* f puts the jobs of S in an order in which latencies ascend.
Sorts(f, S) ==
  /\ f \in Bijection(1..Cardinality(S), S)
  /\ \A i, k \in 1..Cardinality(S) : i <= k => answer[f[i]].latency <= answer[f[k]].latency

\* A smallest set that cannot be sorted could be sorted without one of its largest jobs,
\* which then goes to the end.
LEMMA SortExists ==
  ASSUME NEW S, IsFiniteSet(S), S \subseteq Nat, \A j \in S : answer[j].latency \in Nat
  PROVE  \E f : Sorts(f, S)
<1> DEFINE bad == {A \in SUBSET S : ~ \E f : Sorts(f, A)}
<1> SUFFICES ASSUME S \in bad PROVE FALSE
  OBVIOUS
<1>1. bad \subseteq FiniteSubsetsOf(S)
  BY FS_Subset DEF FiniteSubsetsOf
<1>2. PICK A \in bad : \A B \in bad : <<B, A>> \notin StrictSubsetOrdering(S)
  BY <1>1, FS_StrictSubsetOrderingWellFounded, WFMin
<1>3. A \subseteq S /\ IsFiniteSet(A) /\ Cardinality(A) \in Nat
  BY <1>1, FS_Subset, FS_CardinalityType
<1>4. CASE A = {}
  <2>1. Cardinality(A) = 0
    BY <1>4, FS_EmptySet
  <2>2. [i \in 1..0 |-> 0] \in Bijection(1..0, A)
    BY <1>4 DEF Bijection, Injection, Surjection, IsInjective
  <2>3. Sorts([i \in 1..0 |-> 0], A)
    BY <2>1, <2>2 DEF Sorts
  <2> QED
    BY <2>3
<1>5. CASE A # {}
  <2> DEFINE s == [j \in A |-> answer[j].latency]
             n == Cardinality(A)
  <2>1. s \in [A -> Nat] /\ \A j \in A : s[j] = answer[j].latency
    BY <1>3
  <2>2. PICK x \in A : \A j \in A : answer[j].latency <= answer[x].latency
    <3>1. PICK x \in A : \A j \in A : s[j] <= s[x]
      <4> HIDE DEF s
      <4> QED
        BY <1>3, <1>5, <2>1, FirstOfTheLargest
    <3> QED
      BY <2>1, <3>1
  <2>3. A \ {x} \notin bad
    <3>1. <<A \ {x}, A>> \in StrictSubsetOrdering(S)
      BY <1>3, <2>2 DEF StrictSubsetOrdering
    <3> HIDE DEF bad
    <3> QED
      BY <1>2, <3>1
  <2>4. PICK g : Sorts(g, A \ {x})
    BY <1>3, <2>3
  <2>5. Cardinality(A \ {x}) = n - 1 /\ n \in Nat \ {0}
    BY <1>3, <1>5, FS_RemoveElement, FS_EmptySet
  <2> DEFINE f == [i \in 1..n |-> IF i = n THEN x ELSE g[i]]
  <2> HIDE DEF n
  <2>6. /\ g \in [1..(n - 1) -> A \ {x}]
        /\ \A i, k \in 1..(n - 1) : g[i] = g[k] => i = k
        /\ \A j \in A \ {x} : \E i \in 1..(n - 1) : g[i] = j
        /\ \A i, k \in 1..(n - 1) : i <= k => answer[g[i]].latency <= answer[g[k]].latency
    BY <2>4, <2>5 DEF Sorts, Bijection, Injection, Surjection, IsInjective
  <2>7. \A i \in 1..n : i = n \/ i \in 1..(n - 1)
    BY <2>5
  <2>8. f \in [1..n -> A] /\ \A i, k \in 1..n : f[i] = f[k] => i = k
    BY <2>5, <2>6, <2>7
  <2>9. \A j \in A : \E i \in 1..n : f[i] = j
    <3>1. f[n] = x /\ n \in 1..n
      BY <2>5
    <3>2. \A i \in 1..(n - 1) : i \in 1..n /\ f[i] = g[i]
      BY <2>5
    <3> QED
      BY <2>6, <3>1, <3>2
  <2>10. ASSUME NEW i \in 1..n, NEW k \in 1..n, i <= k
         PROVE  answer[f[i]].latency <= answer[f[k]].latency
    <3>1. CASE k = n
      BY <2>2, <2>8, <3>1
    <3>2. CASE k # n
      <4>1. i \in 1..(n - 1) /\ k \in 1..(n - 1)
        BY <2>5, <2>10, <3>2
      <4>2. f[i] = g[i] /\ f[k] = g[k]
        BY <2>5, <4>1
      <4> HIDE DEF f
      <4> QED
        BY <2>6, <2>10, <4>1, <4>2
    <3> QED
      BY <3>1, <3>2
  <2>11. f \in Bijection(1..n, A)
    BY <2>8, <2>9 DEF Bijection, Injection, Surjection, IsInjective
  <2>12. Sorts(f, A)
    BY <2>10, <2>11 DEF Sorts, n
  <2> QED
    BY <2>12
<1> QED
  BY <1>4, <1>5

AtMost(S, x) == {j \in S : answer[j].latency <= x}

\* Positions and numbers: at least r jobs are at most the one at r, and at most r - 1 jobs
\* are below it.
LEMMA Positions ==
  ASSUME NEW S, IsFiniteSet(S), S \subseteq Nat, \A j \in S : answer[j].latency \in Nat,
         NEW r \in 1..Cardinality(S)
  PROVE  /\ \E j \in S : answer[j].latency = Sorted(S)[r]
         /\ Cardinality(AtMost(S, Sorted(S)[r])) >= r
         /\ \A j \in S : answer[j].latency < Sorted(S)[r] =>
              Cardinality(AtMost(S, answer[j].latency)) <= r - 1
         /\ \A i \in 1..r : Sorted(S)[i] <= Sorted(S)[r]
<1> DEFINE n == Cardinality(S)
           f == Ascending(answer, S)
           prefix(m) == {f[i] : i \in 1..m}
<1>1. n \in Nat
  BY FS_CardinalityType
<1>2. Sorts(f, S)
  BY SortExists DEF Sorts, Ascending
<1>3. /\ f \in [1..n -> S]
      /\ \A i, k \in 1..n : f[i] = f[k] => i = k
      /\ \A j \in S : \E i \in 1..n : f[i] = j
      /\ \A i, k \in 1..n : i <= k => answer[f[i]].latency <= answer[f[k]].latency
  BY <1>2 DEF Sorts, Bijection, Injection, Surjection, IsInjective
<1>4. \A i \in 1..n : Sorted(S)[i] = answer[f[i]].latency
  BY DEF Sorted
<1> HIDE DEF f, n
<1>5. ASSUME NEW m \in 0..n PROVE IsFiniteSet(prefix(m)) /\ Cardinality(prefix(m)) = m
  <2> DEFINE g == [i \in 1..m |-> f[i]]
  <2>1. \A i \in 1..m : i \in 1..n
    BY <1>1
  <2>2. g \in Bijection(1..m, prefix(m))
    BY <1>3, <2>1 DEF Bijection, Injection, Surjection, IsInjective
  <2>3. ExistsBijection(1..m, prefix(m))
    BY <2>2 DEF ExistsBijection
  <2>4. IsFiniteSet(1..m) /\ Cardinality(1..m) = m
    BY <1>1, FS_Interval
  <2> QED
    BY <2>3, <2>4, FS_Bijection
<1>6. r \in 1..n /\ r \in 0..n /\ r - 1 \in 0..n
  BY <1>1 DEF n
<1>7. \A x : IsFiniteSet(AtMost(S, x)) /\ Cardinality(AtMost(S, x)) \in Nat
  BY FS_Subset, FS_CardinalityType DEF AtMost
<1>8. Cardinality(AtMost(S, Sorted(S)[r])) >= r
  <2>1. prefix(r) \in SUBSET AtMost(S, Sorted(S)[r])
    BY <1>1, <1>3, <1>4, <1>6 DEF AtMost
  <2>2. Cardinality(prefix(r)) <= Cardinality(AtMost(S, Sorted(S)[r]))
    BY <1>7, <2>1, FS_Subset
  <2> QED
    BY <1>5, <1>6, <1>7, <2>2
<1>9. ASSUME NEW j \in S, answer[j].latency < Sorted(S)[r]
      PROVE  Cardinality(AtMost(S, answer[j].latency)) <= r - 1
  <2>1. ASSUME NEW k \in AtMost(S, answer[j].latency) PROVE k \in prefix(r - 1)
    <3>1. PICK i \in 1..n : f[i] = k
      BY <1>3 DEF AtMost
    <3>2. answer[f[i]].latency <= answer[j].latency /\ answer[j].latency < answer[f[r]].latency
      BY <1>4, <1>6, <1>9, <3>1 DEF AtMost
    <3>3. answer[f[i]].latency \in Nat /\ answer[f[r]].latency \in Nat /\ answer[j].latency \in Nat
      BY <1>3, <1>6
    <3>4. ~(r <= i)
      BY <1>3, <1>6, <3>2, <3>3
    <3>5. i \in 1..(r - 1)
      BY <1>1, <1>6, <3>4
    <3> QED
      BY <3>1, <3>5
  <2>2. AtMost(S, answer[j].latency) \in SUBSET prefix(r - 1)
    BY <2>1
  <2>3. Cardinality(AtMost(S, answer[j].latency)) <= Cardinality(prefix(r - 1))
    BY <1>5, <1>6, <2>2, FS_Subset
  <2> QED
    BY <1>5, <1>6, <2>3
<1>10. \A i \in 1..r : Sorted(S)[i] <= Sorted(S)[r]
  BY <1>1, <1>3, <1>4, <1>6
<1>11. \E j \in S : answer[j].latency = Sorted(S)[r]
  BY <1>3, <1>4, <1>6
<1> QED
  BY <1>8, <1>9, <1>10, <1>11

LEMMA Products ==
  ASSUME NEW a \in Int, NEW b \in Int, NEW c \in Nat \ {0}
  PROVE  a <= b <=> a * c <= b * c
<1>1. ASSUME a <= b PROVE a * c <= b * c
  <2>1. (b - a) * c >= 0
    BY <1>1
  <2> QED
    BY <2>1
<1>2. ASSUME b < a PROVE b * c < a * c
  <2>1. (a - b) * c > 0
    BY <1>2
  <2> QED
    BY <2>1
<1> QED
  BY <1>1, <1>2

\* The rank is the least that reaches the fraction, but at least 1.
LEMMA RankIsLeast ==
  ASSUME NEW n \in Nat \ {0}
  PROVE  /\ Rank(n) \in 1..n
         /\ Rank(n) * Fraction[2] >= n * Fraction[1]
         /\ Rank(n) > 1 => (Rank(n) - 1) * Fraction[2] < n * Fraction[1]
<1> DEFINE p == Fraction[1]
           q == Fraction[2]
           a == n * p
           c == Ceil(a, q)
<1>1. p \in Nat /\ q \in Nat \ {0} /\ p <= q /\ a \in Nat
  BY MeasurementAssumption
<1>2. c \in Int /\ c * q >= a /\ (c - 1) * q < a
  <2> DEFINE d == (-a) \div q
  <2>1. d \in Int /\ q * d <= -a /\ -a < q * d + q
    BY <1>1
  <2>2. c = -d
    BY DEF Ceil
  <2> HIDE DEF d, c, a, p, q
  <2> QED
    BY <1>1, <2>1, <2>2
<1>3. a <= n * q
  BY <1>1, Products
<1> HIDE DEF c, a
<1>4. c >= 0 /\ c <= n
  <2>1. c - 1 < n
    <3>1. ~(n * q <= (c - 1) * q)
      BY <1>1, <1>2, <1>3
    <3> QED
      BY <1>1, <1>2, <3>1, Products
  <2>2. 0 <= c
    <3>1. 0 * q <= c * q
      BY <1>1, <1>2
    <3> QED
      BY <1>1, <1>2, <3>1, Products
  <2> QED
    BY <1>2, <2>1, <2>2
<1>5. Rank(n) = IF c = 0 THEN 1 ELSE c
  BY DEF Rank, c, a
<1>6. 0 * q = 0 /\ 1 * q = q
  BY <1>1
<1> QED
  BY <1>1, <1>2, <1>4, <1>5, <1>6 DEF a

\* Where latencies are numbers the figure at the rank is what nearest rank means.
LEMMA NearestRank ==
  ASSUME NEW S, IsFiniteSet(S), S # {}, S \subseteq Nat, \A j \in S : answer[j].latency \in Nat
  PROVE  LET n == Cardinality(S)
             enough(x) == Cardinality(AtMost(S, x)) * Fraction[2] >= n * Fraction[1]
             figure == percentile(Sorted(S))
         IN  /\ \E j \in S : answer[j].latency = figure
             /\ enough(figure)
             /\ \A j \in S : enough(answer[j].latency) => figure <= answer[j].latency
             /\ 2 * Fraction[1] > Fraction[2] => median2(Sorted(S)) <= 2 * figure
<1> DEFINE n == Cardinality(S)
           r == Rank(n)
           figure == percentile(Sorted(S))
           size(x) == Cardinality(AtMost(S, x))
<1>1. n \in Nat \ {0}
  BY FS_CardinalityType, FS_EmptySet
<1>2. Fraction[1] \in Nat /\ Fraction[2] \in Nat \ {0}
  BY MeasurementAssumption
<1>3. /\ r \in 1..n /\ r * Fraction[2] >= n * Fraction[1]
      /\ r > 1 => (r - 1) * Fraction[2] < n * Fraction[1]
  BY <1>1, RankIsLeast
<1>4. Sorted(S) \in [1..n -> Nat] /\ Len(Sorted(S)) = n /\ Sorted(S) # <<>>
  <2>1. \A i \in 1..n : \E j \in S : answer[j].latency = Sorted(S)[i]
    BY Positions
  <2>2. \A i \in 1..n : Sorted(S)[i] \in Nat
    BY <2>1
  <2>3. Sorted(S) \in [1..n -> Nat]
    BY <2>2 DEF Sorted
  <2> QED
    BY <1>1, <2>3
<1>5. figure = Sorted(S)[r]
  BY <1>4 DEF percentile
<1>6. \A x : size(x) \in Nat
  BY FS_Subset, FS_CardinalityType DEF AtMost
<1> HIDE DEF n, r, figure, size
<1>7. /\ \E j \in S : answer[j].latency = figure
      /\ size(figure) >= r
      /\ \A j \in S : answer[j].latency < figure => size(answer[j].latency) <= r - 1
      /\ \A i \in 1..r : Sorted(S)[i] <= figure
  BY <1>3, <1>5, Positions DEF n, size
<1>8. size(figure) * Fraction[2] >= n * Fraction[1]
  <2>1. r * Fraction[2] <= size(figure) * Fraction[2]
    BY <1>2, <1>3, <1>6, <1>7, Products
  <2> QED
    BY <1>1, <1>2, <1>3, <1>6, <2>1
<1>9. ASSUME NEW j \in S, size(answer[j].latency) * Fraction[2] >= n * Fraction[1]
      PROVE  figure <= answer[j].latency
  <2> SUFFICES ASSUME answer[j].latency < figure PROVE FALSE
    BY <1>3, <1>4, <1>5
  <2>1. size(answer[j].latency) <= r - 1
    BY <1>7
  <2>2. size(answer[j].latency) * Fraction[2] <= (r - 1) * Fraction[2]
    <3>1. size(answer[j].latency) \in Int /\ r - 1 \in Int
      BY <1>1, <1>3, <1>6
    <3> QED
      BY <1>2, <2>1, <3>1, Products
  <2>3. r = 1
    BY <1>1, <1>2, <1>3, <1>6, <1>9, <2>2
  <2>4. j \in AtMost(S, answer[j].latency)
    BY DEF AtMost
  <2>5. size(answer[j].latency) # 0
    BY <2>4, FS_Subset, FS_EmptySet DEF size, AtMost
  <2> QED
    BY <1>6, <2>1, <2>3, <2>5
<1>10. ASSUME 2 * Fraction[1] > Fraction[2] PROVE median2(Sorted(S)) <= 2 * figure
  <2>1. n < 2 * r
    <3>1. n * Fraction[2] < n * (2 * Fraction[1])
      BY <1>1, <1>2, <1>10, Products
    <3>2. n * (2 * Fraction[1]) <= (2 * r) * Fraction[2]
      BY <1>1, <1>2, <1>3
    <3>3. ~((2 * r) * Fraction[2] <= n * Fraction[2])
      BY <1>1, <1>2, <1>3, <3>1, <3>2
    <3>4. 2 * r \in Int /\ n \in Int
      BY <1>1, <1>3
    <3>5. ~(2 * r <= n)
      BY <1>2, <3>3, <3>4, Products
    <3> QED
      BY <3>4, <3>5
  <2>2. (n + 1) \div 2 \in 1..r /\ n \div 2 + 1 \in 1..r
    BY <1>1, <1>3, <2>1
  <2>3. median2(Sorted(S)) = Sorted(S)[(n + 1) \div 2] + Sorted(S)[n \div 2 + 1]
    BY <1>4 DEF median2
  <2>4. \A i \in 1..r : Sorted(S)[i] \in Nat
    BY <1>1, <1>3, <1>4
  <2>5. figure \in Nat
    BY <1>3, <1>4, <1>5
  <2> QED
    BY <1>7, <2>2, <2>3, <2>4, <2>5
<1> QED
  BY <1>7, <1>8, <1>9, <1>10 DEF n, figure, size

\* The figures of a report are those of the retrievals, whose round trips are numbers.
FiguresInv ==
  /\ \A j \in Jobs : answer[j].latency \in Nat
  /\ stage = "reported" =>
       /\ report.retrieval.attempted = Cardinality(OfKind("retrieval"))
       /\ report.p95 = percentile(Sorted(OfKind("retrieval")))
       /\ report.p50doubled = median2(Sorted(OfKind("retrieval")))

LEMMA FiguresStart == MeasureInit => FiguresInv
BY DEF MeasureInit, FiguresInv

\* What the figures are computed from stays what it is while answer and results do.
LEMMA FiguresKept ==
  ASSUME FiguresInv, UNCHANGED <<answer, results>>,
         stage' = "reported" => stage = "reported" /\ report' = report
  PROVE  FiguresInv'
<1>1. OfKind("retrieval")' = OfKind("retrieval")
  BY DEF OfKind
<1>2. Sorted(OfKind("retrieval"))' = Sorted(OfKind("retrieval"))
  BY <1>1 DEF Sorted
<1>3. /\ percentile(Sorted(OfKind("retrieval")))' = percentile(Sorted(OfKind("retrieval")))
      /\ median2(Sorted(OfKind("retrieval")))' = median2(Sorted(OfKind("retrieval")))
  BY <1>2 DEF percentile, median2, Rank, Ceil
<1> QED
  BY <1>1, <1>3 DEF FiguresInv

LEMMA FiguresStep ==
  ASSUME MeasureInv, FiguresInv, [MeasureNext]_measureVars
  PROVE  FiguresInv'
<1>1. CASE TryFences \/ FencesRaise \/ PoolRaises \/ Take \/ Over \/ UNCHANGED measureVars
  BY <1>1, FiguresKept DEF TryFences, FencesRaise, PoolRaises, Take, Over, measureVars
<1>2. ASSUME NEW j \in Jobs, Collect(j) PROVE FiguresInv'
  BY <1>2 DEF Collect, FiguresInv
<1>3. ASSUME NEW j \in Jobs, Complete(j) PROVE FiguresInv'
  <2>1. state[j] = "running" /\ stage' = stage
    BY <1>3 DEF Complete
  <2>2. stage # "reported"
    BY <2>1 DEF MeasureInv, Resolved, In
  <2>3. \A a \in Answers(j) : a.latency \in Nat
    <3>1. Latencies \subseteq Nat /\ {0} \subseteq Nat
      BY MeasurementAssumption
    <3>2. CASE Kind(j) = "retrieval"
      BY <3>1, <3>2 DEF Answers
    <3>3. CASE Kind(j) # "retrieval"
      BY <3>1, <3>3 DEF Answers
    <3> QED
      BY <3>2, <3>3
  <2>4. \A k \in Jobs : answer'[k].latency \in Nat
    BY <1>3, <2>3 DEF Complete, FiguresInv, MeasureInv
  <2> QED
    BY <2>1, <2>2, <2>4 DEF FiguresInv
<1>4. CASE WriteReport
  <2>1. UNCHANGED <<answer, results>>
    BY <1>4 DEF WriteReport
  <2>2. /\ report'.retrieval = Total(OfKind("retrieval"))
        /\ report'.p95 = percentile(Sorted(OfKind("retrieval")))
        /\ report'.p50doubled = median2(Sorted(OfKind("retrieval")))
    BY <1>4 DEF WriteReport
  <2>3. OfKind("retrieval")' = OfKind("retrieval")
    BY <2>1 DEF OfKind
  <2>4. Sorted(OfKind("retrieval"))' = Sorted(OfKind("retrieval"))
    BY <2>1, <2>3 DEF Sorted
  <2>5. /\ percentile(Sorted(OfKind("retrieval")))' = percentile(Sorted(OfKind("retrieval")))
        /\ median2(Sorted(OfKind("retrieval")))' = median2(Sorted(OfKind("retrieval")))
    BY <2>4 DEF percentile, median2, Rank, Ceil
  <2>6. report'.retrieval.attempted = Cardinality(OfKind("retrieval"))
    BY <2>2 DEF Total
  <2> QED
    BY <2>1, <2>2, <2>3, <2>5, <2>6 DEF FiguresInv
<1> QED
  BY <1>1, <1>2, <1>3, <1>4 DEF MeasureNext, Main

\* The latency a report calls a percentile is the least observed one that the fraction of
\* all retrievals does not exceed, for any fraction, any round trips and any number of
\* them, ties included; above one half it is no less than the median.
THEOREM PercentileTheorem == MeasureSpec => []PercentileIsNearestRank
<1>1. MeasureInv /\ FiguresInv => PercentileIsNearestRank
  <2> SUFFICES ASSUME MeasureInv, FiguresInv, stage = "reported" PROVE PercentileIsNearestRank
    BY DEF PercentileIsNearestRank
  <2> DEFINE S == OfKind("retrieval")
  <2>1. results = Jobs /\ S \subseteq Jobs
    BY DEF MeasureInv, OfKind
  <2>2. 1 \in Jobs
    <3>1. iterations * Len(TENANTS) * 2 >= 1
      <4>1. iterations \in Nat \ {0} /\ Len(TENANTS) \in Nat \ {0}
        BY MeasurementAssumption
      <4>2. iterations * Len(TENANTS) >= 1 /\ iterations * Len(TENANTS) \in Nat
        BY <4>1, Products
      <4> QED
        BY <4>2
    <3> QED
      BY <3>1, MeasurementAssumption DEF Jobs
  <2>3. S # {}
    BY <2>1, <2>2 DEF OfKind, Kind
  <2>4. IsFiniteSet(S) /\ S \subseteq Nat /\ \A j \in S : answer[j].latency \in Nat
    <3>1. Jobs \subseteq Nat
      BY DEF Jobs
    <3>2. IsFiniteSet(S)
      BY <2>1, JobsAreFinite, FS_Subset
    <3> HIDE DEF S
    <3> QED
      BY <2>1, <3>1, <3>2 DEF FiguresInv
  <2>5. /\ report.retrieval.attempted = Cardinality(S)
        /\ report.p95 = percentile(Sorted(S))
        /\ report.p50doubled = median2(Sorted(S))
    BY DEF FiguresInv
  <2> HIDE DEF S
  <2>6. LET enough(x) == Cardinality(AtMost(S, x)) * Fraction[2] >= Cardinality(S) * Fraction[1]
        IN  /\ \E j \in S : answer[j].latency = report.p95
            /\ enough(report.p95)
            /\ \A j \in S : enough(answer[j].latency) => report.p95 <= answer[j].latency
            /\ 2 * Fraction[1] > Fraction[2] => report.p50doubled <= 2 * report.p95
    BY <2>3, <2>4, <2>5, NearestRank
  <2> QED
    BY <2>5, <2>6 DEF PercentileIsNearestRank, AtMost, S
<1> QED
  BY <1>1, MeasureStart, MeasureStep, FiguresStart, FiguresStep, PTL DEF MeasureSpec
-----------------------------------------------------------------------------
(***************************************************************************)
(* The benchmark.  Each counter is the size of a set of the pairs attacked *)
(* so far, so what the report compares are sets of pairs.                  *)
(***************************************************************************)
\* Where the nested loops have been, the inner one n long.
Before(n) == {p \in Principals \X (0..(n - 1)) :
                p[1] < first \/ (p[1] = first /\ p[2] < second)}

Pairs == {p \in Principals \X Principals : p[1] # p[2]}

Attacked == CASE phase = "ingest" -> {}
              [] phase = "attack" -> Pairs \cap Before(tenant_count)
              [] OTHER -> Pairs

Ingested == IF phase = "ingest" THEN Before(documents_per_tenant) ELSE Documents

NaiveFinds == {p \in Pairs : Closest(DOMAIN documents, p[2])[1] = p[2]}

Returned == {p \in Pairs : ReturnsCanary(p[1], p[2])}

Blocked == {p \in Pairs : ~Opens(p[1], p[2])}

Tampered == CASE phase \in {"ingest", "attack"} -> 0
              [] phase = "tamper" -> first
              [] OTHER -> tenant_count

Inner == CASE phase = "ingest" -> documents_per_tenant
           [] phase = "attack" -> tenant_count
           [] OTHER -> 1

\* Where a run that has not aborted stands.
BenchInv ==
  phase # "aborted" =>
    /\ phase \in {"ingest", "attack", "tamper", "report", "end"}
    /\ similarity \in Similarities /\ broken \subseteq Fences
    /\ first \in Principals /\ second \in 0..(Inner - 1)
    /\ documents \in Seq(Documents)
    /\ \A d \in Ingested : \E k \in DOMAIN documents : documents[k] = d
    /\ attack_pairs = Cardinality(Attacked)
    /\ selected = Cardinality(Attacked \cap NaiveFinds)
    /\ returned = Cardinality(Attacked \cap Returned)
    /\ blocked = Cardinality(Attacked \cap Blocked)
    /\ detected = IF "signature" \in broken THEN 0 ELSE Tampered
    /\ phase = "end" =>
         (passed <=> selected = attack_pairs /\ returned = 0
                     /\ blocked = attack_pairs /\ detected = tenant_count)

LEMMA TenantsAreFinite ==
  /\ IsFiniteSet(Principals) /\ Cardinality(Principals) = tenant_count
  /\ IsFiniteSet(Pairs) /\ Cardinality(Pairs) = tenant_count * (tenant_count - 1)
<1>1. IsFiniteSet(Principals) /\ Cardinality(Principals) = tenant_count
  BY BenchmarkAssumption, FS_Interval DEF Principals
<1> DEFINE all == Principals \X Principals
           same == {p \in all : p[1] = p[2]}
           both == [t \in Principals |-> <<t, t>>]
<1>2. IsFiniteSet(all) /\ Cardinality(all) = tenant_count * tenant_count
  BY <1>1, FS_Product
<1>3. ExistsBijection(Principals, same)
  <2>1. both \in Bijection(Principals, same)
    BY DEF Bijection, Injection, Surjection, IsInjective
  <2> QED
    BY <2>1 DEF ExistsBijection
<1>4. Cardinality(same) = tenant_count
  BY <1>1, <1>3, FS_Bijection
<1>5. all \cap same = same /\ Pairs = all \ same
  BY DEF Pairs
<1>6. IsFiniteSet(Pairs) /\ Cardinality(Pairs) = tenant_count * tenant_count - tenant_count
  BY <1>2, <1>4, <1>5, FS_Difference
<1>7. tenant_count * tenant_count - tenant_count = tenant_count * (tenant_count - 1)
  BY BenchmarkAssumption
<1> QED
  BY <1>1, <1>6, <1>7

\* One more pair: one more for each set that holds it.
LEMMA OneMore ==
  ASSUME NEW S, IsFiniteSet(S), NEW p, p \notin S, NEW G
  PROVE  Cardinality((S \cup {p}) \cap G) = Cardinality(S \cap G) + Count(p \in G)
<1>1. IsFiniteSet(S \cap G) /\ Cardinality(S \cap G) \in Nat
  BY FS_Subset, FS_CardinalityType
<1>2. CASE p \in G
  <2>1. (S \cup {p}) \cap G = (S \cap G) \cup {p} /\ p \notin S \cap G
    BY <1>2
  <2>2. Count(p \in G) = 1
    BY <1>2 DEF Count
  <2>3. Cardinality((S \cup {p}) \cap G) = Cardinality(S \cap G) + 1
    BY <1>1, <2>1, FS_AddElement
  <2> QED
    BY <2>2, <2>3
<1>3. CASE p \notin G
  <2>1. (S \cup {p}) \cap G = S \cap G
    BY <1>3
  <2>2. Count(p \in G) = 0
    BY <1>3 DEF Count
  <2>3. Cardinality((S \cup {p}) \cap G) = Cardinality(S \cap G)
    BY <2>1
  <2> QED
    BY <1>1, <2>2, <2>3
<1> QED
  BY <1>2, <1>3

\* A step of two nested loops.
LEMMA Loop ==
  ASSUME NEW n \in Nat \ {0}, NEW to, phase # to, first \in Principals, second \in 0..(n - 1),
         Advance(n, to)
  PROVE  /\ first' \in Principals /\ second' \in 0..(n - 1)
         /\ <<first, second>> \notin Before(n)
         /\ \/ phase' = phase /\ Before(n)' = Before(n) \cup {<<first, second>>}
            \/ /\ phase' = to /\ first' = 0 /\ second' = 0
               /\ first = tenant_count - 1
               /\ Principals \X (0..(n - 1)) = Before(n) \cup {<<first, second>>}
<1> USE BenchmarkAssumption DEF Principals
<1>1. first' \in Principals /\ second' \in 0..(n - 1)
  BY DEF Advance
<1>2. <<first, second>> \notin Before(n) /\ <<first, second>> \in Principals \X (0..(n - 1))
  BY DEF Before
<1>3. CASE second = n - 1 /\ first = tenant_count - 1
  <2>1. phase' = to /\ first' = 0 /\ second' = 0
    BY <1>3 DEF Advance
  <2>2. ASSUME NEW a \in Principals, NEW b \in 0..(n - 1)
        PROVE  <<a, b>> \in Before(n) \/ <<a, b>> = <<first, second>>
    BY <1>3 DEF Before
  <2> QED
    BY <1>1, <1>2, <1>3, <2>1, <2>2 DEF Before
<1>4. CASE ~(second = n - 1 /\ first = tenant_count - 1)
  <2>1. phase' = phase
    BY <1>4 DEF Advance
  <2>2. ASSUME NEW a \in Principals, NEW b \in 0..(n - 1)
        PROVE  (a < first' \/ (a = first' /\ b < second'))
                 <=> (a < first \/ (a = first /\ b < second)) \/ (a = first /\ b = second)
    BY <1>4 DEF Advance
  <2>3. Before(n)' = Before(n) \cup {<<first, second>>}
    BY <1>2, <2>2 DEF Before
  <2> QED
    BY <1>1, <1>2, <2>1, <2>3
<1> QED
  BY <1>3, <1>4

\* What Closest returns.
LEMMA ClosestIsFirst ==
  ASSUME documents \in Seq(Documents), similarity \in Similarities, NEW v \in Principals,
         NEW K, K \subseteq DOMAIN documents, K # {}
  PROVE  \E k \in K : Closest(K, v) = documents[k] /\ Leads(k, K, v)
<1> DEFINE s == [k \in K |-> similarity[v][documents[k]]]
<1>1. IsFiniteSet(K) /\ K \subseteq Nat
  <2>1. DOMAIN documents = 1..Len(documents) /\ Len(documents) \in Nat
    OBVIOUS
  <2>2. IsFiniteSet(1..Len(documents))
    BY <2>1, FS_Interval
  <2>3. K \in SUBSET (1..Len(documents))
    BY <2>1
  <2>4. IsFiniteSet(K)
    BY <2>2, <2>3, FS_Subset
  <2> QED
    BY <2>3, <2>4
<1>2. s \in [K -> Nat]
  BY BenchmarkAssumption
<1>3. \E k \in K : Leads(k, K, v)
  <2>1. \A k \in K : s[k] = similarity[v][documents[k]]
    OBVIOUS
  <2> HIDE DEF s
  <2>2. PICK k \in K : \A j \in K : s[j] <= s[k] /\ (j < k => s[j] < s[k])
    BY <1>1, <1>2, FirstOfTheLargest
  <2> QED
    BY <2>1, <2>2 DEF Leads
<1> DEFINE c == CHOOSE k \in K : Leads(k, K, v)
<1>4. Closest(K, v) = documents[c]
  BY DEF Closest
<1>5. c \in K /\ Leads(c, K, v)
  BY <1>3
<1> HIDE DEF c
<1> QED
  BY <1>4, <1>5

\* With the filter in place a search sees its own tenant's documents only.
LEMMA FilterHolds ==
  ASSUME documents \in Seq(Documents), similarity \in Similarities,
         NEW a \in Principals, NEW v \in Principals, a # v, "filter" \notin broken
  PROVE  ~ReturnsCanary(a, v)
<1> DEFINE near == {k \in Scope(a) : similarity[v][documents[k]] >= Threshold}
<1>1. near \subseteq DOMAIN documents /\ \A k \in near : documents[k][1] = a
  BY DEF Scope
<1>2. near # {} => Closest(near, v)[1] = a
  <2> HIDE DEF near
  <2> QED
    BY <1>1, ClosestIsFirst
<1> QED
  BY <1>2 DEF ReturnsCanary, Hits

\* Without it a victim that a naive search finds is found through its canary.
LEMMA CanaryReturned ==
  ASSUME documents \in Seq(Documents), similarity \in Similarities,
         NEW a \in Principals, NEW v \in Principals, "filter" \in broken,
         \E k \in DOMAIN documents : documents[k] = <<v, 0>>,
         Closest(DOMAIN documents, v)[1] = v
  PROVE  ReturnsCanary(a, v)
<1> DEFINE Sim(k) == similarity[v][documents[k]]
           near == {k \in Scope(a) : Sim(k) >= Threshold}
<1>1. Scope(a) = DOMAIN documents
  BY DEF Scope
<1>2. \A k \in DOMAIN documents : k \in Nat /\ documents[k] \in Documents /\ Sim(k) \in Nat
  BY BenchmarkAssumption
<1>3. PICK c \in DOMAIN documents : documents[c] = <<v, 0>>
  OBVIOUS
<1>4. PICK m \in DOMAIN documents : Closest(DOMAIN documents, v) = documents[m]
                                    /\ Leads(m, DOMAIN documents, v)
  BY <1>3, ClosestIsFirst
<1>5. documents[m] = <<v, 0>>
  <2>1. PICK n \in 0..(documents_per_tenant - 1) : documents[m] = <<v, n>>
    BY <1>2, <1>4 DEF Documents
  <2>2. Sim(c) <= Sim(m)
    BY <1>4 DEF Leads
  <2>3. Sim(c) = similarity[v][<<v, 0>>] /\ Sim(m) = similarity[v][<<v, n>>]
    BY <1>3, <2>1
  <2>4. ASSUME n > 0 PROVE FALSE
    <3>1. n \in 1..(documents_per_tenant - 1)
      BY <2>4, BenchmarkAssumption
    <3>2. similarity[v][<<v, n>>] < similarity[v][<<v, 0>>]
      BY <3>1, BenchmarkAssumption
    <3>3. Sim(c) \in Nat /\ Sim(m) \in Nat
      BY <1>2
    <3> QED
      BY <2>2, <2>3, <3>2, <3>3
  <2>5. n = 0
    BY <2>4, BenchmarkAssumption
  <2> QED
    BY <2>1, <2>5
<1>6. m \in near
  BY <1>1, <1>5, BenchmarkAssumption
<1>7. PICK k \in near : Closest(near, v) = documents[k] /\ Leads(k, near, v)
  <2>1. near \subseteq DOMAIN documents /\ near # {}
    BY <1>1, <1>6
  <2> HIDE DEF near
  <2> QED
    BY <2>1, ClosestIsFirst
<1>8. k = m
  <2>1. k \in DOMAIN documents
    BY <1>1
  <2>2. Sim(m) <= Sim(k) /\ (m < k => Sim(m) < Sim(k))
    BY <1>6, <1>7 DEF Leads
  <2>3. Sim(k) <= Sim(m) /\ (k < m => Sim(k) < Sim(m))
    BY <1>4, <2>1 DEF Leads
  <2> QED
    BY <1>2, <2>1, <2>2, <2>3
<1> QED
  BY <1>5, <1>6, <1>7, <1>8 DEF ReturnsCanary, Hits

LEMMA BenchStart == Init => BenchInv
<1> SUFFICES ASSUME Init PROVE BenchInv
  OBVIOUS
<1> USE BenchmarkAssumption DEF Init
<1>1. first \in Principals /\ second \in 0..(Inner - 1)
  BY DEF Inner, Principals
<1>2. Ingested = {} /\ Attacked = {}
  BY DEF Ingested, Attacked, Before, Principals
<1>3. documents \in Seq(Documents)
  OBVIOUS
<1>4. Cardinality({}) = 0 /\ \A G : {} \cap G = {}
  BY FS_EmptySet
<1>5. Tampered = 0
  BY DEF Tampered
<1> QED
  BY <1>1, <1>2, <1>3, <1>4, <1>5 DEF BenchInv

LEMMA IngestKeeps == BenchInv /\ Ingest => BenchInv'
<1> SUFFICES ASSUME BenchInv, Ingest PROVE BenchInv'
  OBVIOUS
<1> DEFINE p == <<first, second>>
<1>1. /\ phase = "ingest" /\ Inner = documents_per_tenant /\ Attacked = {} /\ Tampered = 0
      /\ first \in Principals /\ second \in 0..(documents_per_tenant - 1)
  BY DEF Ingest, BenchInv, Inner, Attacked, Tampered
<1>2. /\ first' \in Principals /\ second' \in 0..(documents_per_tenant - 1)
      /\ \/ /\ phase' = "ingest"
            /\ Before(documents_per_tenant)' = Before(documents_per_tenant) \cup {p}
         \/ /\ phase' = "attack" /\ first' = 0 /\ second' = 0
            /\ Documents = Before(documents_per_tenant) \cup {p}
  BY <1>1, Loop, BenchmarkAssumption DEF Ingest, Documents
<1>3. Attacked' = {} /\ Tampered' = 0
  BY <1>2, BenchmarkAssumption DEF Attacked, Tampered, Before, Principals
<1>4. second' \in 0..(Inner' - 1)
  BY <1>2, BenchmarkAssumption DEF Inner
<1>5. documents' \in Seq(Documents)
  <2>1. documents \in Seq(Documents) /\ p \in Documents
    BY <1>1 DEF BenchInv, Documents
  <2> QED
    BY <2>1 DEF Ingest
<1>6. \A d \in Ingested' : \E k \in DOMAIN documents' : documents'[k] = d
  <2>1. Ingested' = Ingested \cup {p}
    BY <1>1, <1>2 DEF Ingested
  <2>2. documents \in Seq(Documents) /\ documents' = Append(documents, p)
    BY <1>1 DEF BenchInv, Ingest
  <2>3. \A k \in DOMAIN documents : k \in DOMAIN documents' /\ documents'[k] = documents[k]
    BY <2>2
  <2>4. Len(documents) + 1 \in DOMAIN documents' /\ documents'[Len(documents) + 1] = p
    BY <2>2
  <2>5. \A d \in Ingested : \E k \in DOMAIN documents : documents[k] = d
    BY <1>1 DEF BenchInv
  <2> QED
    BY <2>1, <2>3, <2>4, <2>5
<1>7. Cardinality({}) = 0 /\ \A G : {} \cap G = {}
  BY FS_EmptySet
<1>8. /\ similarity' \in Similarities /\ broken' = broken
      /\ broken \subseteq Fences
      /\ attack_pairs' = 0 /\ selected' = 0 /\ returned' = 0 /\ blocked' = 0 /\ detected' = 0
  BY <1>1, <1>7 DEF BenchInv, Ingest, counters
<1> QED
  BY <1>2, <1>3, <1>4, <1>5, <1>6, <1>7, <1>8 DEF BenchInv

LEMMA AttackKeeps == BenchInv /\ Attack => BenchInv'
<1> SUFFICES ASSUME BenchInv, Attack PROVE BenchInv'
  OBVIOUS
<1> DEFINE p == <<first, second>>
<1>1. /\ phase = "attack" /\ Inner = tenant_count /\ Ingested = Documents /\ Tampered = 0
      /\ Attacked = Pairs \cap Before(tenant_count)
      /\ first \in Principals /\ second \in Principals /\ second \in 0..(tenant_count - 1)
  BY DEF Attack, BenchInv, Inner, Attacked, Ingested, Tampered, Principals
<1>2. /\ first' \in Principals /\ second' \in 0..(tenant_count - 1) /\ p \notin Before(tenant_count)
      /\ \/ phase' = "attack" /\ Before(tenant_count)' = Before(tenant_count) \cup {p}
         \/ /\ phase' = "tamper" /\ first' = 0 /\ second' = 0
            /\ Principals \X Principals = Before(tenant_count) \cup {p}
  BY <1>1, Loop, BenchmarkAssumption DEF Attack, Principals
<1>3. Attacked' = Pairs \cap (Before(tenant_count) \cup {p})
  BY <1>2 DEF Attacked, Pairs
<1>4. Tampered' = 0 /\ Ingested' = Documents /\ second' \in 0..(Inner' - 1)
  BY <1>2, BenchmarkAssumption DEF Tampered, Ingested, Inner
<1>5. UNCHANGED <<similarity, broken, documents, detected, passed>>
  BY DEF Attack, counters
<1>6. NaiveFinds' = NaiveFinds /\ Returned' = Returned /\ Blocked' = Blocked
  BY <1>5 DEF NaiveFinds, Returned, Blocked, Closest, Leads, ReturnsCanary, Hits, Scope, Opens
<1>7. /\ attack_pairs' = Cardinality(Attacked')
      /\ selected' = Cardinality(Attacked' \cap NaiveFinds)
      /\ returned' = Cardinality(Attacked' \cap Returned)
      /\ blocked' = Cardinality(Attacked' \cap Blocked)
  <2>1. /\ attack_pairs = Cardinality(Attacked)
        /\ selected = Cardinality(Attacked \cap NaiveFinds)
        /\ returned = Cardinality(Attacked \cap Returned)
        /\ blocked = Cardinality(Attacked \cap Blocked)
    BY <1>1 DEF BenchInv
  <2>2. CASE first = second
    <3>1. Attacked' = Attacked
      BY <1>1, <1>3, <2>2 DEF Pairs
    <3>2. UNCHANGED <<attack_pairs, selected, returned, blocked>>
      BY <2>2 DEF Attack, Skips, counters
    <3> QED
      BY <2>1, <3>1, <3>2
  <2>3. CASE first # second
    <3>1. p \in Pairs /\ Attacked' = Attacked \cup {p} /\ p \notin Attacked
      BY <1>1, <1>2, <1>3, <2>3 DEF Pairs
    <3>2. IsFiniteSet(Attacked)
      BY <1>1, TenantsAreFinite, FS_Subset
    <3>3. /\ attack_pairs' = attack_pairs + 1
          /\ selected' = selected + Count(Closest(DOMAIN documents, second)[1] = second)
          /\ returned' = returned + Count(ReturnsCanary(first, second))
          /\ blocked' = blocked + Count(~Opens(first, second))
      BY <2>3 DEF Attack, Skips
    <3>4. attack_pairs' = Cardinality(Attacked')
      BY <2>1, <3>1, <3>2, <3>3, FS_AddElement
    <3>5. /\ Count(Closest(DOMAIN documents, second)[1] = second) = Count(p \in NaiveFinds)
          /\ Count(ReturnsCanary(first, second)) = Count(p \in Returned)
          /\ Count(~Opens(first, second)) = Count(p \in Blocked)
      BY <3>1 DEF NaiveFinds, Returned, Blocked, Count
    <3>6. selected' = Cardinality(Attacked' \cap NaiveFinds)
      BY <2>1, <3>1, <3>2, <3>3, <3>5, OneMore
    <3>7. returned' = Cardinality(Attacked' \cap Returned)
      BY <2>1, <3>1, <3>2, <3>3, <3>5, OneMore
    <3>8. blocked' = Cardinality(Attacked' \cap Blocked)
      BY <2>1, <3>1, <3>2, <3>3, <3>5, OneMore
    <3> QED
      BY <3>4, <3>6, <3>7, <3>8
  <2> QED
    BY <2>2, <2>3
<1> QED
  BY <1>1, <1>2, <1>4, <1>5, <1>6, <1>7 DEF BenchInv

LEMMA TamperKeeps == BenchInv /\ Tamper => BenchInv'
<1> SUFFICES ASSUME BenchInv, Tamper PROVE BenchInv'
  OBVIOUS
<1>1. /\ phase = "tamper" /\ Inner = 1 /\ Ingested = Documents /\ Tampered = first
      /\ Attacked = Pairs /\ first \in Principals /\ second = 0
  BY DEF Tamper, BenchInv, Inner, Attacked, Ingested, Tampered, Principals
<1>2. /\ first' \in Principals /\ second' = 0 /\ phase' \in {"tamper", "report"}
      /\ Tampered' = first + 1
  BY <1>1, BenchmarkAssumption DEF Tamper, Advance, Tampered, Principals
<1>3. Attacked' = Pairs /\ Ingested' = Documents /\ second' \in 0..(Inner' - 1)
  BY <1>2 DEF Attacked, Ingested, Inner, Pairs
<1>4. first # (first + 1) % tenant_count
  <2>1. CASE first + 1 = tenant_count
    <3>1. tenant_count % tenant_count = 0
      BY BenchmarkAssumption
    <3> QED
      BY <1>1, <2>1, <3>1, BenchmarkAssumption DEF Principals
  <2>2. CASE first + 1 < tenant_count
    <3>1. (first + 1) % tenant_count = first + 1
      BY <1>1, <2>2, BenchmarkAssumption DEF Principals
    <3> QED
      BY <1>1, <3>1 DEF Principals
  <2> QED
    BY <1>1, <2>1, <2>2, BenchmarkAssumption DEF Principals
<1>5. Signature(first) # Signature((first + 1) % tenant_count) <=> "signature" \notin broken
  BY <1>4 DEF Signature
<1>6. detected' = IF "signature" \in broken THEN 0 ELSE first + 1
  <2>1. detected = IF "signature" \in broken THEN 0 ELSE first
    BY <1>1 DEF BenchInv
  <2> QED
    BY <1>1, <1>5, <2>1 DEF Tamper, Count, Principals
<1>7. UNCHANGED <<similarity, broken, documents, attack_pairs, selected, returned, blocked, passed>>
  BY DEF Tamper
<1>8. NaiveFinds' = NaiveFinds /\ Returned' = Returned /\ Blocked' = Blocked
  BY <1>7 DEF NaiveFinds, Returned, Blocked, Closest, Leads, ReturnsCanary, Hits, Scope, Opens
<1> QED
  BY <1>1, <1>2, <1>3, <1>6, <1>7, <1>8 DEF BenchInv

LEMMA ReportKeeps == BenchInv /\ Report => BenchInv'
<1> SUFFICES ASSUME BenchInv, Report PROVE BenchInv'
  OBVIOUS
<1>1. phase = "report" /\ phase' = "end"
  BY DEF Report
<1>2. UNCHANGED <<similarity, broken, first, second, documents, attack_pairs, selected, returned,
                  blocked, detected>>
  BY DEF Report, counters
<1>3. NaiveFinds' = NaiveFinds /\ Returned' = Returned /\ Blocked' = Blocked
  BY <1>2 DEF NaiveFinds, Returned, Blocked, Closest, Leads, ReturnsCanary, Hits, Scope, Opens
<1>4. Attacked' = Attacked /\ Ingested' = Ingested /\ Inner' = Inner /\ Tampered' = Tampered
  BY <1>1, <1>2 DEF Attacked, Ingested, Inner, Tampered, Pairs
<1>5. passed' <=> selected = attack_pairs /\ returned = 0
                  /\ blocked = attack_pairs /\ detected = tenant_count
  BY DEF Report
<1> QED
  BY <1>1, <1>2, <1>3, <1>4, <1>5 DEF BenchInv

LEMMA BenchStep == BenchInv /\ [Next]_vars => BenchInv'
<1> SUFFICES ASSUME BenchInv, [Next]_vars PROVE BenchInv'
  OBVIOUS
<1>1. CASE Ingest
  BY <1>1, IngestKeeps
<1>2. CASE Attack
  BY <1>2, AttackKeeps
<1>3. CASE Tamper
  BY <1>3, TamperKeeps
<1>4. CASE Report
  BY <1>4, ReportKeeps
<1>5. CASE Abort
  BY <1>5 DEF Abort, BenchInv
<1>6. CASE UNCHANGED vars
  <2>1. NaiveFinds' = NaiveFinds /\ Returned' = Returned /\ Blocked' = Blocked
    BY <1>6 DEF vars, NaiveFinds, Returned, Blocked, Closest, Leads, ReturnsCanary, Hits, Scope,
      Opens
  <2>2. Attacked' = Attacked /\ Ingested' = Ingested /\ Inner' = Inner /\ Tampered' = Tampered
    BY <1>6 DEF vars, Attacked, Ingested, Inner, Tampered, Pairs, Before
  <2> QED
    BY <1>6, <2>1, <2>2 DEF BenchInv, vars, counters
<1> QED
  BY <1>1, <1>2, <1>3, <1>4, <1>5, <1>6 DEF Next

LEMMA BenchInvariant == Spec => []BenchInv
BY BenchStart, BenchStep, PTL DEF Spec

\* What the sets of pairs come to at the end.
LEMMA PairsAtTheEnd ==
  ASSUME BenchInv, phase = "end"
  PROVE  /\ Blocked = IF "key" \in broken THEN {} ELSE Pairs
         /\ "filter" \notin broken => Returned = {}
         /\ Returned = {} /\ NaiveFinds = Pairs => "filter" \notin broken
         /\ NaiveFinds = Pairs <=> \A v \in Principals : Closest(DOMAIN documents, v)[1] = v
         /\ Pairs # {}
<1>1. /\ documents \in Seq(Documents) /\ similarity \in Similarities
      /\ \A d \in Documents : \E k \in DOMAIN documents : documents[k] = d
  BY DEF BenchInv, Ingested
<1>2. <<0, 1>> \in Pairs /\ \A v \in Principals : \E a \in Principals : <<a, v>> \in Pairs
  <2>1. 0 \in Principals /\ 1 \in Principals
    BY BenchmarkAssumption DEF Principals
  <2>2. \A v \in Principals : IF v = 0 THEN <<1, v>> \in Pairs ELSE <<0, v>> \in Pairs
    BY <2>1 DEF Pairs
  <2> QED
    BY <2>1, <2>2 DEF Pairs
<1>3. Blocked = IF "key" \in broken THEN {} ELSE Pairs
  BY DEF Blocked, Pairs, Opens
<1>4. "filter" \notin broken => Returned = {}
  BY <1>1, FilterHolds DEF Returned, Pairs
<1>5. NaiveFinds = Pairs <=> \A v \in Principals : Closest(DOMAIN documents, v)[1] = v
  BY <1>2 DEF NaiveFinds, Pairs
<1>6. ASSUME Returned = {}, NaiveFinds = Pairs, "filter" \in broken PROVE FALSE
  <2>1. 0 \in Principals /\ 1 \in Principals /\ <<1, 0>> \in Documents
    BY BenchmarkAssumption DEF Principals, Documents
  <2>2. ReturnsCanary(0, 1)
    BY <1>1, <1>5, <1>6, <2>1, CanaryReturned
  <2> QED
    BY <1>2, <1>6, <2>2 DEF Returned
<1> QED
  BY <1>2, <1>3, <1>4, <1>5, <1>6

\* Whatever the corpus and however many tenants there are, the counts are over all
\* ordered pairs of different tenants, each attempted once.
THEOREM RatesTheorem == Spec => []RatesAreOverAllPairs
<1>1. ASSUME BenchInv PROVE RatesAreOverAllPairs
  <2> SUFFICES ASSUME phase = "end" PROVE RatesAreOverAllPairs
    BY DEF RatesAreOverAllPairs
  <2>1. Attacked = Pairs /\ attack_pairs = tenant_count * (tenant_count - 1)
    BY <1>1, TenantsAreFinite DEF BenchInv, Attacked
  <2>2. attack_pairs \in Nat /\ attack_pairs > 0
    BY <1>1, <2>1, PairsAtTheEnd, TenantsAreFinite, FS_EmptySet, FS_CardinalityType DEF BenchInv
  <2>3. blocked = IF "key" \in broken THEN 0 ELSE attack_pairs
    BY <1>1, <2>1, PairsAtTheEnd, FS_EmptySet DEF BenchInv
  <2>4. returned \in 0..attack_pairs /\ selected \in 0..attack_pairs
    BY <1>1, <2>1, <2>2, TenantsAreFinite, FS_Subset, FS_CardinalityType DEF BenchInv
  <2>5. "filter" \notin broken => returned = 0
    BY <1>1, <2>1, PairsAtTheEnd, FS_EmptySet DEF BenchInv
  <2> QED
    BY <2>1, <2>2, <2>3, <2>4, <2>5 DEF RatesAreOverAllPairs
<1> QED
  BY <1>1, BenchInvariant, PTL

\* The benchmark cannot pass over a broken fence, and cannot fail over intact ones on a
\* corpus where a naive search finds every victim.
THEOREM VerdictTheorem == Spec => []PassedIffFencesStand
<1>1. ASSUME BenchInv PROVE PassedIffFencesStand
  <2> SUFFICES ASSUME phase = "end"
               PROVE  passed <=> broken = {} /\ \A v \in Principals :
                                                   Closest(DOMAIN documents, v)[1] = v
    BY DEF PassedIffFencesStand
  <2>1. /\ Attacked = Pairs /\ attack_pairs = Cardinality(Pairs)
        /\ selected = Cardinality(Pairs \cap NaiveFinds)
        /\ returned = Cardinality(Pairs \cap Returned)
        /\ blocked = Cardinality(Pairs \cap Blocked)
        /\ detected = IF "signature" \in broken THEN 0 ELSE tenant_count
        /\ passed <=> selected = attack_pairs /\ returned = 0
                      /\ blocked = attack_pairs /\ detected = tenant_count
    BY <1>1 DEF BenchInv, Attacked, Tampered
  <2>2. selected = attack_pairs <=> NaiveFinds = Pairs
    BY <2>1, TenantsAreFinite, FS_Subset DEF NaiveFinds
  <2>3. returned = 0 <=> Returned = {}
    BY <2>1, TenantsAreFinite, FS_Subset, FS_EmptySet DEF Returned
  <2>4. blocked = attack_pairs <=> "key" \notin broken
    BY <1>1, <2>1, PairsAtTheEnd, TenantsAreFinite, FS_EmptySet
  <2>5. detected = tenant_count <=> "signature" \notin broken
    BY <2>1, BenchmarkAssumption
  <2>6. broken = {} <=> /\ "filter" \notin broken /\ "key" \notin broken
                        /\ "signature" \notin broken
    BY <1>1 DEF BenchInv, Fences
  <2> QED
    BY <1>1, <2>1, <2>2, <2>3, <2>4, <2>5, <2>6, PairsAtTheEnd
<1> QED
  BY <1>1, BenchInvariant, PTL
=============================================================================
