----------------------------- MODULE Benchmark -----------------------------
(***************************************************************************)
(* run_benchmark (fault_injection_benchmark.py): attack every tenant from  *)
(* every other one, and count what each fence stops.  The engine under     *)
(* test is sequential here; it may have any of its fences broken, because  *)
(* a benchmark that passes then is worth nothing.                          *)
(*                                                                         *)
(* A document is its tenant and its number, 0 for the canary.  Embeddings  *)
(* are compared through a similarity the corpus is given.                  *)
(***************************************************************************)
EXTENDS Integers, Sequences, FiniteSets

CONSTANTS
  tenant_count, documents_per_tenant,
  Similarities,    \* candidates: per victim, of its canary to every document
  Threshold        \* of a search result

Principals == 0..(tenant_count - 1)

Documents == Principals \X (0..(documents_per_tenant - 1))

Fences == {"filter", "key", "signature"}

\* Of all documents of a tenant its canary is the closest to its canary, and close
\* enough to be found; with more tenants some other tenant's may be as close.
ASSUME BenchmarkAssumption ==
  /\ tenant_count \in Nat /\ documents_per_tenant \in Nat
  /\ tenant_count >= 2 /\ documents_per_tenant >= 2        \* ValueError otherwise
  /\ Threshold \in Nat
  /\ Similarities \subseteq [Principals -> [Documents -> Nat]]
  /\ \A sim \in Similarities, v \in Principals :
       /\ sim[v][<<v, 0>>] >= Threshold
       /\ \A n \in 1..(documents_per_tenant - 1) : sim[v][<<v, n>>] < sim[v][<<v, 0>>]

VARIABLES
  similarity, broken,     \* the corpus, and the fences that are broken
  phase,                  \* ingest, attack, tamper, report, then end or aborted
  first, second,          \* its loop variables
  documents,              \* all_documents
  attack_pairs, selected, returned, blocked, detected, passed

vars == <<similarity, broken, phase, first, second, documents,
          attack_pairs, selected, returned, blocked, detected, passed>>

counters == <<attack_pairs, selected, returned, blocked, detected>>

\* Of the places ks none holds a document closer to v's canary than the one at k, and
\* none before k one as close.
Leads(k, ks, v) ==
  \A j \in ks : /\ similarity[v][documents[j]] <= similarity[v][documents[k]]
                /\ j < k => similarity[v][documents[j]] < similarity[v][documents[k]]

\* max() and the store's stable sort: the first of the closest.
Closest(ks, v) == documents[CHOOSE k \in ks : Leads(k, ks, v)]

\* What the engine's search ranges over.
Scope(a) == {k \in DOMAIN documents : "filter" \in broken \/ documents[k][1] = a}

\* AES-GCM opens what the same key sealed.
Opens(a, v) == "key" \in broken \/ a = v

\* store.search of a for v's canary, with top_k = 1.
Hits(a, v) ==
  LET near == {k \in Scope(a) : similarity[v][documents[k]] >= Threshold}
  IN  IF near = {} THEN {} ELSE {Closest(near, v)}

\* InvalidTag out of the search: nobody catches it.
Raises(a, v) == \E d \in Hits(a, v) : ~Opens(a, d[1])

\* Mutant: the query is made with the victim's own principal.
ReturnsToVictim(a, v) == <<v, 0>> \in Hits(v, v)

ReturnsCanary(a, v) == <<v, 0>> \in Hits(a, v)

\* sign_receipt over a payload that names tenant t.
Signature(t) == [tenant |-> IF "signature" \in broken THEN 0 ELSE t]

Count(condition) == IF condition THEN 1 ELSE 0
-----------------------------------------------------------------------------
Init ==
  /\ similarity \in Similarities
  /\ broken \in SUBSET Fences
  /\ phase = "ingest"
  /\ first = 0 /\ second = 0
  /\ documents = <<>>
  /\ attack_pairs = 0 /\ selected = 0 /\ returned = 0 /\ blocked = 0 /\ detected = 0
  /\ passed = FALSE

\* Two nested loops, the inner one n long; then the next phase.
Advance(n, to) ==
  /\ second' = IF second = n - 1 THEN 0 ELSE second + 1
  /\ first' = IF second < n - 1 THEN first ELSE IF first = tenant_count - 1 THEN 0 ELSE first + 1
  /\ phase' = IF second = n - 1 /\ first = tenant_count - 1 THEN to ELSE phase

Ingest ==
  /\ phase = "ingest"
  /\ documents' = Append(documents, <<first, second>>)
  /\ Advance(documents_per_tenant, "attack")
  /\ UNCHANGED <<similarity, broken, counters, passed>>

\* Mutant: the continue is dropped.
SkipsNone(a, v) == FALSE

\* No tenant attacks itself.
Skips(a, v) == a = v

Attack ==
  /\ phase = "attack"
  /\ IF Skips(first, second) THEN UNCHANGED counters
     ELSE /\ ~Raises(first, second)
          /\ attack_pairs' = attack_pairs + 1
          /\ selected' = selected + Count(Closest(DOMAIN documents, second)[1] = second)
          /\ returned' = returned + Count(ReturnsCanary(first, second))
          /\ blocked' = blocked + Count(~Opens(first, second))
          /\ UNCHANGED detected
  /\ Advance(tenant_count, "tamper")
  /\ UNCHANGED <<similarity, broken, documents, passed>>

Tamper ==
  /\ phase = "tamper"
  /\ ~Raises(first, first)
  /\ detected' = detected + Count(Signature(first) # Signature((first + 1) % tenant_count))
  /\ Advance(1, "report")
  /\ UNCHANGED <<similarity, broken, documents, attack_pairs, selected, returned, blocked, passed>>

\* The script ends without a report.
Abort ==
  /\ \/ phase = "attack" /\ ~Skips(first, second) /\ Raises(first, second)
     \/ phase = "tamper" /\ Raises(first, first)
  /\ phase' = "aborted"
  /\ UNCHANGED <<similarity, broken, first, second, documents, counters, passed>>

Report ==
  /\ phase = "report"
  /\ passed' = /\ selected = attack_pairs /\ returned = 0
               /\ blocked = attack_pairs /\ detected = tenant_count
  /\ phase' = "end"
  /\ UNCHANGED <<similarity, broken, first, second, documents, counters>>

Next == Ingest \/ Attack \/ Tamper \/ Abort \/ Report

Spec == Init /\ [][Next]_vars
-----------------------------------------------------------------------------
\* The benchmark passes exactly if every fence stands and the corpus is one in which
\* a search without the filter would find every victim: each fence that breaks, alone
\* or with others, is caught by a check of its own.
PassedIffFencesStand ==
  phase = "end" =>
    (passed <=> broken = {} /\ \A v \in Principals : Closest(DOMAIN documents, v)[1] = v)

\* The report's rates are over all ordered pairs of different tenants, which are
\* never none; every attempt is counted once, whatever its outcome.
RatesAreOverAllPairs ==
  phase = "end" =>
    /\ attack_pairs = tenant_count * (tenant_count - 1) /\ attack_pairs > 0
    /\ blocked = IF "key" \in broken THEN 0 ELSE attack_pairs
    /\ returned \in 0..attack_pairs /\ selected \in 0..attack_pairs
    /\ "filter" \notin broken => returned = 0
=============================================================================
