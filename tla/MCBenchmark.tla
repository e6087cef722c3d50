---------------------------- MODULE MCBenchmark ----------------------------
(***************************************************************************)
(* Three tenants with two documents each.  To a canary its own tenant's    *)
(* canary is at 3 and the note at 1 or 2; the other tenants' documents are *)
(* at 0 to 3, the same for all victims or different for the last one.      *)
(***************************************************************************)
EXTENDS Benchmark

Row(v, own, canary, note) ==
  [d \in Documents |-> CASE d = <<v, 0>> -> 3
                         [] d[1] = v /\ d[2] > 0 -> own
                         [] d[1] # v /\ d[2] = 0 -> canary
                         [] d[1] # v /\ d[2] > 0 -> note]

Rows == {<<own, canary, note>> : own \in 1..2, canary \in 0..3, note \in 0..3}

Similar(p, q) == [v \in Principals |-> LET x == IF v = tenant_count - 1 THEN q ELSE p
                                       IN  Row(v, x[1], x[2], x[3])]

SimilarityValues == {Similar(p, q) : p \in Rows, q \in Rows}
=============================================================================
