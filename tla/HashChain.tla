----------------------------- MODULE HashChain -----------------------------
(***************************************************************************)
(* What the audit ledger promises each tenant: one chain.  An event is     *)
(* appended atomically, carries the hash of the tenant's latest event, or  *)
(* Genesis if there is none, and is never changed afterwards.              *)
(***************************************************************************)
EXTENDS Fleet, Sequences

VARIABLE chain   \* entries of all tenants, in the order they were appended

Entry == [hash : Requests, tenant : Tenants, prev : Hashes]

OfTenant(t) == {k \in DOMAIN chain : chain[k].tenant = t}

\* k is the position of t's latest entry.
Latest(t, k) == k \in OfTenant(t) /\ \A m \in OfTenant(t) : m <= k

Tails(t) ==
  IF OfTenant(t) = {} THEN {Genesis} ELSE {chain[k].hash : k \in {j \in OfTenant(t) : Latest(t, j)}}

Fresh(h) == \A k \in DOMAIN chain : chain[k].hash # h

Extend(t, h) ==
  /\ Fresh(h)
  /\ \E p \in Tails(t) : chain' = Append(chain, [hash |-> h, tenant |-> t, prev |-> p])

Init == chain = <<>>

Next == \E t \in Tenants, h \in Requests : Extend(t, h)

Spec == Init /\ [][Next]_chain
=============================================================================
