---------------------------- MODULE TenantFence ----------------------------
(***************************************************************************)
(* The method contract both stores claim (the RagStore protocol of         *)
(* store.py, "no-cross-tenant"): a document goes into the partition of     *)
(* the caller's tenant and stays there, and a search returns documents of  *)
(* that partition only.                                                    *)
(***************************************************************************)
EXTENDS Fleet

VARIABLES
  owner,       \* the tenant each request acts for
  partition,   \* the texts each tenant has stored
  seen         \* the texts each request has been given

vars == <<owner, partition, seen>>

Init ==
  /\ owner \in [Requests -> Tenants]
  /\ partition = [t \in Tenants |-> {}]
  /\ seen = [r \in Requests |-> {}]

Ingest(r, c) ==
  /\ partition' = [partition EXCEPT ![owner[r]] = @ \cup {c}]
  /\ UNCHANGED <<owner, seen>>

Search(r, hits) ==
  /\ hits \subseteq partition[owner[r]]
  /\ seen' = [seen EXCEPT ![r] = hits]
  /\ UNCHANGED <<owner, partition>>

Next ==
  \E r \in Requests :
    \/ \E c \in Contents : Ingest(r, c)
    \/ \E hits \in SUBSET Contents : Search(r, hits)

Spec == Init /\ [][Next]_vars
=============================================================================
