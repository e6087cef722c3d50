--------------------------- MODULE MCTenantVault ---------------------------
(***************************************************************************)
(* Values for TLC: three tenants of which "globex" has no contract, three  *)
(* texts, and one set of client calls per run.  "ops" shows the ORCHID     *)
(* canary, "flight" and "rumor" show CONDOR; a search for either canary    *)
(* may find all three, because they share the words of both canaries.      *)
(***************************************************************************)
EXTENDS TenantVault, TLC

BothScopes == {"rag:read", "rag:write"}

ContractValues ==
  [t \in {"northstar", "acme"} |->
     IF t = "northstar" THEN [maxResults |-> 3, scopes |-> {"rag:read"}]
                        ELSE [maxResults |-> 2, scopes |-> BothScopes]]

FindsValues == [canary \in {"condor", "orchid"} |-> {"ops", "flight", "rumor"}]

CarriesValues ==
  [canary \in {"condor", "orchid"} |-> IF canary = "condor" THEN {"flight", "rumor"} ELSE {"ops"}]

Ingest(t, c) == [kind |-> "ingest", tenant |-> t, scopes |-> BothScopes,
                 content |-> c, question |-> {}, topk |-> 1]

Query(t, q, k) == [kind |-> "query", tenant |-> t, scopes |-> {"rag:read"},
                   content |-> "ops", question |-> q, topk |-> k]

Probe(t) == [kind |-> "probe", tenant |-> t, scopes |-> BothScopes,
             content |-> "ops", question |-> {}, topk |-> 1]

Attest(t) == [Probe(t) EXCEPT !.kind = "attest"]

ReadOnlyIngest(t) == [Ingest(t, "ops") EXCEPT !.scopes = {"rag:read"}]

\* One handler at a time: two tenants, and every way authorize or the store refuses.
SerialCalls == {Ingest("northstar", "ops"), Ingest("acme", "flight"), ReadOnlyIngest("northstar"),
                Query("northstar", {"ops"}, 2), Query("acme", {"flight"}, 3),
                Query("globex", {"ops"}, 1), Probe("acme"), Attest("acme"), Attest("northstar")}

\* Two processes side by side: duplicates, and retrievals beside ingests.
MixedCalls == {Ingest("northstar", "ops"), Ingest("northstar", "rumor"),
               Query("northstar", {"ops", "rumor"}, 2), Ingest("acme", "ops")}

\* Two retrievals are enough to fork a chain.
RetrievalCalls == {Query("northstar", {"ops"}, 1)}

SameRoot == [i \in Instances |-> "root"]

OwnRoot == [i \in Instances |-> i]

NoSkew == [i \in Instances |-> 0]

AnyRequest == Permutations(Requests)
=============================================================================
