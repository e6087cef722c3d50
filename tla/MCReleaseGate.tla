--------------------------- MODULE MCReleaseGate ---------------------------
(***************************************************************************)
(* The gate's attestation of a demo tenant beside another client, on two   *)
(* processes of which one may stop.                                        *)
(***************************************************************************)
EXTENDS ReleaseGate

BothScopes == {"rag:read", "rag:write"}

ContractValues == [t \in {"northstar", "acme"} |-> [maxResults |-> 4, scopes |-> {"rag:read"}]]

FindsValues == [canary \in {"condor", "orchid"} |-> {"rumor"}]

CarriesValues == [canary \in {"condor", "orchid"} |-> IF canary = "condor" THEN {"rumor"} ELSE {}]

Attest(t) == [kind |-> "attest", tenant |-> t, scopes |-> BothScopes,
              content |-> "rumor", question |-> {}, topk |-> 1]

\* The gate's own attestation, beside one of either tenant or beside an ingest that
\* changes what they find.
GateCalls == {Attest("northstar"), Attest("acme"), [Attest("northstar") EXCEPT !.kind = "ingest"]}

GateValues == <<"g1">>

TokenValues == <<"northstar">>

SameRoot == [i \in Instances |-> "root"]

NoSkew == [i \in Instances |-> 0]
=============================================================================
