----------------------------- MODULE MCStartup -----------------------------
(***************************************************************************)
(* Two demo tenants, processes with keys of their own, which tell their    *)
(* rows apart, and the policy files they may start with: a cap on each     *)
(* side of both bounds, one that is only within them after int(), an entry *)
(* without rag:read, one that does not convert, two entries of one tenant, *)
(* and the four ways the gate can be missing.  Of the acceptable files two *)
(* have a contract for both tenants; one of these requires a scope that no *)
(* principal has, so the service can start with the other alone.           *)
(***************************************************************************)
EXTENDS Startup

DemoValues == <<"northstar", "acme">>

SeedValues == [t \in Tenants |-> IF t = "northstar" THEN "ops" ELSE "flight"]

RootValues == [i \in Instances |-> i]

SkewValues == [i \in Instances |-> 0]

Raw(sound, t, cap, scopes) ==
  [sound |-> sound, tenant |-> t, maxResults |-> cap, scopes |-> scopes, slo |-> 120]

Entries == {Raw(TRUE, t, cap, {"rag:read"}) : t \in Tenants, cap \in {1, 2, 8, 20, 21, 22}}
           \cup {Raw(TRUE, t, 8, {"rag:write"}) : t \in Tenants}
           \cup {Raw(FALSE, t, 8, Scopes) : t \in Tenants}

Northstars == {e \in Entries : e.tenant = "northstar"}

\* Acme's contract, and two entries of northstar's.
Both(last) == <<Raw(TRUE, "acme", 8, Scopes), Raw(TRUE, "northstar", 2, {"rag:read"}), last>>

\* A contract for both, of which acme's admits nobody.
Locked == <<Raw(TRUE, "acme", 8, {"rag:read", "other"}), Raw(TRUE, "northstar", 2, {"rag:read"})>>

Lists == {<<>>, Locked} \cup {<<e>> : e \in Entries} \cup (Northstars \X Northstars)
         \cup {Both(Raw(TRUE, "northstar", cap, {"rag:read"})) : cap \in {1, 21}}

FileValues ==
  {[schema |-> 1, controls |-> REQUIRED_CONTROLS, quarantine |-> TRUE, contracts |-> c] : c \in Lists}
  \cup {[schema |-> s, controls |-> Controls \ {gone}, quarantine |-> q,
         contracts |-> <<Raw(TRUE, t, 8, Scopes)>>] :
          s \in {1, 2}, gone \in Controls, q \in BOOLEAN, t \in Tenants}
=============================================================================
