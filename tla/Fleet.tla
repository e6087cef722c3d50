------------------------------- MODULE Fleet -------------------------------
(***************************************************************************)
(* The sorts every component shares: the tenants that app.tenants lists,   *)
(* the API processes that serve them, and the requests a run handles.      *)
(*                                                                         *)
(* Tenant ids, request ids, documents and digests are model values: the    *)
(* code only ever compares them.  A request id stands for the event hash   *)
(* of the one audit event the request can append, because the digest       *)
(* covers the request id and SHA-256 is taken to be collision free.        *)
(***************************************************************************)
EXTENDS Integers, FiniteSets

CONSTANTS
  Tenants,     \* rows of app.tenants
  Instances,   \* API processes (Cloud Run instances of the service)
  Requests,    \* HTTP requests of a run, one handler thread each
  Contents,    \* distinguishable document texts
  Genesis      \* the all-zero hash that starts a chain

\* What the service gives its principals.
Scopes == {"rag:read", "rag:write"}

\* What a contract may require: any string, so also a scope no principal has.
PolicyScopes == Scopes \cup {"other"}

Hashes == Requests \cup {Genesis}

ASSUME FleetAssumption ==
  /\ IsFiniteSet(Instances)
  /\ IsFiniteSet(Requests)
  /\ Genesis \notin Requests
=============================================================================
