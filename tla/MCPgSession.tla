---------------------------- MODULE MCPgSession ----------------------------
(***************************************************************************)
(* Three threads that serve two tenants, two store operations a request.   *)
(***************************************************************************)
EXTENDS PgSession

TenantValues == [h \in Handlers |-> IF h = "h1" THEN "northstar" ELSE "acme"]
=============================================================================
