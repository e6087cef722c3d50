--------------------------- MODULE MCMemoryStore ---------------------------
(***************************************************************************)
(* Two tenants, one with lists and one without, and the calls that meet on *)
(* them.                                                                   *)
(***************************************************************************)
EXTENDS MemoryStore

Ingest(t, c) == [kind |-> "ingest", tenant |-> t, scopes |-> Scopes,
                 content |-> c, question |-> {}, topk |-> 1]

Query(t, k) == [kind |-> "query", tenant |-> t, scopes |-> {"rag:read"},
                content |-> "x", question |-> {"x", "y"}, topk |-> k]

JobValues == {Ingest("northstar", "x"), Ingest("northstar", "y"), Ingest("acme", "x"),
              Query("northstar", 1), [Ingest("acme", "y") EXCEPT !.scopes = {"rag:read"}]}
=============================================================================
