----------------------------- MODULE PgSession -----------------------------
(***************************************************************************)
(* PostgresRagStore._transaction (store.py): the connections of the        *)
(* handlers and the tenant context on the database's side of them.         *)
(* RagStore takes a transaction as one step; here it is taken apart.       *)
(*                                                                         *)
(*   connect - begin - context - statement - commit - close                *)
(*                                                                         *)
(* An error after begin leads to rollback and close.  An error of begin    *)
(* itself leaves the try unentered: the connection stays open until the    *)
(* exception, and with it the frame that holds it, is dropped at the end   *)
(* of the handler.  Backends may outlive connections behind a pooler, with *)
(* the session state they were left in.                                    *)
(***************************************************************************)
EXTENDS Integers, FiniteSets

CONSTANTS
  Handlers,     \* threads that handle requests, over all processes
  TenantOf,     \* of the principal each serves
  Backends,     \* what the database lets connect at a time
  Operations,   \* store operations of a request, one after the other
  MaxErrors,    \* bound on errors
  None

ASSUME SessionAssumption ==
  /\ None \notin {TenantOf[h] : h \in Handlers} /\ None \notin Backends
  /\ IsFiniteSet(Backends)
  /\ Operations \in Nat \ {0} /\ MaxErrors \in Nat

VARIABLES
  pc,        \* where each handler is
  left,      \* its operations to go
  held,      \* the backend it is connected to
  open,      \* backends with a connection
  inside,    \* whether the backend is in a transaction ...
  context,   \* ... and its app.tenant_id
  errors     \* errors so far

vars == <<pc, left, held, open, inside, context, errors>>

Init ==
  /\ pc = [h \in Handlers |-> "connect"]
  /\ left = [h \in Handlers |-> Operations]
  /\ held = [h \in Handlers |-> None]
  /\ open = {}
  /\ inside = [b \in Backends |-> FALSE]
  /\ context = [b \in Backends |-> None]
  /\ errors = 0

\* Mutant: one connection, kept and used by every handler.
Shared == {CHOOSE b \in Backends : TRUE}

Release(h) ==
  /\ held' = [held EXCEPT ![h] = None]
  /\ open' = open \ {held[h]}

Free == Backends \ open

Goto(h, from, to) == pc[h] = from /\ pc' = [pc EXCEPT ![h] = to]

Connect(h) ==
  /\ Goto(h, "connect", "begin")
  /\ \E b \in Free : held' = [held EXCEPT ![h] = b] /\ open' = open \cup {b}
  /\ UNCHANGED <<left, inside, context, errors>>

\* FATAL: too many connections.
Refused(h) ==
  /\ Goto(h, "connect", "failed")
  /\ Free = {}
  /\ UNCHANGED <<left, held, open, inside, context, errors>>

Begin(h) ==
  /\ Goto(h, "begin", "context")
  /\ inside' = [inside EXCEPT ![held[h]] = TRUE]
  /\ UNCHANGED <<left, held, open, context, errors>>

\* set_config('app.tenant_id', ..., true).
SetContext(h) ==
  /\ Goto(h, "context", "statement")
  /\ context' = [context EXCEPT ![held[h]] = TenantOf[h]]
  /\ UNCHANGED <<left, held, open, inside, errors>>

Execute(h) ==
  /\ Goto(h, "statement", "commit")
  /\ UNCHANGED <<left, held, open, inside, context, errors>>

\* Mutant: set_config(..., false): the setting is the session's.
EndKeepingContext(b) == inside' = [inside EXCEPT ![b] = FALSE] /\ UNCHANGED context

\* A transaction-local setting ends with the transaction.
End(b) == inside' = [inside EXCEPT ![b] = FALSE] /\ context' = [context EXCEPT ![b] = None]

Commit(h) ==
  /\ Goto(h, "commit", "close")
  /\ End(held[h])
  /\ UNCHANGED <<left, held, open, errors>>

Close(h) ==
  /\ Goto(h, "close", IF left[h] = 1 THEN "done" ELSE "connect")
  /\ left' = [left EXCEPT ![h] = @ - 1]
  /\ Release(h)
  /\ UNCHANGED <<inside, context, errors>>
-----------------------------------------------------------------------------
\* Mutant: without the finally, an error leaves the connection open.
RollBackOnly(h) ==
  /\ Goto(h, "rollback", "failed")
  /\ End(held[h])
  /\ UNCHANGED <<left, held, open, errors>>

\* __exit__ with the error, then close.  After a failed commit __exit__ raises a
\* second time, and finally still closes; the server ends the transaction then.
RollBackAndClose(h) ==
  /\ Goto(h, "rollback", "failed")
  /\ End(held[h])
  /\ Release(h)
  /\ UNCHANGED <<left, errors>>

\* The exception is gone, and the connection that only its frame held.
Drop(h) ==
  /\ Goto(h, "raised", "failed")
  /\ Release(h)
  /\ UNCHANGED <<left, inside, context, errors>>

\* connect raises for another reason.
ConnectError(h) ==
  /\ errors < MaxErrors
  /\ Goto(h, "connect", "failed")
  /\ errors' = errors + 1
  /\ UNCHANGED <<left, held, open, inside, context>>

\* An error of the statement, or a connection lost: then the backend is gone and
\* another takes its place.
Error(h) ==
  /\ errors < MaxErrors
  /\ pc[h] \in {"begin", "context", "statement", "commit"}
  /\ pc' = [pc EXCEPT ![h] = IF pc[h] = "begin" THEN "raised" ELSE "rollback"]
  /\ errors' = errors + 1
  /\ \/ UNCHANGED <<inside, context>>
     \/ End(held[h])
  /\ UNCHANGED <<left, held, open>>

\* The thread's next request.
Serve(h) ==
  /\ pc[h] \in {"done", "failed"}
  /\ pc' = [pc EXCEPT ![h] = "connect"]
  /\ left' = [left EXCEPT ![h] = Operations]
  /\ UNCHANGED <<held, open, inside, context, errors>>

Next == \E h \in Handlers :
          \/ Connect(h) \/ Refused(h) \/ Begin(h) \/ SetContext(h) \/ Execute(h) \/ Commit(h)
          \/ Close(h) \/ RollBackAndClose(h) \/ Drop(h) \/ ConnectError(h) \/ Error(h) \/ Serve(h)

Spec == Init /\ [][Next]_vars
-----------------------------------------------------------------------------
\* The tenant context exists only inside a transaction, and is that of the one
\* handler that holds the backend: whoever gets the backend next finds none.
ContextIsTransactionLocal ==
  \A b \in Backends : context[b] # None =>
    /\ inside[b]
    /\ \E h \in Handlers : held[h] = b /\ context[b] = TenantOf[h]

\* Every statement on a table runs under the caller's own context, and no two
\* handlers share a backend.
StatementUnderOwnTenant ==
  \A h \in Handlers :
    /\ pc[h] \in {"statement", "commit"} => context[held[h]] = TenantOf[h]
    /\ held[h] # None => \A g \in Handlers : held[g] = held[h] => g = h

\* A handler is turned away only because as many others are in the middle of a store
\* operation as the database has connections: whichever step a request failed in
\* before, none took two connections and none left one behind.
Connected(h) == pc[h] \notin {"connect", "done", "failed"}

RefusedOnlyWhenBusy ==
  \A h \in Handlers : pc[h] = "connect" /\ Free = {} =>
    Cardinality({g \in Handlers \ {h} : Connected(g)}) = Cardinality(Backends)
=============================================================================
