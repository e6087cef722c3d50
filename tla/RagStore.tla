----------------------------- MODULE RagStore ------------------------------
(***************************************************************************)
(* PostgresRagStore (store.py) over the schema of 001_zero_trust.sql.      *)
(*                                                                         *)
(* Every store method opens a connection, runs ONE statement in one        *)
(* transaction under app.tenant_id, and closes the connection, so a        *)
(* transaction is one atomic step here.  append_audit is two of them:      *)
(* audit_head reads the head, a second transaction inserts the event, and  *)
(* nothing holds a lock in between.  The steps are operators; the          *)
(* composing module decides which handler takes them and when.             *)
(***************************************************************************)
EXTENDS Fleet, Sequences

CONSTANTS
  KeyRoot,     \* TENANT_KEY_ROOT each instance was deployed with
  Skew         \* offset of each instance's clock from real time

ASSUME StoreAssumption == Skew \in [Instances -> Int]

VARIABLES
  documents,   \* rows of rag.documents
  events,      \* rows of audit.events, in commit order
  now          \* real time, in completed transactions

storeVars == <<documents, events, now>>

Actions == {"document.ingested", "retrieval.completed"}

\* TenantCipher derives the key from the root secret and the tenant id.
Key(i, t) == [tenant |-> t, root |-> KeyRoot[i]]

Keys == [tenant : Tenants, root : {KeyRoot[i] : i \in Instances}]

DocumentRow == [tenant : Tenants, content : Contents, key : Keys]

EventRow == [hash : Requests, tenant : Tenants, action : Actions,
             count : Nat, prev : Hashes, at : Int]

StoreTypeOK ==
  /\ documents \in SUBSET DocumentRow
  /\ events \in Seq(EventRow)
  /\ now \in Nat

StoreInit ==
  /\ documents = {}
  /\ events = <<>>
  /\ now = 0
-----------------------------------------------------------------------------
\* Mutant: rag.documents without row-level security.
UnfilteredDocuments(t) == documents

\* Mutant: audit.events without row-level security.
UnfilteredEvents(t) == DOMAIN events

\* The row-level policies: what a transaction under tenant t can see.
Visible(t) == {d \in documents : d.tenant = t}

VisibleEvents(t) == {k \in DOMAIN events : events[k].tenant = t}

\* Mutant: the UNIQUE constraint dropped.
NeverDuplicate(t, c) == FALSE

\* UNIQUE (tenant_id, content_sha256).
Duplicate(t, c) == \E d \in documents : d.tenant = t /\ d.content = c

\* A statement that changes nothing still takes time.
ReadOnly == now' = now + 1 /\ UNCHANGED <<documents, events>>

InsertDocument(i, t, c) ==
  /\ ~Duplicate(t, c)
  /\ documents' = documents \cup {[tenant |-> t, content |-> c, key |-> Key(i, t)]}
  /\ now' = now + 1
  /\ UNCHANGED events

\* Rows a search may return: qualifying visible rows, at most k of them.  The
\* HNSW index is approximate, so a qualifying row may be missing.
Ranked(t, question, k) ==
  {rows \in SUBSET {d \in Visible(t) : d.content \in question} : Cardinality(rows) <= k}

\* AES-GCM authenticates a row only under the key that sealed it.
Decrypts(i, t, rows) == \A d \in rows : d.key = Key(i, t)

CountDocuments(t) == Cardinality(Visible(t))

\* Mutant: an empty ledger has no head, instead of the all-zero hash.
NullHeads(t) ==
  IF VisibleEvents(t) = {}
    THEN {"null"}
    ELSE {events[k].hash : k \in {j \in VisibleEvents(t) :
             \A m \in VisibleEvents(t) : events[m].at <= events[j].at}}

\* ORDER BY created_at DESC LIMIT 1: any of the rows with the latest stamp.
Heads(t) ==
  IF VisibleEvents(t) = {}
    THEN {Genesis}
    ELSE {events[k].hash : k \in {j \in VisibleEvents(t) :
             \A m \in VisibleEvents(t) : events[m].at <= events[j].at}}

\* datetime.now(UTC) on instance i.
Clock(i) == now + Skew[i]

InsertEvent(row) ==
  /\ events' = Append(events, row)
  /\ now' = now + 1
  /\ UNCHANGED documents
=============================================================================
