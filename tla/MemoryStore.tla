---------------------------- MODULE MemoryStore ----------------------------
(***************************************************************************)
(* MemoryRagStore (store.py) under the threads of one process.  It keeps   *)
(* two defaultdicts, tenant -> list of documents and tenant -> list of     *)
(* events, and no lock.                                                    *)
(*                                                                         *)
(* Evaluating self._documents[tenant] gives a reference to a list.  For a  *)
(* tenant that has none, defaultdict makes one and then stores it under    *)
(* the key; hashing and comparing a UUID runs Python code, so another      *)
(* thread can run between the failed lookup and the store.  Lists are      *)
(* therefore objects of their own here, named after their creator.         *)
(***************************************************************************)
EXTENDS Fleet, Sequences

CONSTANTS
  Jobs,     \* what a request may ask of the store
  Seeded    \* tenants whose lists exist before the threads start

Job == [kind : {"ingest", "query"}, tenant : Tenants, scopes : SUBSET Scopes,
        content : Contents, question : SUBSET Contents, topk : 1..10]

ASSUME MemoryAssumption ==
  /\ Jobs \subseteq Job
  /\ Seeded \subseteq Tenants
  /\ Requests \cap Tenants = {}
  /\ "missing" \notin Requests \cup Tenants

VARIABLES
  job,        \* the call each thread executes
  bucket,     \* the dictionaries: per table and tenant, the list it holds
  documents,  \* the document lists, as sets: search sorts them anyway
  events,     \* the event lists
  step,       \* position in Program, 0 for a refused call
  creating,   \* the thread has missed and is about to store its new list
  held,       \* the list it works on
  hits,       \* what search returned
  prev        \* previous_hash of the event under way

vars == <<job, bucket, documents, events, step, creating, held, hits, prev>>

Tables == {"documents", "events"}

Lists == Requests \cup Tenants

Document == [id : Requests, tenant : Tenants, content : Contents]

Event == [hash : Requests, tenant : Tenants, prev : Hashes]

Tenant(r) == job[r].tenant

\* The operations between which the interpreter may switch threads; naming a
\* table looks up the tenant's list in it.
Program(r) ==
  IF job[r].kind = "ingest"
    THEN <<"check", "documents", "keep", "events", "head", "events", "append">>
    ELSE <<"check", "documents", "rank", "events", "head", "events", "append", "documents", "size">>

At(r, op) == step[r] \in DOMAIN Program(r) /\ Program(r)[step[r]] = op

Answered(r) == step[r] > Len(Program(r))

Needs(r) == IF job[r].kind = "ingest" THEN "rag:write" ELSE "rag:read"

Init ==
  /\ job \in [Requests -> Jobs]
  /\ bucket = [x \in Tables |-> [t \in Tenants |-> IF t \in Seeded THEN t ELSE "missing"]]
  /\ documents = [o \in Lists |-> {}]
  /\ events = [o \in Lists |-> <<>>]
  /\ step = [r \in Requests |-> 1]
  /\ creating = [r \in Requests |-> FALSE]
  /\ held = [r \in Requests |-> r]
  /\ hits = [r \in Requests |-> {}]
  /\ prev = [r \in Requests |-> Genesis]
-----------------------------------------------------------------------------
Advance(r) == step' = [step EXCEPT ![r] = @ + 1]

Permit(r) ==
  /\ At(r, "check")
  /\ Needs(r) \in job[r].scopes
  /\ Advance(r)
  /\ UNCHANGED <<job, bucket, documents, events, creating, held, hits, prev>>

\* PermissionError: the call ends before it touches a table.
Refuse(r) ==
  /\ At(r, "check")
  /\ Needs(r) \notin job[r].scopes
  /\ step' = [step EXCEPT ![r] = 0]
  /\ UNCHANGED <<job, bucket, documents, events, creating, held, hits, prev>>

\* self._documents[tenant], the list is there ...
Find(r, x) ==
  /\ At(r, x)
  /\ ~creating[r]
  /\ bucket[x][Tenant(r)] # "missing"
  /\ held' = [held EXCEPT ![r] = bucket[x][Tenant(r)]]
  /\ Advance(r)
  /\ UNCHANGED <<job, bucket, documents, events, creating, hits, prev>>

\* ... it is not: defaultdict calls list() ...
Miss(r, x) ==
  /\ At(r, x)
  /\ ~creating[r]
  /\ bucket[x][Tenant(r)] = "missing"
  /\ creating' = [creating EXCEPT ![r] = TRUE]
  /\ UNCHANGED <<job, bucket, documents, events, step, held, hits, prev>>

\* Mutant: a dictionary shared by all tenants.
CreateForAll(r, x) ==
  /\ At(r, x)
  /\ creating[r]
  /\ creating' = [creating EXCEPT ![r] = FALSE]
  /\ bucket' = [bucket EXCEPT ![x] = [t \in Tenants |-> r]]
  /\ held' = [held EXCEPT ![r] = r]
  /\ Advance(r)
  /\ UNCHANGED <<job, documents, events, hits, prev>>

\* ... and stores it under the key, whatever is there by now.
Create(r, x) ==
  /\ At(r, x)
  /\ creating[r]
  /\ creating' = [creating EXCEPT ![r] = FALSE]
  /\ bucket' = [bucket EXCEPT ![x][Tenant(r)] = r]
  /\ held' = [held EXCEPT ![r] = r]
  /\ Advance(r)
  /\ UNCHANGED <<job, documents, events, hits, prev>>
-----------------------------------------------------------------------------
\* Mutant: ingest assigns the list instead of appending to it.
KeepLatest(r) ==
  /\ At(r, "keep")
  /\ documents' = [documents EXCEPT ![held[r]] =
       {[id |-> r, tenant |-> Tenant(r), content |-> job[r].content]}]
  /\ Advance(r)
  /\ UNCHANGED <<job, bucket, events, creating, held, hits, prev>>

\* ingest appends.  Nothing looks for a document of the same content.
Keep(r) ==
  /\ At(r, "keep")
  /\ documents' = [documents EXCEPT ![held[r]] =
       @ \cup {[id |-> r, tenant |-> Tenant(r), content |-> job[r].content]}]
  /\ Advance(r)
  /\ UNCHANGED <<job, bucket, events, creating, held, hits, prev>>

\* Mutant: search scans every list.
AllQualifying(r) ==
  {d \in UNION {documents[o] : o \in Lists} : d.content \in job[r].question}

\* Cosine similarity of at least 0.18.
Qualifying(r) == {d \in documents[held[r]] : d.content \in job[r].question}

\* search: the top_k best, or all that qualify if they are fewer.
Rank(r) ==
  /\ At(r, "rank")
  /\ \E best \in SUBSET Qualifying(r) :
       /\ \/ best = Qualifying(r) /\ Cardinality(best) <= job[r].topk
          \/ Cardinality(best) = job[r].topk
       /\ hits' = [hits EXCEPT ![r] = best]
  /\ Advance(r)
  /\ UNCHANGED <<job, bucket, documents, events, creating, held, prev>>

\* Mutant: an empty ledger has no head.
ReadHeadOrNull(r) ==
  /\ At(r, "head")
  /\ LET log == events[held[r]]
     IN  prev' = [prev EXCEPT ![r] = IF log = <<>> THEN "null" ELSE log[Len(log)].hash]
  /\ Advance(r)
  /\ UNCHANGED <<job, bucket, documents, events, creating, held, hits>>

\* append_audit: audit_head reads the last event ...
ReadHead(r) ==
  /\ At(r, "head")
  /\ LET log == events[held[r]]
     IN  prev' = [prev EXCEPT ![r] = IF log = <<>> THEN Genesis ELSE log[Len(log)].hash]
  /\ Advance(r)
  /\ UNCHANGED <<job, bucket, documents, events, creating, held, hits>>

\* ... and the event is appended, without a lock over the two.
AppendEvent(r) ==
  /\ At(r, "append")
  /\ events' = [events EXCEPT ![held[r]] =
       Append(@, [hash |-> r, tenant |-> Tenant(r), prev |-> prev[r]])]
  /\ Advance(r)
  /\ UNCHANGED <<job, bucket, documents, creating, held, hits, prev>>

\* count_for_tenant; len() of a list changes nothing.
Size(r) ==
  /\ At(r, "size")
  /\ Advance(r)
  /\ UNCHANGED <<job, bucket, documents, events, creating, held, hits, prev>>

Finished ==
  /\ \A r \in Requests : Answered(r) \/ step[r] = 0
  /\ UNCHANGED vars

Next ==
  \/ \E r \in Requests :
       \/ Permit(r) \/ Refuse(r)
       \/ \E x \in Tables : Find(r, x) \/ Miss(r, x) \/ Create(r, x)
       \/ Keep(r) \/ Rank(r) \/ ReadHead(r) \/ AppendEvent(r) \/ Size(r)
  \/ Finished

Spec == Init /\ [][Next]_vars
-----------------------------------------------------------------------------
MemoryTypeOK ==
  /\ job \in [Requests -> Jobs]
  /\ bucket \in [Tables -> [Tenants -> Lists \cup {"missing"}]]
  /\ documents \in [Lists -> SUBSET Document]
  /\ events \in [Lists -> Seq(Event)]
  /\ step \in [Requests -> 0..10]
  /\ creating \in [Requests -> BOOLEAN]
  /\ held \in [Requests -> Lists]
  /\ hits \in [Requests -> SUBSET Document]
  /\ prev \in [Requests -> Hashes]

\* The list the dictionary holds for t; a missing one reads as empty.
Stored(t) == IF bucket["documents"][t] = "missing" THEN {} ELSE documents[bucket["documents"][t]]

Log(t) == IF bucket["events"][t] = "missing" THEN <<>> ELSE events[bucket["events"][t]]

Contains(log, r) == \E k \in DOMAIN log : log[k].hash = r

\* For a tenant whose lists were there before the threads started, what ingest
\* acknowledged is in the partition, and every answered call is on the ledger.
\* Threads that create a tenant's lists beside each other may lose both.
NothingLost ==
  \A r \in Requests : Answered(r) /\ Tenant(r) \in Seeded =>
    /\ Contains(Log(Tenant(r)), r)
    /\ job[r].kind = "ingest" => \E d \in Stored(Tenant(r)) : d.id = r

\* In every list, lost or not, each event belongs to one tenant and continues the
\* all-zero hash or an event of the same tenant that some list holds.
LinksResolve ==
  \A o \in Lists : \A k \in DOMAIN events[o] :
    /\ events[o][k].tenant = events[o][1].tenant
    /\ \/ events[o][k].prev = Genesis
       \/ \E p \in Lists : \E j \in DOMAIN events[p] :
            /\ events[p][j].hash = events[o][k].prev
            /\ events[p][j].tenant = events[o][k].tenant

\* The store keeps the contract of TenantFence, with every document it ever held for
\* a tenant in the partition: even threads that create lists beside each other, and
\* lose some, never find another tenant's documents in them.
Fence == INSTANCE TenantFence WITH
  owner <- [r \in Requests |-> Tenant(r)],
  partition <- [t \in Tenants |-> {d.content : d \in {e \in UNION {documents[o] : o \in Lists} : e.tenant = t}}],
  seen <- [r \in Requests |-> {d.content : d \in hits[r]}]

RefinesFence == Fence!Spec
=============================================================================
