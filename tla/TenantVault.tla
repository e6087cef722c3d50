---------------------------- MODULE TenantVault ----------------------------
(***************************************************************************)
(* TenantVaultEngine behind the API endpoints (engine.py, api.py): the     *)
(* handlers of several API processes over one database (RagStore) and      *)
(* one control plane per process (ControlPlane).                           *)
(*                                                                         *)
(* A handler runs in a thread of its own and is cut wherever another       *)
(* thread or another process can see or change what it works on: at every  *)
(* database transaction and at every access to the control plane's maps.   *)
(*                                                                         *)
(*   ingest   authorize - insert - head - stamp - append - reply           *)
(*   query    authorize - search - head - stamp - append - count           *)
(*   probe    the same, with the other tenant's canary as the question     *)
(*   attest   attest - authorize - ... - count - judge - record - file     *)
(***************************************************************************)
EXTENDS RagStore, ControlPlane

CONSTANTS
  Calls,        \* what a client may send, with its verified principal
  Concurrency,  \* handlers one process runs at a time, at most
  CrashProne,   \* processes that may be stopped with requests in flight
  Northstar,    \* NORTHSTAR_TENANT
  Finds,        \* per canary, the contents close enough to it to be retrieved
  Carries       \* per canary, the contents whose excerpt shows it

Kinds == {"ingest", "query", "probe", "attest"}

Call == [kind : Kinds, tenant : Tenants, scopes : SUBSET Scopes,
         content : Contents, question : SUBSET Contents, topk : 1..10]

ASSUME WorkloadAssumption ==
  /\ Calls \subseteq Call
  /\ Concurrency \in Nat \ {0}
  /\ CrashProne \subseteq Instances
  /\ Finds \in [{"condor", "orchid"} -> SUBSET Contents]
  /\ Carries \in [{"condor", "orchid"} -> SUBSET Contents]

VARIABLES
  call,    \* the request each client sends ...
  inst,    \* ... and the process the load balancer gives it to
  pc,      \* where its handler is
  found,   \* what the search and the count returned
  link,    \* previous_hash and created_at of the audit event under way
  draft,   \* the attestation record under way
  reply    \* HTTP status sent, and what decided it

handlerVars == <<call, inst, pc, found, link, draft, reply>>

vars == <<storeVars, controlVars, handlerVars>>

\* corpus is what the search ranged over; the code never sees it.
Found == [hits : SUBSET DocumentRow, corpus : Nat, count : Nat]

Link == [prev : Hashes, at : Int]

Draft == [status : Verdict \cup {"none"}, quarantined : BOOLEAN]

Reply == [status : {0, 200, 201, 403, 423, 500},
          cause : {"none", "contract", "quarantine", "scope", "duplicate",
                   "undecryptable", "database"}]

Running == {"attest", "authorize", "insert", "search", "head", "stamp", "append",
            "reply", "count", "judge", "record", "file"}

Stages == Running \cup {"idle", "done", "lost"}

Init ==
  /\ StoreInit
  /\ ControlInit
  /\ call \in [Requests -> Calls]
  /\ inst \in [Requests -> Instances]
  /\ pc = [r \in Requests |-> "idle"]
  /\ found = [r \in Requests |-> [hits |-> {}, corpus |-> 0, count |-> 0]]
  /\ link = [r \in Requests |-> [prev |-> Genesis, at |-> 0]]
  /\ draft = [r \in Requests |-> [status |-> "none", quarantined |-> FALSE]]
  /\ reply = [r \in Requests |-> [status |-> 0, cause |-> "none"]]
-----------------------------------------------------------------------------
Kind(r) == call[r].kind

Tenant(r) == call[r].tenant

InFlight(i) == {r \in Requests : inst[r] = i /\ pc[r] \in Running}

\* isolation_probe asks for the canary of the other demo tenant, top_k = 3.
ProbeCanary(t) == IF t = Northstar THEN "condor" ELSE "orchid"

Question(r) == IF Kind(r) = "query" THEN call[r].question ELSE Finds[ProbeCanary(Tenant(r))]

TopK(r) == IF Kind(r) = "query" THEN call[r].topk ELSE 3

\* Mutant: the probe's top_k is no request, the contract's cap does not apply to it.
RequestedByClient(r) == IF Kind(r) = "query" THEN TopK(r) ELSE 0

\* top_k as authorize sees it; ingest and attest pass none, which caps nothing.
Requested(r) == IF pc[r] = "attest" \/ Kind(r) = "ingest" THEN 0 ELSE TopK(r)

\* leaked: any(other_tenant_canary in source["excerpt"] ...)
Leaked(r) == \E d \in found[r].hits : d.content \in Carries[ProbeCanary(Tenant(r))]

Goto(r, from, to) ==
  /\ pc[r] = from
  /\ pc' = [pc EXCEPT ![r] = to]

\* The handler ends, by a return or by an exception the endpoint maps.
Respond(r, from, status, cause) ==
  /\ Goto(r, from, "done")
  /\ reply' = [reply EXCEPT ![r] = [status |-> status, cause |-> cause]]
  /\ UNCHANGED <<call, inst, found, link, draft>>

NothingStored == UNCHANGED <<storeVars, controlVars>>
-----------------------------------------------------------------------------
Receive(r) ==
  /\ Goto(r, "idle", IF Kind(r) = "attest" THEN "attest" ELSE "authorize")
  /\ Cardinality(InFlight(inst[r])) < Concurrency
  /\ NothingStored
  /\ UNCHANGED <<call, inst, found, link, draft, reply>>

\* attest authorizes once itself and once more in the query of its probe.
Authorizing(r) == pc[r] \in {"attest", "authorize"}

Authorize(r) ==
  /\ Authorizing(r)
  /\ HasContract(Tenant(r))
  /\ ~Quarantined(inst[r], Tenant(r))
  /\ Satisfies(Tenant(r), call[r].scopes, Requested(r))
  /\ Goto(r, pc[r], CASE pc[r] = "attest" -> "authorize"
                      [] pc[r] = "authorize" /\ Kind(r) = "ingest" -> "insert"
                      [] OTHER -> "search")
  /\ NothingStored
  /\ UNCHANGED <<call, inst, found, link, draft, reply>>

\* ContractError is no PermissionError: no endpoint catches it.
RefuseUncontracted(r) ==
  /\ Authorizing(r)
  /\ ~HasContract(Tenant(r))
  /\ Respond(r, pc[r], 500, "contract")
  /\ NothingStored

\* TenantQuarantinedError is a PermissionError; only two endpoints tell it apart.
RefuseQuarantined(r) ==
  /\ Authorizing(r)
  /\ HasContract(Tenant(r))
  /\ Quarantined(inst[r], Tenant(r))
  /\ Respond(r, pc[r], IF Kind(r) \in {"query", "attest"} THEN 423 ELSE 403, "quarantine")
  /\ NothingStored

RefuseForbidden(r) ==
  /\ Authorizing(r)
  /\ HasContract(Tenant(r))
  /\ ~Quarantined(inst[r], Tenant(r))
  /\ ~Satisfies(Tenant(r), call[r].scopes, Requested(r))
  /\ Respond(r, pc[r], 403, "scope")
  /\ NothingStored
-----------------------------------------------------------------------------
RefuseWrite(r) ==
  /\ Respond(r, "insert", 403, "scope")
  /\ "rag:write" \notin call[r].scopes
  /\ NothingStored

\* Mutant: ingest returns without its audit event.
StoreUnlogged(r) ==
  /\ Goto(r, "insert", "reply")
  /\ "rag:write" \in call[r].scopes
  /\ InsertDocument(inst[r], Tenant(r), call[r].content)
  /\ UNCHANGED <<controlVars, call, inst, found, link, draft, reply>>

StoreDocument(r) ==
  /\ Goto(r, "insert", "head")
  /\ "rag:write" \in call[r].scopes
  /\ InsertDocument(inst[r], Tenant(r), call[r].content)
  /\ UNCHANGED <<controlVars, call, inst, found, link, draft, reply>>

\* UniqueViolation leaves the endpoint as an unhandled error.
RejectDuplicate(r) ==
  /\ Respond(r, "insert", 500, "duplicate")
  /\ "rag:write" \in call[r].scopes
  /\ Duplicate(Tenant(r), call[r].content)
  /\ ReadOnly
  /\ UNCHANGED controlVars

\* Authorize has seen rag:read: every contract requires it.
Search(r) ==
  /\ Goto(r, "search", "head")
  /\ \E rows \in Ranked(Tenant(r), Question(r), TopK(r)) :
       /\ Decrypts(inst[r], Tenant(r), rows)
       /\ found' = [found EXCEPT ![r] = [hits |-> rows, corpus |-> CountDocuments(Tenant(r)),
                                         count |-> 0]]
  /\ ReadOnly
  /\ UNCHANGED <<controlVars, call, inst, link, draft, reply>>

\* InvalidTag: one row under another key fails the whole search.
SearchUndecryptable(r) ==
  /\ Respond(r, "search", 500, "undecryptable")
  /\ \E rows \in Ranked(Tenant(r), Question(r), TopK(r)) : ~Decrypts(inst[r], Tenant(r), rows)
  /\ ReadOnly
  /\ UNCHANGED controlVars
-----------------------------------------------------------------------------
\* append_audit: the head in one transaction ...
ReadHead(r) ==
  /\ Goto(r, "head", "stamp")
  /\ \E h \in Heads(Tenant(r)) : link' = [link EXCEPT ![r].prev = h]
  /\ ReadOnly
  /\ UNCHANGED <<controlVars, call, inst, found, draft, reply>>

Stamp(r) ==
  /\ Goto(r, "stamp", "append")
  /\ link' = [link EXCEPT ![r].at = Clock(inst[r])]
  /\ NothingStored
  /\ UNCHANGED <<call, inst, found, draft, reply>>

\* Mutant: the event counts the results asked for, not those returned.
EventOfRequest(r) ==
  [hash |-> r, tenant |-> Tenant(r),
   action |-> IF Kind(r) = "ingest" THEN "document.ingested" ELSE "retrieval.completed",
   count |-> IF Kind(r) = "ingest" THEN 1 ELSE TopK(r),
   prev |-> link[r].prev, at |-> link[r].at]

\* Mutant: the event is built without the head that was read.
EventUnlinked(r) ==
  [hash |-> r, tenant |-> Tenant(r),
   action |-> IF Kind(r) = "ingest" THEN "document.ingested" ELSE "retrieval.completed",
   count |-> IF Kind(r) = "ingest" THEN 1 ELSE Cardinality(found[r].hits),
   prev |-> Genesis, at |-> link[r].at]

\* ... the event in another.
Event(r) ==
  [hash |-> r, tenant |-> Tenant(r),
   action |-> IF Kind(r) = "ingest" THEN "document.ingested" ELSE "retrieval.completed",
   count |-> IF Kind(r) = "ingest" THEN 1 ELSE Cardinality(found[r].hits),
   prev |-> link[r].prev, at |-> link[r].at]

AppendEvent(r) ==
  /\ Goto(r, "append", IF Kind(r) = "ingest" THEN "reply" ELSE "count")
  /\ InsertEvent(Event(r))
  /\ UNCHANGED <<controlVars, call, inst, found, link, draft, reply>>

Created(r) ==
  /\ Respond(r, "reply", 201, "none")
  /\ NothingStored

\* search_space_count, in a transaction of its own; then the receipt is signed.
CountAnd(r, to, status) ==
  /\ Goto(r, "count", to)
  /\ found' = [found EXCEPT ![r].count = CountDocuments(Tenant(r))]
  /\ reply' = [reply EXCEPT ![r].status = status]
  /\ ReadOnly
  /\ UNCHANGED <<controlVars, call, inst, link, draft>>

Answer(r) == Kind(r) # "attest" /\ CountAnd(r, "done", 200)

FinishProbe(r) == Kind(r) = "attest" /\ CountAnd(r, "judge", 0)
-----------------------------------------------------------------------------
\* Mutant: only the SLO decides.
JudgeTimeOnly(r) ==
  /\ Goto(r, "judge", "record")
  /\ \E late \in BOOLEAN :
       LET verdict == IF late THEN "failed" ELSE "passed"
       IN  /\ Conclude(inst[r], Tenant(r), verdict)
           /\ draft' = [draft EXCEPT ![r].status = verdict]
  /\ UNCHANGED <<storeVars, call, inst, found, link, reply>>

\* record_attestation.  Whether the probe met the SLO is up to the clock.
Judge(r) ==
  /\ Goto(r, "judge", "record")
  /\ \E late \in BOOLEAN :
       LET verdict == IF Leaked(r) \/ late THEN "failed" ELSE "passed"
       IN  /\ Conclude(inst[r], Tenant(r), verdict)
           /\ draft' = [draft EXCEPT ![r].status = verdict]
  /\ UNCHANGED <<storeVars, call, inst, found, link, reply>>

\* The record reads the state back before it is signed.
SignRecord(r) ==
  /\ Goto(r, "record", "file")
  /\ draft' = [draft EXCEPT ![r].quarantined = Quarantined(inst[r], Tenant(r))]
  /\ NothingStored
  /\ UNCHANGED <<call, inst, found, link, reply>>

FileRecord(r) ==
  /\ Respond(r, "file", 200, "none")
  /\ File(inst[r], Tenant(r), [probe |-> r, status |-> draft[r].status,
                               quarantined |-> draft[r].quarantined])
  /\ UNCHANGED storeVars
-----------------------------------------------------------------------------
\* A transaction fails before it commits, or it commits and the handler does
\* not hear of it (then the handler is already at the next stage).
Raise(r) ==
  /\ pc[r] \in {"insert", "search", "head", "append", "count", "reply"}
  /\ pc[r] = "insert" => "rag:write" \in call[r].scopes
  /\ Respond(r, pc[r], 500, "database")
  /\ NothingStored

\* A process stops: its handlers end without a reply, its control plane is lost.
Restart(i) ==
  /\ i \in CrashProne
  /\ pc' = [r \in Requests |-> IF r \in InFlight(i) THEN "lost" ELSE pc[r]]
  /\ Reload(i)
  /\ UNCHANGED <<storeVars, call, inst, found, link, draft, reply>>

\* Every request is over: the run may stop here.
Finished ==
  /\ \A r \in Requests : pc[r] \in {"done", "lost"}
  /\ UNCHANGED vars

\* What a handler does on its own, given a processor.
Proceed(r) ==
  \/ Authorize(r) \/ RefuseUncontracted(r) \/ RefuseQuarantined(r) \/ RefuseForbidden(r)
  \/ RefuseWrite(r) \/ StoreDocument(r) \/ RejectDuplicate(r)
  \/ Search(r) \/ SearchUndecryptable(r)
  \/ ReadHead(r) \/ Stamp(r) \/ AppendEvent(r) \/ Created(r)
  \/ Answer(r) \/ FinishProbe(r)
  \/ Judge(r) \/ SignRecord(r) \/ FileRecord(r)

Next ==
  \/ \E r \in Requests : Receive(r) \/ Proceed(r) \/ Raise(r)
  \/ \E i \in Instances : Restart(i)
  \/ Finished

Spec == Init /\ [][Next]_vars

\* A started handler runs on; no request has to arrive, no fault has to happen.
FairSpec == Spec /\ \A r \in Requests : WF_vars(Proceed(r))
-----------------------------------------------------------------------------
HandlerTypeOK ==
  /\ call \in [Requests -> Calls]
  /\ inst \in [Requests -> Instances]
  /\ pc \in [Requests -> Stages]
  /\ found \in [Requests -> Found]
  /\ link \in [Requests -> Link]
  /\ draft \in [Requests -> Draft]
  /\ reply \in [Requests -> Reply]

\* Every variable stays in its type: rows under a known tenant's key, hashes
\* that exist, states and verdicts the code knows.
TypeOK == StoreTypeOK /\ ControlTypeOK /\ HandlerTypeOK

Logged(r, action) ==
  \E k \in DOMAIN events : events[k].hash = r /\ events[k].action = action

\* Positions of t's events that name p as their predecessor.
Successors(t, p) == {k \in DOMAIN events : events[k].tenant = t /\ events[k].prev = p}

\* The chain of a tenant never forks: append_audit gives no two events the same
\* previous_hash.  True of one handler at a time, not of the deployed service.
SingleChain == \A t \in Tenants, p \in Hashes : Cardinality(Successors(t, p)) <= 1

\* With equal clocks a head is forked at most as often as handlers can run at
\* once: whoever reads the head after one successor is stored reads that one.
ForkWidth ==
  \A t \in Tenants, p \in Hashes :
    Cardinality(Successors(t, p)) <= Concurrency * Cardinality(Instances)

\* Every event, forked or not, continues the all-zero hash or an event stored
\* before it for the same tenant, so from each event the links lead to the start.
ChainWellFounded ==
  \A k \in DOMAIN events :
    \/ events[k].prev = Genesis
    \/ \E j \in 1..(k - 1) : /\ events[j].hash = events[k].prev
                            /\ events[j].tenant = events[k].tenant

\* One handler at a time, append_audit keeps the promise of HashChain.
Ledger == INSTANCE HashChain WITH chain <-
  [k \in DOMAIN events |-> [hash |-> events[k].hash, tenant |-> events[k].tenant,
                            prev |-> events[k].prev]]

RefinesChain == Ledger!Spec

\* The tables under their policies keep the contract of TenantFence: what a tenant
\* stored stays its own, and no search returns anything else.
Fence == INSTANCE TenantFence WITH
  owner <- [r \in Requests |-> Tenant(r)],
  partition <- [t \in Tenants |-> {d.content : d \in Visible(t)}],
  seen <- [r \in Requests |-> {d.content : d \in found[r].hits}]

RefinesFence == Fence!Spec
-----------------------------------------------------------------------------
Retrieval(r) == Kind(r) # "ingest"

\* A retrieval is answered only after its audit event is stored, and the event,
\* the receipt and the database agree: the event counts the hits, the hits are the
\* caller's own documents within the contract's cap, and the receipt's
\* search_space_count, read in a later transaction, overstates at most: it never
\* falls below the number of chunks the search really ranged over.
ReceiptIsBacked ==
  \A r \in Requests : Retrieval(r) /\ reply[r].status = 200 =>
    /\ \E k \in DOMAIN events :
         /\ events[k].hash = r
         /\ events[k].tenant = Tenant(r)
         /\ events[k].action = "retrieval.completed"
         /\ events[k].count = Cardinality(found[r].hits)
    /\ \A d \in found[r].hits : d \in documents /\ d.tenant = Tenant(r)
    /\ Cardinality(found[r].hits) <= found[r].corpus
    /\ found[r].corpus <= found[r].count
    /\ Cardinality(found[r].hits) <= Contracts[Tenant(r)].maxResults

Ingested(r, d) == Kind(r) = "ingest" /\ Tenant(r) = d.tenant /\ call[r].content = d.content

\* Documents and ingest events match, but for the one gap between their two
\* transactions: a stored document without its event is the work of an ingest
\* under way, of one that lost the database, or of one whose process stopped.
IngestLedgerAgrees ==
  /\ \A d \in documents : \E r \in Requests :
       /\ Ingested(r, d)
       /\ \/ Logged(r, "document.ingested")
          \/ pc[r] \in {"head", "stamp", "append", "lost"}
          \/ reply[r].cause = "database"
  /\ \A k \in DOMAIN events : events[k].action = "document.ingested" =>
       \E d \in documents : Ingested(events[k].hash, d)

\* Two ingests of a tenant that were both answered 201 stored different texts,
\* however they interleave and on whichever processes they ran.
DistinctIngests ==
  \A r, s \in Requests :
    /\ r # s
    /\ reply[r].status = 201 /\ reply[s].status = 201
    /\ Tenant(r) = Tenant(s)
    => call[r].content # call[s].content

\* A retrieval fails to decrypt only because a document of the same tenant was
\* sealed under another root secret; another tenant's rows never reach a cipher.
UndecryptableOnlyAfterRotation ==
  \A r \in Requests : reply[r].cause = "undecryptable" =>
    \E d \in documents : d.tenant = Tenant(r) /\ d.key.root # KeyRoot[inst[r]]
-----------------------------------------------------------------------------
Filed(i, t) == {attestations[i][t][k] : k \in DOMAIN attestations[i][t]}

\* A failed attestation that has changed the state and is yet to be filed.
Failing(i, t) ==
  \E r \in Requests : /\ inst[r] = i /\ Tenant(r) = t
                      /\ pc[r] \in {"record", "file"} /\ draft[r].status = "failed"

\* A workspace is quarantined on a process exactly if an attestation failed
\* there; later passes do not lift it, and every failed record that was signed
\* says that the workspace is quarantined, whatever other attestations ran beside it.
QuarantineIffFailed ==
  \A i \in Instances, t \in Contracted :
    /\ Quarantined(i, t) <=> (Failing(i, t) \/ \E a \in Filed(i, t) : a.status = "failed")
    /\ \A a \in Filed(i, t) : a.status = "failed" => a.quarantined

\* A passed record rests on a probe that ran to its end: the probe's own audit
\* event is stored for that tenant and no document it returned carried a canary.
\* No probe is filed twice.
AttestationBackedByProbe ==
  \A i \in Instances, t \in Contracted :
    /\ \A a \in Filed(i, t) : a.status = "passed" =>
         /\ ~Leaked(a.probe)
         /\ \E k \in DOMAIN events : /\ events[k].hash = a.probe
                                     /\ events[k].tenant = t
                                     /\ events[k].action = "retrieval.completed"
    /\ \A j, k \in DOMAIN attestations[i][t] :
         attestations[i][t][j].probe = attestations[i][t][k].probe => j = k

\* The probe asks for 3 results: a tenant whose contract caps them below that has no
\* attestation at all, passed or failed, and can never pass the release gate.
CappedNeverAttested ==
  \A i \in Instances, t \in Contracted :
    Contracts[t].maxResults < 3 => attestations[i][t] = <<>>

\* What an attestation has seen takes effect: once its search returned a canary the
\* workspace gets quarantined, unless the handler fails or its process stops first.
LeakLeadsToQuarantine ==
  \A r \in Requests :
    (Kind(r) = "attest" /\ pc[r] = "head" /\ Leaked(r))
      ~> \/ Quarantined(inst[r], Tenant(r))
         \/ pc[r] = "lost"
         \/ reply[r].status = 500
=============================================================================
