---------------------------- MODULE EngineProofs ----------------------------
(***************************************************************************)
(* Further theorems about TenantVault, again for every deployment and      *)
(* workload: the fence between tenants, the correspondence of documents    *)
(* and ingest events, what an attestation record rests on, and the release *)
(* gate, a client that rests on such records.                              *)
(***************************************************************************)
EXTENDS TenantVaultProofs, ReleaseGate

USE DEF storeVars, controlVars, handlerVars

(***************************************************************************)
(* The fence.  A step is an Ingest of TenantFence if it is StoreDocument,  *)
(* a Search of it if it is Search, and a stutter otherwise.                *)
(***************************************************************************)
Owners == [r \in Requests |-> Tenant(r)]

Partitions == [t \in Tenants |-> {d.content : d \in Visible(t)}]

Seen == [r \in Requests |-> {d.content : d \in found[r].hits}]

\* Every step but the two leaves what the fence speaks of alone.
LEMMA FenceStutters ==
  ASSUME TypeInv, NEW r \in Requests, Receive(r) \/ Proceed(r) \/ Raise(r),
         ~StoreDocument(r), ~Search(r)
  PROVE  /\ UNCHANGED <<call, documents>>
         /\ \A s \in Requests : found'[s].hits = found[s].hits
<1>1. UNCHANGED <<call, documents>>
  BY DEF Proceed, Receive, Authorize, RefuseUncontracted, RefuseQuarantined, RefuseForbidden,
         RefuseWrite, RejectDuplicate, SearchUndecryptable, ReadHead, Stamp, AppendEvent, Created,
         Answer, FinishProbe, Judge, SignRecord, FileRecord, Raise, Respond, CountAnd,
         NothingStored, ReadOnly, InsertEvent
<1>2. found' = found \/ found' = [found EXCEPT ![r].count = CountDocuments(Tenant(r))]
  BY DEF Proceed, Receive, Authorize, RefuseUncontracted, RefuseQuarantined, RefuseForbidden,
         RefuseWrite, RejectDuplicate, SearchUndecryptable, ReadHead, Stamp, AppendEvent, Created,
         Answer, FinishProbe, Judge, SignRecord, FileRecord, Raise, Respond, CountAnd
<1> QED
  BY <1>1, <1>2 DEF TypeInv, TypeOK, HandlerTypeOK, Found

LEMMA FenceKept ==
  ASSUME UNCHANGED <<call, documents>>, \A s \in Requests : found'[s].hits = found[s].hits
  PROVE  UNCHANGED <<Owners, Partitions, Seen>>
BY DEF Owners, Partitions, Seen, Tenant, Visible

LEMMA FenceIngests ==
  ASSUME TypeInv, NEW r \in Requests, StoreDocument(r)
  PROVE  \E c \in Contents : Fence!Ingest(r, c)
<1>0. PICK c \in Contents : c = call[r].content
  BY CallTypes DEF Call
<1> DEFINE t == Tenant(r)
           row == [tenant |-> t, content |-> c, key |-> Key(inst[r], t)]
<1>1. documents' = documents \cup {row} /\ UNCHANGED <<call, found>>
  BY <1>0 DEF StoreDocument, InsertDocument
<1>2. t \in Tenants
  BY CallTypes
<1>3. Partitions' = [Partitions EXCEPT ![t] = @ \cup {c}]
  <2>1. row.tenant = t /\ row.content = c
    OBVIOUS
  <2> HIDE DEF t, row
  <2>2. ASSUME NEW u \in Tenants
        PROVE  {d.content : d \in Visible(u)'} =
                 {d.content : d \in Visible(u)} \cup IF u = t THEN {c} ELSE {}
    <3>1. Visible(u)' = Visible(u) \cup IF u = t THEN {row} ELSE {}
      BY <1>1, <2>1 DEF Visible
    <3> QED
      BY <2>1, <3>1
  <2> QED
    BY <1>2, <2>2 DEF Partitions
<1>4. Owners[r] = t
  BY DEF Owners
<1>5. UNCHANGED <<Owners, Seen>>
  BY <1>1 DEF Owners, Seen, Tenant
<1>6. Fence!Ingest(r, c)
  BY <1>3, <1>4, <1>5 DEF Fence!Ingest, Owners, Partitions, Seen
<1> QED
  BY <1>6

LEMMA FenceSearches ==
  ASSUME TypeInv, NEW r \in Requests, Search(r)
  PROVE  \E hits \in SUBSET Contents : Fence!Search(r, hits)
<1>1. PICK rows \in Ranked(Tenant(r), Question(r), TopK(r)) :
        found' = [found EXCEPT ![r] = [hits |-> rows, corpus |-> CountDocuments(Tenant(r)),
                                       count |-> 0]]
  BY DEF Search
<1> DEFINE hits == {d.content : d \in rows}
<1>2. UNCHANGED <<call, documents>>
  BY DEF Search, ReadOnly
<1>3. rows \in SUBSET DocumentRow /\ rows \subseteq Visible(Tenant(r))
  BY RankedRows
<1>4. hits \in SUBSET Contents
  BY <1>3 DEF DocumentRow
<1>5. Tenant(r) \in Tenants
  BY CallTypes
<1>6. hits \subseteq Partitions[Owners[r]]
  BY <1>3, <1>5 DEF Partitions, Owners
<1>7. Seen' = [Seen EXCEPT ![r] = hits]
  BY <1>1 DEF Seen, TypeInv, TypeOK, HandlerTypeOK
<1>8. UNCHANGED <<Owners, Partitions>>
  BY <1>2 DEF Owners, Partitions, Tenant, Visible
<1>9. Fence!Search(r, hits)
  BY <1>6, <1>7, <1>8 DEF Fence!Search, Owners, Partitions, Seen
<1> QED
  BY <1>4, <1>9

LEMMA FenceInit == Init => Fence!Init
<1> SUFFICES ASSUME Init PROVE Fence!Init
  OBVIOUS
<1>1. \A r \in Requests : Tenant(r) \in Tenants
  BY TypeInit, CallTypes
<1>2. Owners \in [Requests -> Tenants]
  BY <1>1 DEF Owners
<1>3. Partitions = [t \in Tenants |-> {}] /\ Seen = [r \in Requests |-> {}]
  BY DEF Init, StoreInit, Partitions, Seen, Visible
<1> QED
  BY <1>2, <1>3 DEF Fence!Init, Owners, Partitions, Seen

LEMMA FenceStep == TypeInv /\ [Next]_vars => [Fence!Next]_(Fence!vars)
<1> SUFFICES ASSUME TypeInv, [Next]_vars PROVE [Fence!Next]_(Fence!vars)
  OBVIOUS
<1>0. UNCHANGED <<Owners, Partitions, Seen>> => UNCHANGED Fence!vars
  BY DEF Fence!vars, Owners, Partitions, Seen
<1>1. CASE UNCHANGED vars
  BY <1>0, <1>1, FenceKept DEF vars
<1>2. ASSUME NEW r \in Requests, Receive(r) \/ Proceed(r) \/ Raise(r)
      PROVE  Fence!Next \/ UNCHANGED Fence!vars
  <2>1. CASE StoreDocument(r)
    BY <2>1, FenceIngests DEF Fence!Next
  <2>2. CASE Search(r)
    BY <2>2, FenceSearches DEF Fence!Next
  <2>3. CASE ~StoreDocument(r) /\ ~Search(r)
    BY <1>0, <1>2, <2>3, FenceStutters, FenceKept
  <2> QED
    BY <2>1, <2>2, <2>3
<1>3. ASSUME NEW i \in Instances, Restart(i) PROVE UNCHANGED Fence!vars
  BY <1>0, <1>3, FenceKept DEF Restart
<1> QED
  BY <1>1, <1>2, <1>3 DEF Next, Finished

\* What a tenant stored stays in its partition and no search of another tenant is
\* ever given it, whatever interleaves, fails or restarts.
THEOREM TenantsStayApart == Spec => RefinesFence
BY FenceInit, FenceStep, TypeInit, TypeStep, PTL DEF Spec, RefinesFence, Fence!Spec

-----------------------------------------------------------------------------
(***************************************************************************)
(* Ingests.  Between its INSERT and its 201 a handler holds a row: the row *)
(* is its own, because the UNIQUE constraint turned every other text of    *)
(* the same content away, and it stays, because rows are never deleted.    *)
(***************************************************************************)
Storing == {"head", "stamp", "append"}

\* Which stages a kind of call passes through, and that who runs has no reply yet.
PathOK ==
  \A r \in Requests :
    /\ pc[r] \in {"insert", "reply"} => Kind(r) = "ingest"
    /\ pc[r] \in {"search", "count"} \cup Counted => Kind(r) # "ingest"
    /\ pc[r] # "done" => reply[r].status # 201 /\ reply[r].cause # "database"

Holds(r) ==
  /\ Kind(r) = "ingest"
  /\ pc[r] \in Storing \cup {"reply"} \/ reply[r].status = 201

HeldOK ==
  /\ \A r \in Requests : Holds(r) => \E d \in documents : Ingested(r, d)
  /\ \A r, s \in Requests :
       r # s /\ Holds(r) /\ Holds(s) /\ Tenant(r) = Tenant(s) => call[r].content # call[s].content
  /\ \A r \in Requests : reply[r].status = 201 => Kind(r) = "ingest"

IngestInv == PathOK /\ HeldOK /\ IngestLedgerAgrees

\* The next stage of a handler and its reply, kind by kind.
LEMMA PathStep ==
  ASSUME TypeInv, PathOK, NEW r \in Requests, Receive(r) \/ Proceed(r) \/ Raise(r)
  PROVE  /\ PathOK'
         /\ reply[r].status # 201 /\ reply[r].cause # "database"
         /\ reply'[r].status = 201 => Kind(r) = "ingest" /\ pc[r] = "reply"
<1>1. UNCHANGED call
  BY CallFixed
<1>2. /\ pc[r] # "done" /\ reply[r].status # 201 /\ reply[r].cause # "database"
      /\ \A s \in Requests : s # r => pc'[s] = pc[s] /\ reply'[s] = reply[s]
  <2>1. pc[r] # "done"
    BY DEF Proceed, Receive, Authorize, Authorizing, RefuseUncontracted, RefuseQuarantined,
           RefuseForbidden, RefuseWrite, StoreDocument, RejectDuplicate, Search,
           SearchUndecryptable, ReadHead, Stamp, AppendEvent, Created, Answer, FinishProbe, Judge,
           SignRecord, FileRecord, Raise, Respond, CountAnd, Goto
  <2> QED
    BY <2>1, OthersWait DEF PathOK
<1>3. /\ pc'[r] \in {"insert", "reply"} => Kind(r) = "ingest"
      /\ pc'[r] \in {"search", "count"} \cup Counted => Kind(r) # "ingest"
      /\ pc'[r] # "done" => reply'[r].status # 201 /\ reply'[r].cause # "database"
      /\ reply'[r].status = 201 => pc[r] = "reply"
  <2>0. pc \in [Requests -> Stages] /\ reply \in [Requests -> Reply]
    BY DEF TypeInv, TypeOK, HandlerTypeOK
  <2>1. CASE Receive(r) \/ Authorize(r)
    BY <1>2, <2>0, <2>1 DEF Receive, Authorize, Authorizing, Goto, Counted
  <2>2. CASE RefuseUncontracted(r) \/ RefuseQuarantined(r) \/ RefuseForbidden(r) \/ RefuseWrite(r)
    BY <2>0, <2>2 DEF RefuseUncontracted, RefuseQuarantined, RefuseForbidden, RefuseWrite, Respond,
                      Goto, Counted
  <2>3. CASE RejectDuplicate(r) \/ SearchUndecryptable(r) \/ Raise(r) \/ Created(r) \/ FileRecord(r)
    BY <2>0, <2>3 DEF RejectDuplicate, SearchUndecryptable, Raise, Created, FileRecord, Respond,
                      Goto, Counted
  <2>4. CASE StoreDocument(r) \/ Search(r) \/ ReadHead(r) \/ Stamp(r)
    BY <1>2, <2>0, <2>4 DEF StoreDocument, Search, ReadHead, Stamp, Goto, Counted
  <2>5. CASE AppendEvent(r)
    BY <1>2, <2>0, <2>5 DEF AppendEvent, Goto, Counted
  <2>6. CASE Answer(r) \/ FinishProbe(r)
    BY <1>2, <2>0, <2>6 DEF Answer, FinishProbe, CountAnd, Goto, Counted, Reply, PathOK
  <2>7. CASE Judge(r) \/ SignRecord(r)
    BY <1>2, <2>0, <2>7 DEF Judge, SignRecord, Goto, Counted, PathOK
  <2> QED
    BY <2>1, <2>2, <2>3, <2>4, <2>5, <2>6, <2>7 DEF Proceed
<1>4. \A s \in Requests : Kind(s)' = Kind(s)
  BY <1>1 DEF Kind
<1> QED
  BY <1>2, <1>3, <1>4 DEF PathOK

\* A handler holds a row afterwards only if it held one, or has just stored it.
LEMMA HoldsStep ==
  ASSUME TypeInv, PathOK, NEW r \in Requests, Receive(r) \/ Proceed(r) \/ Raise(r)
  PROVE  \A s \in Requests : Holds(s)' => Holds(s) \/ (s = r /\ StoreDocument(r))
<1>1. UNCHANGED call
  BY CallFixed
<1>2. ASSUME NEW s \in Requests, s # r PROVE Holds(s)' = Holds(s)
  BY <1>1, <1>2, OthersWait DEF Holds, Kind
<1>3. ASSUME Holds(r)', ~StoreDocument(r) PROVE Holds(r)
  <2>0. pc \in [Requests -> Stages] /\ Kind(r) = "ingest"
    BY <1>1, <1>3 DEF TypeInv, TypeOK, HandlerTypeOK, Holds, Kind
  <2>1. CASE reply'[r].status = 201
    BY <2>0, <2>1, PathStep DEF Holds
  <2>2. CASE pc'[r] \in Storing \cup {"reply"}
    <3>1. pc[r] \in Storing \cup {"search"}
      BY <1>3, <2>0, <2>2 DEF Proceed, Receive, Authorize, RefuseUncontracted, RefuseQuarantined,
           RefuseForbidden, RefuseWrite, RejectDuplicate, Search, SearchUndecryptable, ReadHead,
           Stamp, AppendEvent, Created, Answer, FinishProbe, Judge, SignRecord, FileRecord, Raise,
           Respond, CountAnd, Goto, Storing
    <3> QED
      BY <2>0, <3>1 DEF PathOK, Holds
  <2> QED
    BY <1>3, <2>1, <2>2 DEF Holds
<1> QED
  BY <1>2, <1>3

LEMMA HeldStep ==
  ASSUME TypeInv, PathOK, HeldOK, NEW r \in Requests, Receive(r) \/ Proceed(r) \/ Raise(r)
  PROVE  HeldOK'
<1>1. UNCHANGED call /\ Growth
  BY CallFixed, TablesGrow
<1>2. \A s \in Requests : /\ Kind(s)' = Kind(s) /\ Tenant(s)' = Tenant(s)
                          /\ \A d : Ingested(s, d)' = Ingested(s, d)
  BY <1>1 DEF Kind, Tenant, Ingested
<1>3. ASSUME NEW s \in Requests, Holds(s)' PROVE \E d \in documents' : Ingested(s, d)
  <2>1. CASE Holds(s)
    BY <1>1, <2>1 DEF HeldOK, Growth
  <2>2. CASE s = r /\ StoreDocument(r)
    <3> DEFINE row == [tenant |-> Tenant(r), content |-> call[r].content, key |-> Key(inst[r], Tenant(r))]
    <3>1. row \in documents' /\ pc[r] = "insert"
      BY <2>2 DEF StoreDocument, InsertDocument, Goto
    <3>2. Ingested(r, row)
      BY <3>1 DEF Ingested, PathOK
    <3> QED
      BY <2>2, <3>1, <3>2
  <2> QED
    BY <1>3, <2>1, <2>2, HoldsStep
<1>4. ASSUME StoreDocument(r), NEW s \in Requests, s # r, Holds(s), Tenant(r) = Tenant(s)
      PROVE  call[r].content # call[s].content
  <2>1. PICK d \in documents : Ingested(s, d)
    BY <1>4 DEF HeldOK
  <2>2. ~Duplicate(Tenant(r), call[r].content)
    BY <1>4 DEF StoreDocument, InsertDocument
  <2> QED
    BY <1>4, <2>1, <2>2 DEF Ingested, Duplicate
<1>5. ASSUME NEW s \in Requests, NEW u \in Requests, s # u, Holds(s)', Holds(u)', Tenant(s) = Tenant(u)
      PROVE  call[s].content # call[u].content
  <2>1. Holds(s) \/ (s = r /\ StoreDocument(r))
    BY <1>5, HoldsStep
  <2>2. Holds(u) \/ (u = r /\ StoreDocument(r))
    BY <1>5, HoldsStep
  <2>3. CASE Holds(s) /\ Holds(u)
    BY <1>5, <2>3 DEF HeldOK
  <2> QED
    BY <1>4, <1>5, <2>1, <2>2, <2>3
<1>6. \A s \in Requests : reply'[s].status = 201 => Kind(s) = "ingest"
  BY PathStep, OthersWait DEF HeldOK
<1> QED
  BY <1>1, <1>2, <1>3, <1>5, <1>6 DEF HeldOK

\* What the ledger, or the fate of the handler, says of an ingest's document.
Accounted(r) ==
  \/ Logged(r, "document.ingested")
  \/ pc[r] \in Storing \cup {"lost"}
  \/ reply[r].cause = "database"

LEMMA LoggedStays == ASSUME Growth, NEW r, NEW a, Logged(r, a) PROVE Logged(r, a)'
BY DEF Growth, Logged

LEMMA IngestLogged ==
  ASSUME TypeInv, NEW r \in Requests, AppendEvent(r), Kind(r) = "ingest"
  PROVE  Logged(r, "document.ingested")'
<1>1. events' = Append(events, Event(r)) /\ events \in Seq(EventRow)
  BY DEF AppendEvent, InsertEvent, TypeInv, TypeOK, StoreTypeOK
<1>2. Len(events) + 1 \in DOMAIN events' /\ events'[Len(events) + 1] = Event(r)
  BY <1>1
<1>3. Event(r).hash = r /\ Event(r).action = "document.ingested"
  BY DEF Event
<1> QED
  BY <1>2, <1>3 DEF Logged

LEMMA AccountedStays ==
  ASSUME TypeInv, PathOK, NEW r \in Requests, Receive(r) \/ Proceed(r) \/ Raise(r),
         NEW s \in Requests, Kind(s) = "ingest", Accounted(s)
  PROVE  Accounted(s)'
<1>1. CASE Logged(s, "document.ingested")
  BY <1>1, TablesGrow, LoggedStays DEF Accounted
<1>2. CASE s # r /\ ~Logged(s, "document.ingested")
  BY <1>2, OthersWait DEF Accounted
<1>3. CASE s = r /\ ~Logged(s, "document.ingested")
  <2>0. pc \in [Requests -> Stages] /\ reply \in [Requests -> Reply]
    BY DEF TypeInv, TypeOK, HandlerTypeOK
  <2>1. pc[r] \in Storing \cup {"lost"}
    BY <1>3, PathStep DEF Accounted
  <2>2. \/ ReadHead(r) \/ Stamp(r) \/ AppendEvent(r) \/ Raise(r)
    BY <2>1 DEF Proceed, Receive, Authorize, Authorizing, RefuseUncontracted, RefuseQuarantined,
         RefuseForbidden, RefuseWrite, StoreDocument, RejectDuplicate, Search, SearchUndecryptable,
         Created, Answer, FinishProbe, Judge, SignRecord, FileRecord, Respond, CountAnd, Goto,
         Storing
  <2>3. CASE ReadHead(r) \/ Stamp(r)
    BY <1>3, <2>0, <2>3 DEF ReadHead, Stamp, Goto, Accounted, Storing
  <2>4. CASE AppendEvent(r)
    BY <1>3, <2>4, IngestLogged DEF Accounted
  <2>5. CASE Raise(r)
    BY <1>3, <2>0, <2>5 DEF Raise, Respond, Accounted
  <2> QED
    BY <2>2, <2>3, <2>4, <2>5
<1> QED
  BY <1>1, <1>2, <1>3

LEMMA LedgerStep ==
  ASSUME TypeInv, IngestInv, NEW r \in Requests, Receive(r) \/ Proceed(r) \/ Raise(r)
  PROVE  IngestLedgerAgrees'
<1>1. UNCHANGED call /\ Growth
  BY CallFixed, TablesGrow
<1>2. \A s \in Requests : \A d : Ingested(s, d)' = Ingested(s, d)
  BY <1>1 DEF Kind, Tenant, Ingested
<1>3. ASSUME NEW d \in documents' PROVE \E s \in Requests : Ingested(s, d) /\ Accounted(s)'
  <2>1. CASE d \in documents
    <3>1. PICK s \in Requests : Ingested(s, d) /\ Accounted(s)
      BY <2>1 DEF IngestInv, IngestLedgerAgrees, Accounted, Storing
    <3>2. Accounted(s)'
      BY <3>1, AccountedStays DEF IngestInv, Ingested
    <3> QED
      BY <3>1, <3>2
  <2>2. CASE d \notin documents
    <3>1. StoreDocument(r)
      BY <2>2 DEF Proceed, Receive, Authorize, RefuseUncontracted, RefuseQuarantined,
           RefuseForbidden, RefuseWrite, RejectDuplicate, Search, SearchUndecryptable, ReadHead,
           Stamp, AppendEvent, Created, Answer, FinishProbe, Judge, SignRecord, FileRecord, Raise,
           CountAnd, NothingStored, ReadOnly, InsertEvent
    <3>2. /\ d.tenant = Tenant(r) /\ d.content = call[r].content
          /\ pc[r] = "insert" /\ pc' = [pc EXCEPT ![r] = "head"]
      BY <2>2, <3>1 DEF StoreDocument, InsertDocument, Goto
    <3>3. Ingested(r, d) /\ Accounted(r)'
      BY <3>2 DEF IngestInv, PathOK, Ingested, Accounted, Storing, TypeInv, TypeOK, HandlerTypeOK
    <3> QED
      BY <3>3
  <2> QED
    BY <2>1, <2>2
<1>4. ASSUME NEW k \in DOMAIN events', events'[k].action = "document.ingested"
      PROVE  \E d \in documents' : Ingested(events'[k].hash, d)
  <2>1. CASE k \in DOMAIN events
    <3>1. events'[k] = events[k]
      BY <1>1, <2>1 DEF Growth
    <3>2. PICK d \in documents : Ingested(events[k].hash, d)
      BY <1>4, <2>1, <3>1 DEF IngestInv, IngestLedgerAgrees
    <3> QED
      BY <1>1, <3>1, <3>2 DEF Growth
  <2>2. CASE k \notin DOMAIN events
    <3>1. AppendEvent(r)
      BY <2>2 DEF Proceed, Receive, Authorize, RefuseUncontracted, RefuseQuarantined,
           RefuseForbidden, RefuseWrite, StoreDocument, RejectDuplicate, Search,
           SearchUndecryptable, ReadHead, Stamp, Created, Answer, FinishProbe, Judge, SignRecord,
           FileRecord, Raise, CountAnd, NothingStored, ReadOnly, InsertDocument
    <3>2. events' = Append(events, Event(r)) /\ events \in Seq(EventRow) /\ pc[r] = "append"
      BY <3>1 DEF AppendEvent, InsertEvent, Goto, TypeInv, TypeOK, StoreTypeOK
    <3>3. events'[k] = Event(r)
      BY <2>2, <3>2
    <3>4. Event(r).hash = r /\ (Event(r).action = "document.ingested" => Kind(r) = "ingest")
      BY DEF Event
    <3>5. \E d \in documents : Ingested(r, d)
      BY <1>4, <3>2, <3>3, <3>4 DEF IngestInv, HeldOK, Holds, Storing
    <3> QED
      BY <1>1, <3>3, <3>4, <3>5 DEF Growth
  <2> QED
    BY <2>1, <2>2
<1>5. \A k \in DOMAIN events' : events'[k].action = "document.ingested" =>
        \E d \in documents' : Ingested(events[k].hash, d)'
  BY <1>1, <1>4 DEF Ingested, Kind, Tenant
<1>6. \A d \in documents' : \E s \in Requests : Ingested(s, d)' /\ Accounted(s)'
  BY <1>2, <1>3
<1> QED
  BY <1>5, <1>6 DEF IngestLedgerAgrees, Accounted, Storing

LEMMA IngestRestarted ==
  ASSUME TypeInv, IngestInv, NEW i \in Instances, Restart(i)
  PROVE  IngestInv'
<1>1. UNCHANGED <<documents, events, call, reply>>
  BY DEF Restart
<1>2. \A s \in Requests : pc'[s] = pc[s] \/ (pc'[s] = "lost" /\ pc[s] # "done")
  BY DEF Restart, InFlight, Running
<1>3. \A s : Kind(s)' = Kind(s) /\ Tenant(s)' = Tenant(s) /\ \A d : Ingested(s, d)' = Ingested(s, d)
  BY <1>1 DEF Kind, Tenant, Ingested
<1>4. PathOK'
  BY <1>1, <1>2, <1>3 DEF IngestInv, PathOK, Counted
<1>5. \A s \in Requests : Holds(s)' => Holds(s)
  BY <1>1, <1>2, <1>3 DEF Holds, Storing
<1>6. HeldOK'
  BY <1>1, <1>3, <1>5 DEF IngestInv, HeldOK
<1>7. \A s \in Requests : Accounted(s) => Accounted(s)'
  BY <1>1, <1>2 DEF Accounted, Logged
<1>8. IngestLedgerAgrees'
  BY <1>1, <1>3, <1>7 DEF IngestInv, IngestLedgerAgrees, Accounted, Storing
<1> QED
  BY <1>4, <1>6, <1>8 DEF IngestInv

LEMMA IngestInit == Init => IngestInv
BY DEF Init, StoreInit, IngestInv, PathOK, HeldOK, Holds, IngestLedgerAgrees, Counted, Storing

LEMMA IngestStep == TypeInv /\ IngestInv /\ [Next]_vars => IngestInv'
<1> SUFFICES ASSUME TypeInv, IngestInv, [Next]_vars PROVE IngestInv'
  OBVIOUS
<1>1. CASE UNCHANGED vars
  BY <1>1 DEF vars, IngestInv, PathOK, HeldOK, Holds, IngestLedgerAgrees, Ingested, Logged, Kind,
              Tenant
<1>2. ASSUME NEW r \in Requests, Receive(r) \/ Proceed(r) \/ Raise(r) PROVE IngestInv'
  BY <1>2, PathStep, HeldStep, LedgerStep DEF IngestInv
<1>3. ASSUME NEW i \in Instances, Restart(i) PROVE IngestInv'
  BY <1>3, IngestRestarted
<1> QED
  BY <1>1, <1>2, <1>3 DEF Next, Finished

\* Documents and ingest events correspond, but for the gap between their transactions,
\* for any number of ingests, processes, errors and restarts.
THEOREM LedgerAgrees == Spec => []IngestLedgerAgrees
<1>1. IngestInv => IngestLedgerAgrees
  BY DEF IngestInv
<1> QED
  BY TypeInit, TypeStep, IngestInit, IngestStep, <1>1, PTL DEF Spec

\* Of any number of ingests of one text, at most one is answered 201.
THEOREM IngestsDiffer == Spec => []DistinctIngests
<1>1. IngestInv => DistinctIngests
  BY DEF IngestInv, HeldOK, Holds, DistinctIngests
<1> QED
  BY TypeInit, TypeStep, IngestInit, IngestStep, <1>1, PTL DEF Spec

-----------------------------------------------------------------------------
(***************************************************************************)
(* Keys.  A row is sealed under the key of its own tenant, so a row that   *)
(* does not open is of another root.                                       *)
(***************************************************************************)
SealedOK == \A d \in documents : d.key = [tenant |-> d.tenant, root |-> d.key.root]

KeyInv == SealedOK /\ UndecryptableOnlyAfterRotation

LEMMA InstFixed ==
  ASSUME NEW r \in Requests, Receive(r) \/ Proceed(r) \/ Raise(r)
  PROVE  UNCHANGED inst
BY DEF Proceed, Receive, Authorize, RefuseUncontracted, RefuseQuarantined, RefuseForbidden,
       RefuseWrite, StoreDocument, RejectDuplicate, Search, SearchUndecryptable, ReadHead, Stamp,
       AppendEvent, Created, Answer, FinishProbe, Judge, SignRecord, FileRecord, Raise, Respond,
       CountAnd

LEMMA SealedStep ==
  ASSUME SealedOK, NEW r \in Requests, Receive(r) \/ Proceed(r) \/ Raise(r)
  PROVE  SealedOK'
<1>1. CASE StoreDocument(r)
  <2> DEFINE key == Key(inst[r], Tenant(r))
             row == [tenant |-> Tenant(r), content |-> call[r].content, key |-> key]
  <2>1. documents' = documents \cup {row}
    BY <1>1 DEF StoreDocument, InsertDocument
  <2>2. key.root = KeyRoot[inst[r]] /\ key = [tenant |-> Tenant(r), root |-> KeyRoot[inst[r]]]
    BY DEF Key
  <2>3. row.tenant = Tenant(r) /\ row.key = key
    OBVIOUS
  <2> HIDE DEF key, row
  <2> QED
    BY <2>1, <2>2, <2>3 DEF SealedOK
<1>2. CASE ~StoreDocument(r)
  <2>1. UNCHANGED documents
    BY <1>2 DEF Proceed, Receive, Authorize, RefuseUncontracted, RefuseQuarantined,
       RefuseForbidden, RefuseWrite, RejectDuplicate, Search, SearchUndecryptable, ReadHead, Stamp,
       AppendEvent, Created, Answer, FinishProbe, Judge, SignRecord, FileRecord, Raise, CountAnd,
       NothingStored, ReadOnly, InsertEvent
  <2> QED
    BY <2>1 DEF SealedOK
<1> QED
  BY <1>1, <1>2

LEMMA UndecryptableIsForeign ==
  ASSUME TypeInv, SealedOK, NEW r \in Requests, SearchUndecryptable(r)
  PROVE  \E d \in documents : d.tenant = Tenant(r) /\ d.key.root # KeyRoot[inst[r]]
<1>1. PICK rows \in Ranked(Tenant(r), Question(r), TopK(r)) : ~Decrypts(inst[r], Tenant(r), rows)
  BY DEF SearchUndecryptable
<1>2. PICK d \in rows : d.key # [tenant |-> Tenant(r), root |-> KeyRoot[inst[r]]]
  BY <1>1 DEF Decrypts, Key
<1>3. d \in documents /\ d.tenant = Tenant(r)
  BY <1>2, RankedRows DEF Visible
<1> QED
  BY <1>2, <1>3 DEF SealedOK

LEMMA KeyStep == TypeInv /\ KeyInv /\ [Next]_vars => KeyInv'
<1> SUFFICES ASSUME TypeInv, KeyInv, [Next]_vars PROVE KeyInv'
  OBVIOUS
<1>1. CASE UNCHANGED vars
  BY <1>1 DEF vars, KeyInv, SealedOK, UndecryptableOnlyAfterRotation, Tenant
<1>2. ASSUME NEW r \in Requests, Receive(r) \/ Proceed(r) \/ Raise(r) PROVE KeyInv'
  <2>1. UNCHANGED <<call, inst>> /\ documents \subseteq documents' /\ SealedOK'
    BY <1>2, CallFixed, InstFixed, TablesGrow, SealedStep DEF Growth, KeyInv
  <2>2. ASSUME NEW s \in Requests, reply'[s].cause = "undecryptable"
        PROVE  \E d \in documents' : d.tenant = Tenant(s)' /\ d.key.root # KeyRoot[inst'[s]]
    <3>0. Tenant(s)' = Tenant(s)
      BY <2>1 DEF Tenant
    <3>1. CASE reply[s].cause = "undecryptable"
      BY <2>1, <3>0, <3>1 DEF KeyInv, UndecryptableOnlyAfterRotation
    <3>2. CASE reply[s].cause # "undecryptable"
      <4>1. s = r
        BY <1>2, <2>2, <3>2, OthersWait
      <4>2. SearchUndecryptable(r)
        BY <1>2, <2>2, <3>2, <4>1 DEF Proceed, Receive, Authorize, RefuseUncontracted,
           RefuseQuarantined, RefuseForbidden, RefuseWrite, StoreDocument, RejectDuplicate, Search,
           ReadHead, Stamp, AppendEvent, Created, Answer, FinishProbe, Judge, SignRecord,
           FileRecord, Raise, Respond, CountAnd, TypeInv, TypeOK, HandlerTypeOK, Reply
      <4> QED
        BY <2>1, <3>0, <4>1, <4>2, UndecryptableIsForeign DEF KeyInv
    <3> QED
      BY <3>1, <3>2
  <2> QED
    BY <2>1, <2>2 DEF KeyInv, UndecryptableOnlyAfterRotation
<1>3. ASSUME NEW i \in Instances, Restart(i) PROVE KeyInv'
  BY <1>3 DEF Restart, KeyInv, SealedOK, UndecryptableOnlyAfterRotation, Tenant
<1> QED
  BY <1>1, <1>2, <1>3 DEF Next, Finished

\* A retrieval fails to decrypt only over a row of its own tenant that a process with
\* another root secret sealed.
THEOREM OnlyRotationHidesRows == Spec => []UndecryptableOnlyAfterRotation
<1>1. Init => KeyInv
  BY DEF Init, StoreInit, KeyInv, SealedOK, UndecryptableOnlyAfterRotation
<1>2. KeyInv => UndecryptableOnlyAfterRotation
  BY DEF KeyInv
<1> QED
  BY TypeInit, TypeStep, KeyStep, <1>1, <1>2, PTL DEF Spec

-----------------------------------------------------------------------------
(***************************************************************************)
(* Attestations.  A probe is an ordinary retrieval until it is counted, so *)
(* ReceiptInv gives its event; from its verdict on, its hits are fixed.    *)
(***************************************************************************)
Capped(t) == Contracts[t].maxResults < 3

ProbeOK ==
  \A r \in Requests :
    /\ pc[r] \in Counted => Kind(r) = "attest"
    /\ pc[r] \in Searched \cup {"search"} /\ Kind(r) = "attest" => ~Capped(Tenant(r))
    /\ pc[r] \in Concluding /\ draft[r].status = "passed" => ~Leaked(r)

Probed(r, t) ==
  \E k \in DOMAIN events : /\ events[k].hash = r
                           /\ events[k].tenant = t
                           /\ events[k].action = "retrieval.completed"

\* What the ledger of a process holds is over, and held once.
FiledOK ==
  \A i \in Instances, t \in Contracted :
    /\ \A k \in DOMAIN attestations[i][t] :
         LET a == attestations[i][t][k] IN
           /\ pc[a.probe] = "done"
           /\ ~Capped(t)
           /\ a.status = "passed" => ~Leaked(a.probe) /\ Probed(a.probe, t)
    /\ \A j, k \in DOMAIN attestations[i][t] :
         attestations[i][t][j].probe = attestations[i][t][k].probe => j = k

ProbeInv == ProbeOK /\ FiledOK

LEMMA CapSeen ==
  ASSUME TypeInv, NEW r \in Requests, Authorize(r), pc[r] = "authorize", Kind(r) = "attest"
  PROVE  ~Capped(Tenant(r))
<1>1. Tenant(r) \in Contracted /\ 3 <= Contracts[Tenant(r)].maxResults
  BY DEF Authorize, HasContract, Satisfies, Requested, TopK
<1> QED
  BY <1>1, ContractAssumption DEF Capped

LEMMA ProbeStep ==
  ASSUME TypeInv, PathOK, ProbeOK, NEW r \in Requests, Receive(r) \/ Proceed(r) \/ Raise(r)
  PROVE  ProbeOK'
<1>0. /\ pc \in [Requests -> Stages] /\ found \in [Requests -> Found]
      /\ draft \in [Requests -> Draft]
  BY DEF TypeInv, TypeOK, HandlerTypeOK
<1>1. UNCHANGED call
  BY CallFixed
<1>2. ASSUME NEW s \in Requests
      PROVE  /\ Kind(s)' = Kind(s) /\ Tenant(s)' = Tenant(s) /\ Capped(Tenant(s))' = Capped(Tenant(s))
             /\ found'[s].hits = found[s].hits => Leaked(s)' = Leaked(s)
  BY <1>1 DEF Kind, Tenant, Capped, Leaked
<1>3. ASSUME NEW s \in Requests, s # r
      PROVE  pc'[s] = pc[s] /\ found'[s] = found[s] /\ draft'[s] = draft[s]
  <2>1. draft' = draft \/ \E x : draft' = [draft EXCEPT ![r] = x]
    BY DEF Proceed, Receive, Authorize, RefuseUncontracted, RefuseQuarantined, RefuseForbidden,
       RefuseWrite, StoreDocument, RejectDuplicate, Search, SearchUndecryptable, ReadHead, Stamp,
       AppendEvent, Created, Answer, FinishProbe, Judge, SignRecord, FileRecord, Raise, Respond,
       CountAnd
  <2> QED
    BY <1>0, <1>3, <2>1, OthersWait
<1>4. /\ pc'[r] \in Counted => Kind(r) = "attest"
      /\ pc'[r] \in Searched \cup {"search"} /\ Kind(r) = "attest" => ~Capped(Tenant(r))
      /\ pc'[r] \in Concluding /\ draft'[r].status = "passed" => ~Leaked(r)'
  <2>1. CASE Authorize(r)
    BY <1>0, <2>1, CapSeen DEF Authorize, Authorizing, Goto, Counted, Audited, Searched, Concluding
  <2>2. CASE Receive(r)
    BY <1>0, <2>2 DEF Receive, Goto, Counted, Audited, Searched, Concluding
  <2>3. CASE \/ RefuseUncontracted(r) \/ RefuseQuarantined(r) \/ RefuseForbidden(r) \/ RefuseWrite(r)
             \/ RejectDuplicate(r) \/ SearchUndecryptable(r) \/ Created(r) \/ FileRecord(r) \/ Raise(r)
    <3>1. pc'[r] = "done"
      BY <1>0, <2>3 DEF RefuseUncontracted, RefuseQuarantined, RefuseForbidden, RefuseWrite,
         RejectDuplicate, SearchUndecryptable, Created, FileRecord, Raise, Respond, Goto
    <3> QED
      BY <3>1 DEF Counted, Audited, Searched, Concluding
  <2>4. CASE StoreDocument(r)
    <3>1. pc[r] = "insert" /\ pc'[r] = "head"
      BY <1>0, <2>4 DEF StoreDocument, Goto
    <3> QED
      BY <3>1 DEF PathOK, Counted, Concluding
  <2>5. CASE Search(r) \/ ReadHead(r) \/ Stamp(r) \/ AppendEvent(r)
    <3>1. /\ pc[r] \in {"search", "head", "stamp", "append"}
          /\ pc'[r] \in {"head", "stamp", "append", "reply", "count"}
      BY <1>0, <2>5 DEF Search, ReadHead, Stamp, AppendEvent, Goto
    <3> QED
      BY <3>1 DEF ProbeOK, Counted, Audited, Searched, Concluding
  <2>6. CASE Answer(r) \/ FinishProbe(r)
    <3>1. pc[r] = "count" /\ (pc'[r] = "done" \/ (pc'[r] = "judge" /\ Kind(r) = "attest"))
      BY <1>0, <2>6 DEF Answer, FinishProbe, CountAnd, Goto
    <3> QED
      BY <3>1 DEF ProbeOK, Counted, Audited, Searched, Concluding
  <2>7. CASE Judge(r)
    <3>1. PICK late \in BOOLEAN :
            draft' = [draft EXCEPT ![r].status = IF Leaked(r) \/ late THEN "failed" ELSE "passed"]
      BY <2>7 DEF Judge
    <3>2. pc[r] = "judge" /\ pc'[r] = "record" /\ found' = found
      BY <1>0, <2>7 DEF Judge, Goto
    <3>3. draft'[r].status = "passed" => ~Leaked(r)
      BY <1>0, <3>1 DEF Draft
    <3> QED
      BY <1>2, <3>2, <3>3 DEF ProbeOK, Counted, Audited, Searched
  <2>8. CASE SignRecord(r)
    <3>1. pc[r] = "record" /\ pc'[r] = "file" /\ found' = found /\ draft'[r].status = draft[r].status
      BY <1>0, <2>8 DEF SignRecord, Goto, Draft
    <3> QED
      BY <1>2, <3>1 DEF ProbeOK, Counted, Audited, Searched, Concluding
  <2> QED
    BY <2>1, <2>2, <2>3, <2>4, <2>5, <2>6, <2>7, <2>8 DEF Proceed
<1> QED
  BY <1>2, <1>3, <1>4 DEF ProbeOK

\* Records of requests that are over keep what they say, while rows are added.
LEMMA RecordKept ==
  ASSUME Growth, UNCHANGED call, NEW s, NEW t, found'[s].hits = found[s].hits
  PROVE  /\ Leaked(s)' = Leaked(s)
         /\ Probed(s, t) => Probed(s, t)'
         /\ Capped(t)' = Capped(t)
BY DEF Growth, Leaked, Tenant, Probed, Capped

LEMMA FiledAreRequests ==
  ASSUME TypeInv, NEW i \in Instances, NEW t \in Contracted, NEW k \in DOMAIN attestations[i][t]
  PROVE  attestations[i][t][k].probe \in Requests
<1> DEFINE log == attestations[i][t]
<1>1. log \in Seq(Record) /\ k \in DOMAIN log
  BY DEF TypeInv, TypeOK, ControlTypeOK
<1> HIDE DEF log
<1>2. log[k] \in Record
  BY <1>1
<1> QED
  BY <1>2 DEF Record, log

LEMMA FiledKept ==
  ASSUME TypeInv, FiledOK, Growth, UNCHANGED <<call, attestations>>,
         \A s \in Requests : pc[s] = "done" => pc'[s] = "done" /\ found'[s] = found[s]
  PROVE  FiledOK'
<1>1. ASSUME NEW i \in Instances, NEW t \in Contracted, NEW k \in DOMAIN attestations[i][t],
             NEW a, a = attestations[i][t][k]
      PROVE  /\ pc'[a.probe] = "done" /\ ~Capped(t)'
             /\ a.status = "passed" => ~Leaked(a.probe)' /\ Probed(a.probe, t)'
  <2>1. a.probe \in Requests
    BY <1>1, FiledAreRequests
  <2>2. PICK p \in Requests : p = a.probe
    BY <2>1
  <2>3. pc[p] = "done" /\ ~Capped(t) /\ (a.status = "passed" => ~Leaked(p) /\ Probed(p, t))
    BY <1>1, <2>2 DEF FiledOK
  <2>4. pc'[p] = "done" /\ found'[p].hits = found[p].hits
    BY <2>3
  <2>5. Leaked(p)' = Leaked(p) /\ (Probed(p, t) => Probed(p, t)') /\ Capped(t)' = Capped(t)
    BY <2>4, RecordKept
  <2> QED
    BY <2>2, <2>3, <2>4, <2>5
<1> QED
  BY <1>1 DEF FiledOK, Leaked, Probed, Capped

LEMMA Filing ==
  ASSUME TypeInv, PathOK, ProbeOK, ReceiptInv, AdmittedOK, NEW r \in Requests, FileRecord(r)
  PROVE  /\ pc[r] = "file" /\ pc'[r] = "done"
         /\ ~Capped(Tenant(r)) /\ Tenant(r) \in Contracted
         /\ draft[r].status = "passed" => ~Leaked(r)
         /\ Probed(r, Tenant(r))
<1>1. pc[r] = "file" /\ pc'[r] = "done"
  BY DEF FileRecord, Respond, Goto, TypeInv, TypeOK, HandlerTypeOK
<1>2. Kind(r) = "attest" /\ ~Capped(Tenant(r)) /\ (draft[r].status = "passed" => ~Leaked(r))
  BY <1>1 DEF ProbeOK, Counted, Audited, Searched, Concluding
<1>3. EventOK(r)
  BY <1>1, <1>2 DEF ReceiptInv, ReceiptOK, Retrieval, Audited, Counted
<1>4. Tenant(r) \in Contracted
  BY <1>1 DEF AdmittedOK, Admitted
<1> QED
  BY <1>1, <1>2, <1>3, <1>4 DEF EventOK, Probed

LEMMA FiledAppended ==
  ASSUME TypeInv, PathOK, ProbeOK, ReceiptInv, AdmittedOK, FiledOK,
         NEW r \in Requests, FileRecord(r)
  PROVE  FiledOK'
<1> DEFINE record == [probe |-> r, status |-> draft[r].status, quarantined |-> draft[r].quarantined]
<1>1. /\ attestations' = [attestations EXCEPT ![inst[r]][Tenant(r)] = Append(@, record)]
      /\ UNCHANGED <<call, found, events>>
  BY DEF FileRecord, File, Respond
<1>2. record.probe = r /\ record.status = draft[r].status
  OBVIOUS
<1> HIDE DEF record
<1>3. /\ attestations \in [Instances -> [Contracted -> Seq(Record)]]
      /\ pc \in [Requests -> Stages]
  BY DEF TypeInv, TypeOK, ControlTypeOK, HandlerTypeOK
<1>4. \A s \in Requests : pc[s] = "done" => pc'[s] = "done" /\ s # r
  BY <1>3, Filing, OthersWait DEF Proceed
<1>5. ASSUME NEW i \in Instances, NEW t \in Contracted
      PROVE  LET old == attestations[i][t]
                 new == attestations'[i][t]
             IN  /\ old \in Seq(Record)
                 /\ \/ new = old
                    \/ t = Tenant(r) /\ new = Append(old, record)
  BY <1>1, <1>3
<1>6. ASSUME NEW s \in Requests, NEW t
      PROVE  Leaked(s)' = Leaked(s) /\ Probed(s, t)' = Probed(s, t) /\ Capped(t)' = Capped(t)
  BY <1>1 DEF Leaked, Tenant, Probed, Capped
<1>7. ASSUME NEW i \in Instances, NEW t \in Contracted
      PROVE  LET new == attestations'[i][t] IN
             /\ \A k \in DOMAIN new : /\ new[k].probe \in Requests
                                      /\ pc'[new[k].probe] = "done" /\ ~Capped(t)
                                      /\ new[k].status = "passed" =>
                                           ~Leaked(new[k].probe) /\ Probed(new[k].probe, t)
             /\ \A j, k \in DOMAIN new : new[j].probe = new[k].probe => j = k
  <2> DEFINE old == attestations[i][t]
             new == attestations'[i][t]
             good(a) == /\ a.probe \in Requests /\ ~Capped(t)
                        /\ a.status = "passed" => ~Leaked(a.probe) /\ Probed(a.probe, t)
  <2>1. /\ old \in Seq(Record)
        /\ new = old \/ (t = Tenant(r) /\ new = Append(old, record))
    BY <1>5
  <2>2. \A k \in DOMAIN old : old[k].probe \in Requests
    BY FiledAreRequests
  <2>3. /\ \A k \in DOMAIN old : good(old[k]) /\ pc[old[k].probe] = "done"
        /\ \A j, k \in DOMAIN old : old[j].probe = old[k].probe => j = k
    BY <2>2 DEF FiledOK
  <2>4. t = Tenant(r) => good(record)
    BY <1>2, Filing
  <2>5. pc'[r] = "done"
    BY Filing
  <2> HIDE DEF old, new, good
  <2>6. /\ \A k \in DOMAIN old : good(old[k]) /\ pc'[old[k].probe] = "done" /\ old[k].probe # r
        /\ \A k \in DOMAIN new : good(new[k]) /\ pc'[new[k].probe] = "done"
        /\ \A j, k \in DOMAIN new : new[j].probe = new[k].probe => j = k
    <3>1. \A k \in DOMAIN old : good(old[k]) /\ pc'[old[k].probe] = "done" /\ old[k].probe # r
      BY <1>4, <2>2, <2>3
    <3>2. CASE new = old
      BY <2>3, <3>1, <3>2
    <3>3. CASE t = Tenant(r) /\ new = Append(old, record)
      <4>1. /\ Len(old) \in Nat /\ DOMAIN old = 1..Len(old) /\ DOMAIN new = 1..(Len(old) + 1)
            /\ \A k \in DOMAIN old : new[k] = old[k]
            /\ new[Len(old) + 1] = record
        BY <2>1, <3>3
      <4>2. \A k \in DOMAIN new : k \in DOMAIN old \/ k = Len(old) + 1
        BY <4>1
      <4> QED
        BY <1>2, <2>3, <2>4, <2>5, <3>1, <3>3, <4>1, <4>2
    <3> QED
      BY <2>1, <3>1, <3>2, <3>3
  <2> QED
    BY <2>6 DEF good, new
<1> QED
  BY <1>6, <1>7 DEF FiledOK

LEMMA OverStays ==
  ASSUME TypeInv, PathOK, NEW r \in Requests, Receive(r) \/ Proceed(r) \/ Raise(r)
  PROVE  \A s \in Requests : pc[s] = "done" => pc'[s] = "done" /\ found'[s] = found[s]
<1>1. pc[r] # "done"
  BY DEF Proceed, Receive, Authorize, Authorizing, RefuseUncontracted, RefuseQuarantined,
         RefuseForbidden, RefuseWrite, StoreDocument, RejectDuplicate, Search, SearchUndecryptable,
         ReadHead, Stamp, AppendEvent, Created, Answer, FinishProbe, Judge, SignRecord, FileRecord,
         Raise, Respond, CountAnd, Goto
<1> QED
  BY <1>1, OthersWait

LEMMA ProbeRestarted ==
  ASSUME TypeInv, ProbeInv, NEW i \in Instances, Restart(i)
  PROVE  ProbeInv'
<1>1. /\ UNCHANGED <<documents, events, call, found, draft>>
      /\ attestations' = [attestations EXCEPT ![i] = FreshLedger]
  BY DEF Restart, Reload
<1>2. \A s \in Requests : pc'[s] = pc[s] \/ (pc'[s] = "lost" /\ pc[s] # "done")
  BY DEF Restart, InFlight, Running
<1>3. ProbeOK'
  BY <1>1, <1>2 DEF ProbeInv, ProbeOK, Kind, Tenant, Capped, Leaked, Counted, Audited, Searched,
                    Concluding
<1>4. ASSUME NEW j \in Instances, NEW t \in Contracted
      PROVE  attestations'[j][t] = attestations[j][t] \/ attestations'[j][t] = <<>>
  BY <1>1 DEF FreshLedger, TypeInv, TypeOK, ControlTypeOK
<1>5. ASSUME NEW j \in Instances, NEW t \in Contracted
      PROVE  \A k \in DOMAIN attestations[j][t] : attestations[j][t][k].probe \in Requests
  BY FiledAreRequests
<1>6. ASSUME NEW s, NEW t
      PROVE  Leaked(s)' = Leaked(s) /\ Probed(s, t)' = Probed(s, t) /\ Capped(t)' = Capped(t)
  BY <1>1 DEF Leaked, Tenant, Probed, Capped
<1>7. FiledOK'
  BY <1>2, <1>4, <1>5, <1>6 DEF ProbeInv, FiledOK
<1> QED
  BY <1>3, <1>7 DEF ProbeInv

AttestInv == QuarantineInv /\ ReceiptInv /\ PathOK /\ ProbeInv

LEMMA ProbeInvStep == TypeInv /\ IngestInv /\ AttestInv /\ [Next]_vars => AttestInv'
<1> SUFFICES ASSUME TypeInv, IngestInv, AttestInv, [Next]_vars PROVE AttestInv'
  OBVIOUS
<1>0. QuarantineInv' /\ ReceiptInv' /\ PathOK'
  BY QuarantineStep, ReceiptStep, IngestStep DEF AttestInv, IngestInv
<1>1. CASE UNCHANGED vars
  BY <1>0, <1>1 DEF vars, AttestInv, ProbeInv, ProbeOK, FiledOK, Kind, Tenant, Capped, Leaked, Probed
<1>2. ASSUME NEW r \in Requests, Receive(r) \/ Proceed(r) \/ Raise(r) PROVE ProbeInv'
  <2>1. ProbeOK'
    BY <1>2, ProbeStep DEF AttestInv, ProbeInv
  <2>2. CASE FileRecord(r)
    BY <2>1, <2>2, FiledAppended DEF AttestInv, ProbeInv, QuarantineInv
  <2>3. CASE ~FileRecord(r)
    <3>1. UNCHANGED attestations
      BY <1>2, <2>3 DEF Proceed, Receive, Authorize, RefuseUncontracted, RefuseQuarantined,
         RefuseForbidden, RefuseWrite, StoreDocument, RejectDuplicate, Search, SearchUndecryptable,
         ReadHead, Stamp, AppendEvent, Created, Answer, FinishProbe, Judge, Conclude, SignRecord,
         Raise, CountAnd, NothingStored
    <3>2. Growth /\ UNCHANGED call
      BY <1>2, TablesGrow, CallFixed
    <3>3. FiledOK'
      BY <1>2, <3>1, <3>2, OverStays, FiledKept DEF AttestInv, ProbeInv
    <3> QED
      BY <2>1, <3>3 DEF ProbeInv
  <2> QED
    BY <2>2, <2>3
<1>3. ASSUME NEW i \in Instances, Restart(i) PROVE ProbeInv'
  BY <1>3, ProbeRestarted DEF AttestInv
<1> QED
  BY <1>0, <1>1, <1>2, <1>3 DEF Next, Finished, AttestInv

LEMMA ProbeInvInit == Init => AttestInv
<1>1. Init => ProbeInv
  BY DEF Init, ControlInit, FreshLedger, ProbeInv, ProbeOK, FiledOK, Counted, Audited, Searched,
         Concluding
<1>2. Init => ReceiptInv
  BY DEF Init, ReceiptInv, ReceiptOK, Answered, Searched, Audited, Counted
<1> QED
  BY <1>1, <1>2, QuarantineInit, IngestInit DEF AttestInv, IngestInv

\* Every record that passed rests on a probe of that tenant that ran to its end, is on
\* the audit ledger and returned no canary, and no probe backs two records.
THEOREM AttestationsAreBacked == Spec => []AttestationBackedByProbe
<1>1. TypeInv /\ AttestInv => AttestationBackedByProbe
  BY DEF AttestInv, ProbeInv, FiledOK, AttestationBackedByProbe, Filed, Probed
<1> QED
  BY TypeInit, TypeStep, IngestInit, IngestStep, ProbeInvInit, ProbeInvStep, <1>1, PTL DEF Spec

\* A contract that caps results below the probe's three admits no attestation.
THEOREM CapsExcludeAttestation == Spec => []CappedNeverAttested
<1>1. TypeInv /\ AttestInv => CappedNeverAttested
  <2> SUFFICES ASSUME TypeInv, AttestInv, NEW i \in Instances, NEW t \in Contracted, Capped(t)
               PROVE  attestations[i][t] = <<>>
    BY DEF CappedNeverAttested, Capped
  <2> DEFINE log == attestations[i][t]
  <2>1. log \in Seq(Record)
    BY DEF TypeInv, TypeOK, ControlTypeOK
  <2>2. \A k \in DOMAIN log : FALSE
    BY DEF AttestInv, ProbeInv, FiledOK
  <2> HIDE DEF log
  <2>3. Len(log) \in Nat /\ DOMAIN log = 1..Len(log)
    BY <2>1
  <2>4. Len(log) = 0
    BY <2>2, <2>3
  <2>5. log = <<>>
    BY <2>1, <2>4
  <2> QED
    BY <2>5 DEF log
<1> QED
  BY TypeInit, TypeStep, IngestInit, IngestStep, ProbeInvInit, ProbeInvStep, <1>1, PTL DEF Spec

-----------------------------------------------------------------------------
(***************************************************************************)
(* What a record knows.  "quarantined": true is signed only after the      *)
(* state said so, and but for a restart, which takes the records with it,  *)
(* the state goes on saying so.                                            *)
(***************************************************************************)
KnownOK ==
  /\ \A i \in Instances, t \in Contracted :
       \A k \in DOMAIN attestations[i][t] : attestations[i][t][k].quarantined => Quarantined(i, t)
  /\ \A r \in Requests :
       pc[r] = "file" /\ draft[r].quarantined => Quarantined(inst[r], Tenant(r))

\* The steps that file no record.
LEMMA KnownKept ==
  ASSUME KnownOK, UNCHANGED <<attestations, call, inst>>,
         \A i \in Instances, t \in Contracted : Quarantined(i, t) => Quarantined(i, t)',
         \A s \in Requests : /\ pc'[s] = "file" /\ draft'[s].quarantined
                             => /\ inst[s] \in Instances /\ Tenant(s) \in Contracted
                                /\ Quarantined(inst[s], Tenant(s))
  PROVE  KnownOK'
<1>1. \A s \in Requests : Tenant(s)' = Tenant(s)
  BY DEF Tenant
<1>2. \A s \in Requests : pc'[s] = "file" /\ draft'[s].quarantined
                            => Quarantined(inst[s], Tenant(s))'
  BY DEF Tenant
<1> QED
  BY <1>1, <1>2 DEF KnownOK

\* Whoever is about to file knows a contracted workspace.
LEMMA KnownHeld ==
  ASSUME TypeInv, AdmittedOK, KnownOK, NEW s \in Requests, pc[s] = "file", draft[s].quarantined
  PROVE  /\ inst[s] \in Instances /\ Tenant(s) \in Contracted
         /\ Quarantined(inst[s], Tenant(s))
BY CallTypes DEF AdmittedOK, Admitted, KnownOK

LEMMA KnownJudged ==
  ASSUME TypeInv, AdmittedOK, KnownOK, NEW r \in Requests, Judge(r)
  PROVE  KnownOK'
<1>1. PICK v \in Verdict : /\ Conclude(inst[r], Tenant(r), v)
                           /\ draft' = [draft EXCEPT ![r].status = v]
  BY DEF Judge, Verdict
<1>2. pc' = [pc EXCEPT ![r] = "record"] /\ UNCHANGED <<attestations, call, inst>>
  BY <1>1 DEF Judge, Goto, Conclude
<1>3. \A s \in Requests : pc'[s] = "file" /\ draft'[s].quarantined
                            => pc[s] = "file" /\ draft[s].quarantined
  BY <1>1, <1>2 DEF TypeInv, TypeOK, HandlerTypeOK, Draft
<1>4. ASSUME NEW i \in Instances, NEW t \in Contracted, Quarantined(i, t)
      PROVE  Quarantined(i, t)'
  BY <1>1, <1>4 DEF Conclude, Quarantined, TypeInv, TypeOK, ControlTypeOK
<1> QED
  BY <1>2, <1>3, <1>4, KnownHeld, KnownKept

LEMMA KnownSigned ==
  ASSUME TypeInv, AdmittedOK, KnownOK, NEW r \in Requests, SignRecord(r)
  PROVE  KnownOK'
<1>1. /\ pc[r] = "record" /\ pc' = [pc EXCEPT ![r] = "file"]
      /\ draft' = [draft EXCEPT ![r].quarantined = Quarantined(inst[r], Tenant(r))]
      /\ UNCHANGED <<workspace, attestations, call, inst>>
  BY DEF SignRecord, Goto, NothingStored
<1>2. /\ draft'[r].quarantined = Quarantined(inst[r], Tenant(r))
      /\ \A s \in Requests : s # r => pc'[s] = pc[s] /\ draft'[s] = draft[s]
  BY <1>1 DEF TypeInv, TypeOK, HandlerTypeOK, Draft
<1>3. inst[r] \in Instances /\ Tenant(r) \in Contracted
  BY <1>1, CallTypes DEF AdmittedOK, Admitted
<1>4. \A i, t : Quarantined(i, t)' <=> Quarantined(i, t)
  BY <1>1 DEF Quarantined
<1> QED
  BY <1>1, <1>2, <1>3, <1>4, KnownHeld, KnownKept

\* How the ledgers change when r files its record, or a process starts anew.
LEMMA LedgersGrow ==
  ASSUME TypeInv, NEW r \in Requests, FileRecord(r),
         NEW i \in Instances, NEW t \in Contracted
  PROVE  LET old == attestations[i][t]
             new == attestations'[i][t]
         IN  \/ new = old
             \/ /\ i = inst[r] /\ t = Tenant(r)
                /\ \A k \in DOMAIN new : \/ k \in DOMAIN old /\ new[k] = old[k]
                                         \/ /\ new[k].probe = r
                                            /\ new[k].quarantined = draft[r].quarantined
                /\ \A k \in DOMAIN old : 1..k \subseteq DOMAIN old
                /\ \A k \in DOMAIN old : new[k] = old[k]
<1> DEFINE record == [probe |-> r, status |-> draft[r].status, quarantined |-> draft[r].quarantined]
           old == attestations[i][t]
           new == attestations'[i][t]
<1>1. attestations' = [attestations EXCEPT ![inst[r]][Tenant(r)] = Append(@, record)]
  BY DEF FileRecord, File
<1>2. attestations \in [Instances -> [Contracted -> Seq(Record)]]
  BY DEF TypeInv, TypeOK, ControlTypeOK
<1>3. record.probe = r /\ record.quarantined = draft[r].quarantined
  OBVIOUS
<1> HIDE DEF record
<1>4. old \in Seq(Record)
  BY <1>2
<1>5. new = old \/ (i = inst[r] /\ t = Tenant(r) /\ new = Append(old, record))
  BY <1>1, <1>2
<1> HIDE DEF old, new
<1>6. /\ Len(old) \in Nat /\ DOMAIN old = 1..Len(old)
      /\ DOMAIN Append(old, record) = 1..(Len(old) + 1)
      /\ \A k \in DOMAIN old : Append(old, record)[k] = old[k]
      /\ Append(old, record)[Len(old) + 1] = record
  BY <1>4
<1>7. \A k \in 1..(Len(old) + 1) : k \in DOMAIN old \/ k = Len(old) + 1
  BY <1>6
<1>8. \A k \in DOMAIN old : 1..k \subseteq DOMAIN old
  BY <1>6
<1> QED
  BY <1>3, <1>5, <1>6, <1>7, <1>8 DEF old, new

LEMMA KnownFiled ==
  ASSUME TypeInv, AdmittedOK, KnownOK, NEW r \in Requests, FileRecord(r)
  PROVE  KnownOK'
<1>1. /\ pc[r] = "file" /\ pc' = [pc EXCEPT ![r] = "done"]
      /\ UNCHANGED <<workspace, draft, call, inst>>
  BY DEF FileRecord, File, Respond, Goto
<1>2. \A i, t : Quarantined(i, t)' <=> Quarantined(i, t)
  BY <1>1 DEF Quarantined
<1>3. ASSUME NEW i \in Instances, NEW t \in Contracted, NEW k \in DOMAIN attestations'[i][t],
             attestations'[i][t][k].quarantined
      PROVE  Quarantined(i, t)
  BY <1>1, <1>3, LedgersGrow, KnownHeld DEF KnownOK
<1>4. \A s \in Requests : pc'[s] = "file" => pc[s] = "file"
  BY <1>1 DEF TypeInv, TypeOK, HandlerTypeOK
<1>5. \A s \in Requests : pc'[s] = "file" /\ draft'[s].quarantined
                            => Quarantined(inst[s], Tenant(s))'
  BY <1>1, <1>4 DEF KnownOK, Quarantined, Tenant
<1> QED
  BY <1>2, <1>3, <1>5 DEF KnownOK

LEMMA LedgersLost ==
  ASSUME TypeInv, NEW i \in Instances, Restart(i), NEW j \in Instances, NEW t \in Contracted
  PROVE  IF j = i THEN attestations'[j][t] = <<>>
                  ELSE /\ attestations'[j][t] = attestations[j][t]
                       /\ workspace'[j][t] = workspace[j][t]
BY DEF Restart, Reload, FreshLedger, TypeInv, TypeOK, ControlTypeOK

LEMMA KnownRestarted ==
  ASSUME TypeInv, AdmittedOK, KnownOK, NEW i \in Instances, Restart(i)
  PROVE  KnownOK'
<1>1. /\ pc' = [r \in Requests |-> IF r \in InFlight(i) THEN "lost" ELSE pc[r]]
      /\ UNCHANGED <<call, inst, draft>>
  BY DEF Restart
<1>2. ASSUME NEW j \in Instances, NEW t \in Contracted, NEW k \in DOMAIN attestations'[j][t],
             attestations'[j][t][k].quarantined
      PROVE  Quarantined(j, t)'
  BY <1>2, LedgersLost DEF KnownOK, Quarantined
<1>3. ASSUME NEW s \in Requests, pc'[s] = "file", draft'[s].quarantined
      PROVE  Quarantined(inst[s], Tenant(s))'
  <2>1. pc[s] = "file" /\ inst[s] # i
    BY <1>1, <1>3 DEF InFlight, Running
  <2>2. inst[s] \in Instances /\ Tenant(s) \in Contracted /\ Quarantined(inst[s], Tenant(s))
    BY <1>1, <1>3, <2>1, KnownHeld
  <2>3. workspace'[inst[s]][Tenant(s)] = workspace[inst[s]][Tenant(s)]
    BY <2>1, <2>2, LedgersLost
  <2> QED
    BY <1>1, <2>2, <2>3 DEF Quarantined, Tenant
<1> QED
  BY <1>2, <1>3 DEF KnownOK

LEMMA KnownStep == TypeInv /\ AdmittedOK /\ KnownOK /\ [Next]_vars => KnownOK'
<1> SUFFICES ASSUME TypeInv, AdmittedOK, KnownOK, [Next]_vars PROVE KnownOK'
  OBVIOUS
<1>1. ASSUME UNCHANGED <<workspace, attestations, draft, call, inst>>,
             \A s \in Requests : pc'[s] \in Concluding => pc'[s] = pc[s]
      PROVE  KnownOK'
  <2>1. \A s \in Requests : pc'[s] = "file" /\ draft'[s].quarantined
                              => pc[s] = "file" /\ draft[s].quarantined
    BY <1>1 DEF Concluding
  <2>2. \A i, t : Quarantined(i, t)' <=> Quarantined(i, t)
    BY <1>1 DEF Quarantined
  <2> QED
    BY <1>1, <2>1, <2>2, KnownHeld, KnownKept
<1>2. CASE UNCHANGED vars
  BY <1>1, <1>2 DEF vars
<1>3. ASSUME NEW r \in Requests, Receive(r) \/ Proceed(r) \/ Raise(r) PROVE KnownOK'
  <2>1. CASE ~(Judge(r) \/ SignRecord(r) \/ FileRecord(r))
    BY <1>1, <1>3, <2>1, OffControlPlane DEF Proceed
  <2> QED
    BY <2>1, KnownJudged, KnownSigned, KnownFiled
<1> QED
  BY <1>2, <1>3, KnownRestarted DEF Next, Finished

-----------------------------------------------------------------------------
(***************************************************************************)
(* The release gate.  To the service the gate is one more client, so all   *)
(* of the above holds beside it.  Its verdict rests on what its requests   *)
(* had become when it noted them, and a request that is over stays as it   *)
(* is: a draft that passed was judged on hits without a canary, and what a *)
(* process has filed up to its record is not changed.                      *)
(***************************************************************************)
LEMMA GateTokens ==
  /\ 1 \in DOMAIN Gate /\ Len(Gate) \in Nat /\ DOMAIN Gate = 1..Len(Gate)
  /\ \A k \in DOMAIN Gate : Gate[k] \in Requests
BY GateAssumption

GateStage == /\ step \in {"fences", "attest", "wait", "status", "report", "end"}
             /\ turn \in DOMAIN Gate /\ noted \in [DOMAIN Gate -> Note]
             /\ teller \in [DOMAIN Gate -> Instances]
             /\ verdict \in {"none", "passed", "failed", "error"}

LEMMA GateIsClient == GateStage /\ [GateNext]_allVars => [Next]_vars
<1> SUFFICES ASSUME GateStage, [GateNext]_allVars PROVE [Next]_vars
  OBVIOUS
<1>1. CASE UNCHANGED allVars
  BY <1>1 DEF allVars
<1>2. CASE Send
  <2>1. G \in Requests
    BY GateTokens DEF GateStage, G
  <2> QED
    BY <1>2, <2>1 DEF Send, Next
<1>3. CASE TryFences \/ Hear \/ HearNothing \/ Report \/ GiveUp \/ Over
  BY <1>3 DEF TryFences, Hear, HearNothing, Report, GiveUp, Leave, Over, allVars
<1>4. ASSUME NEW i \in Instances, ReadStatus(i) PROVE UNCHANGED vars
  BY <1>4 DEF ReadStatus
<1>5. CASE Service
  BY <1>5 DEF Service, Next
<1> QED
  BY <1>1, <1>2, <1>3, <1>4, <1>5 DEF GateNext, GateStep

\* A request that is over stays as it is.
LEMMA DoneStays ==
  ASSUME TypeInv, PathOK, [Next]_vars, NEW s \in Requests, pc[s] = "done"
  PROVE  pc'[s] = "done" /\ reply'[s] = reply[s] /\ draft'[s] = draft[s] /\ Leaked(s)' = Leaked(s)
<1>0. UNCHANGED call
  BY CallFixed DEF Next, Finished, Restart, vars
<1>1. CASE UNCHANGED vars
  BY <1>1 DEF vars, Leaked, Tenant
<1>2. ASSUME NEW r \in Requests, Receive(r) \/ Proceed(r) \/ Raise(r)
      PROVE  pc'[s] = "done" /\ reply'[s] = reply[s] /\ draft'[s] = draft[s] /\ found'[s] = found[s]
  <2>1. r # s
    BY <1>2 DEF Proceed, Receive, Authorize, Authorizing, RefuseUncontracted, RefuseQuarantined,
         RefuseForbidden, RefuseWrite, StoreDocument, RejectDuplicate, Search, SearchUndecryptable,
         ReadHead, Stamp, AppendEvent, Created, Answer, FinishProbe, Judge, SignRecord, FileRecord,
         Raise, Respond, CountAnd, Goto
  <2>2. draft' = draft \/ \E d : draft' = [draft EXCEPT ![r] = d]
    BY <1>2 DEF Proceed, Receive, Authorize, RefuseUncontracted, RefuseQuarantined,
         RefuseForbidden, RefuseWrite, StoreDocument, RejectDuplicate, Search, SearchUndecryptable,
         ReadHead, Stamp, AppendEvent, Created, Answer, FinishProbe, Judge, SignRecord, FileRecord,
         Raise, Respond, CountAnd
  <2>3. draft'[s] = draft[s]
    BY <2>1, <2>2 DEF TypeInv, TypeOK, HandlerTypeOK
  <2> QED
    BY <1>2, <2>1, <2>3, OthersWait
<1>3. ASSUME NEW i \in Instances, Restart(i)
      PROVE  pc'[s] = "done" /\ reply'[s] = reply[s] /\ draft'[s] = draft[s] /\ found'[s] = found[s]
  BY <1>3 DEF Restart, InFlight, Running
<1> QED
  BY <1>0, <1>1, <1>2, <1>3 DEF Next, Finished, Leaked, Tenant

\* A verdict was reached in Judge and stays with the draft.
DraftBacked ==
  \A r \in Requests :
    /\ draft[r].status # "none" => pc[r] \in Concluding \cup {"done", "lost"}
    /\ draft[r].status = "passed" => ~Leaked(r)

LEMMA DraftStep ==
  ASSUME TypeInv, PathOK, DraftBacked, [Next]_vars PROVE DraftBacked'
<1>0. UNCHANGED call
  BY CallFixed DEF Next, Finished, Restart, vars
<1>1. CASE UNCHANGED vars
  BY <1>1 DEF vars, DraftBacked, Leaked, Tenant
<1>2. ASSUME NEW r \in Requests, Receive(r) \/ Proceed(r) \/ Raise(r) PROVE DraftBacked'
  <2>0. /\ pc \in [Requests -> Stages] /\ found \in [Requests -> Found]
        /\ draft \in [Requests -> Draft]
    BY DEF TypeInv, TypeOK, HandlerTypeOK
  <2>1. pc[r] \notin {"done", "lost"}
    BY <1>2 DEF Proceed, Receive, Authorize, Authorizing, RefuseUncontracted, RefuseQuarantined,
         RefuseForbidden, RefuseWrite, StoreDocument, RejectDuplicate, Search, SearchUndecryptable,
         ReadHead, Stamp, AppendEvent, Created, Answer, FinishProbe, Judge, SignRecord, FileRecord,
         Raise, Respond, CountAnd, Goto
  <2>2. ASSUME NEW s \in Requests, s # r
        PROVE  draft'[s] = draft[s] /\ pc'[s] = pc[s] /\ found'[s] = found[s]
    <3>1. draft' = draft \/ \E d : draft' = [draft EXCEPT ![r] = d]
      BY <1>2 DEF Proceed, Receive, Authorize, RefuseUncontracted, RefuseQuarantined,
         RefuseForbidden, RefuseWrite, StoreDocument, RejectDuplicate, Search, SearchUndecryptable,
         ReadHead, Stamp, AppendEvent, Created, Answer, FinishProbe, Judge, SignRecord, FileRecord,
         Raise, Respond, CountAnd
    <3> QED
      BY <1>2, <2>0, <2>2, <3>1, OthersWait
  <2>3. \A s \in Requests : found'[s] = found[s] => Leaked(s)' = Leaked(s)
    BY <1>0 DEF Leaked, Tenant
  <2>4. CASE Judge(r)
    <3>1. PICK late \in BOOLEAN :
            LET v == IF Leaked(r) \/ late THEN "failed" ELSE "passed"
            IN  draft' = [draft EXCEPT ![r].status = v]
      BY <2>4 DEF Judge
    <3>2. pc'[r] = "record" /\ found' = found
      BY <2>0, <2>4 DEF Judge, Goto
    <3>3. draft'[r].status = IF Leaked(r) \/ late THEN "failed" ELSE "passed"
      BY <2>0, <3>1 DEF Draft
    <3> QED
      BY <2>2, <2>3, <3>2, <3>3 DEF DraftBacked, Concluding
  <2>5. CASE SignRecord(r) \/ FileRecord(r)
    <3>1. /\ pc'[r] \in Concluding \cup {"done"} /\ found' = found
          /\ draft'[r].status = draft[r].status
      BY <2>0, <2>5 DEF SignRecord, FileRecord, Respond, Goto, Concluding, Draft
    <3> QED
      BY <2>2, <2>3, <3>1 DEF DraftBacked
  <2>6. CASE ~(Judge(r) \/ SignRecord(r) \/ FileRecord(r))
    <3>1. UNCHANGED draft /\ pc[r] \notin Concluding
      BY <1>2, <2>6 DEF Proceed, Receive, Authorize, Authorizing, RefuseUncontracted,
         RefuseQuarantined, RefuseForbidden, RefuseWrite, StoreDocument, RejectDuplicate, Search,
         SearchUndecryptable, ReadHead, Stamp, AppendEvent, Created, Answer, FinishProbe, Raise,
         Respond, CountAnd, Goto, Concluding
    <3>2. draft[r].status = "none"
      BY <2>1, <3>1 DEF DraftBacked
    <3> QED
      BY <2>2, <2>3, <3>1, <3>2 DEF DraftBacked
  <2> QED
    BY <2>4, <2>5, <2>6
<1>3. ASSUME NEW i \in Instances, Restart(i) PROVE DraftBacked'
  BY <1>0, <1>3 DEF Restart, DraftBacked, Leaked, Tenant
<1> QED
  BY <1>1, <1>2, <1>3 DEF Next, Finished

\* The gate's request of turn k is over, and if the process that ran it has told the
\* status too, it knew of no quarantine by the time it filed the record.
Heard(k) ==
  LET g == Gate[k] IN
  /\ pc[g] \in {"done", "lost"} /\ Tenant(g) \in Contracted
  /\ teller[k] = inst[g] => Untroubled(inst[g], g)

GateInv ==
  /\ GateStage
  /\ step = "status" => pc[G] \in {"done", "lost"}
  /\ verdict = "passed" => step = "end"
  /\ \A k \in DOMAIN Gate : Kind(Gate[k]) = "attest"
  /\ \A k \in DOMAIN Gate : noted[k].state = "active" => Heard(k)
  /\ \A k \in DOMAIN Gate : noted[k].code = 200 =>
       /\ pc[Gate[k]] = "done" /\ reply[Gate[k]].status = 200
       /\ noted[k].status = draft[Gate[k]].status
  /\ verdict = "passed" => \A k \in DOMAIN Gate :
       /\ pc[Gate[k]] = "done" /\ reply[Gate[k]].status = 200
       /\ draft[Gate[k]].status = "passed" /\ Heard(k)

\* A handler that is over stays so.
LEMMA EndStays ==
  ASSUME TypeInv, PathOK, [Next]_vars, NEW s \in Requests, pc[s] \in {"done", "lost"}
  PROVE  pc'[s] = pc[s]
<1>1. CASE UNCHANGED vars
  BY <1>1 DEF vars
<1>2. ASSUME NEW r \in Requests, Receive(r) \/ Proceed(r) \/ Raise(r) PROVE pc'[s] = pc[s]
  <2>1. pc[r] \notin {"done", "lost"}
    BY <1>2 DEF Proceed, Receive, Authorize, Authorizing, RefuseUncontracted, RefuseQuarantined,
         RefuseForbidden, RefuseWrite, StoreDocument, RejectDuplicate, Search, SearchUndecryptable,
         ReadHead, Stamp, AppendEvent, Created, Answer, FinishProbe, Judge, SignRecord, FileRecord,
         Raise, Respond, CountAnd, Goto
  <2> QED
    BY <1>2, <2>1, OthersWait
<1>3. ASSUME NEW i \in Instances, Restart(i) PROVE pc'[s] = pc[s]
  BY <1>3 DEF Restart, InFlight, Running
<1> QED
  BY <1>1, <1>2, <1>3 DEF Next, Finished

\* So nothing is put before its record any more, and no second one is filed for it.
LEMMA UntroubledStays ==
  ASSUME TypeInv, [Next]_vars, NEW g \in Requests, pc[g] \in {"done", "lost"},
         inst[g] \in Instances, Tenant(g) \in Contracted, Untroubled(inst[g], g)
  PROVE  UNCHANGED inst /\ Untroubled(inst[g], g)'
<1>0. UNCHANGED call /\ UNCHANGED inst
  BY CallFixed, InstFixed DEF Next, Finished, Restart, vars
<1> DEFINE old == attestations[inst[g]][Tenant(g)]
           new == attestations'[inst[g]][Tenant(g)]
<1>1. ASSUME new = old \/ DOMAIN new = {} PROVE Untroubled(inst[g], g)'
  BY <1>0, <1>1 DEF Untroubled, Tenant
<1>2. CASE UNCHANGED vars
  BY <1>1, <1>2 DEF vars
<1>3. ASSUME NEW r \in Requests, FileRecord(r) PROVE Untroubled(inst[g], g)'
  <2>1. r # g
    BY <1>3 DEF FileRecord, Respond, Goto
  <2>2. CASE new = old
    BY <1>1, <2>2
  <2>3. CASE new # old
    <3>1. /\ \A k \in DOMAIN new : new[k].probe = g => k \in DOMAIN old /\ new[k] = old[k]
          /\ \A k \in DOMAIN old : 1..k \subseteq DOMAIN old
          /\ \A k \in DOMAIN old : new[k] = old[k]
      BY <1>3, <2>1, <2>3, LedgersGrow
    <3>2. \A k \in DOMAIN old : old[k].probe = g =>
             ~old[k].quarantined /\ \A h \in 1..k : old[h].status = "passed"
      BY DEF Untroubled
    <3> HIDE DEF old, new
    <3>3. \A k \in DOMAIN new : new[k].probe = g =>
             ~new[k].quarantined /\ \A h \in 1..k : new[h].status = "passed"
      BY <3>1, <3>2
    <3> QED
      BY <1>0, <3>3 DEF Untroubled, Tenant, new
  <2> QED
    BY <2>2, <2>3
<1>4. ASSUME NEW r \in Requests, Receive(r) \/ Proceed(r) \/ Raise(r), ~FileRecord(r)
      PROVE  Untroubled(inst[g], g)'
  <2>1. UNCHANGED attestations
    BY <1>4 DEF Proceed, Receive, Authorize, RefuseUncontracted, RefuseQuarantined,
         RefuseForbidden, RefuseWrite, StoreDocument, RejectDuplicate, Search, SearchUndecryptable,
         ReadHead, Stamp, AppendEvent, Created, Answer, FinishProbe, Judge, Conclude, SignRecord,
         Raise, Respond, CountAnd, NothingStored, ReadOnly
  <2> QED
    BY <1>1, <2>1
<1>5. ASSUME NEW i \in Instances, Restart(i) PROVE Untroubled(inst[g], g)'
  BY <1>1, <1>5, LedgersLost
<1> QED
  BY <1>0, <1>2, <1>3, <1>4, <1>5 DEF Next, Finished

\* A process that says "active" has no failed record and none that knows of one.
LEMMA ActiveIsUntroubled ==
  ASSUME TypeInv, QuarantineInv, KnownOK, NEW g \in Requests,
         inst[g] \in Instances, Tenant(g) \in Contracted, ~Quarantined(inst[g], Tenant(g))
  PROVE  Untroubled(inst[g], g)
<1> DEFINE log == attestations[inst[g]][Tenant(g)]
<1>1. \A k \in DOMAIN log : log[k].status # "failed" /\ ~log[k].quarantined
  BY DEF QuarantineInv, QuarantineIffFailed, Filed, KnownOK
<1>2. log \in Seq(Record)
  BY DEF TypeInv, TypeOK, ControlTypeOK
<1> HIDE DEF log
<1>3. \A k \in DOMAIN log : log[k] \in Record /\ 1..k \subseteq DOMAIN log
  BY <1>2
<1>4. \A k \in DOMAIN log : log[k].status = "passed"
  BY <1>1, <1>3 DEF Record, Verdict
<1> QED
  BY <1>1, <1>3, <1>4 DEF Untroubled, log

\* What the gate notes of a reply: an attestation is never answered 201.
LEMMA GateReplies ==
  ASSUME TypeInv, HeldOK, NEW r \in Requests, Kind(r) = "attest"
  PROVE  /\ reply[r].status \in {0, 200, 403, 423, 500}
         /\ draft[r].status \in Verdict \cup {"none"}
BY DEF TypeInv, TypeOK, HandlerTypeOK, Reply, Draft, HeldOK

LEMMA GateStart == GateInit => GateInv
<1> SUFFICES ASSUME GateInit PROVE GateInv
  OBVIOUS
<1>1. /\ \A k \in DOMAIN Gate : Kind(Gate[k]) = "attest"
      /\ step = "fences" /\ turn = 1 /\ verdict = "none"
      /\ noted = [k \in DOMAIN Gate |-> Blank]
      /\ teller = [k \in DOMAIN Gate |-> inst[Gate[k]]]
  BY DEF GateInit
<1>2. Blank \in Note
  BY DEF Blank, Note
<1>3. inst \in [Requests -> Instances]
  BY DEF GateInit, Init
<1>4. teller \in [DOMAIN Gate -> Instances]
  BY <1>1, <1>3, GateTokens
<1> QED
  BY <1>1, <1>2, <1>4, GateTokens DEF GateInv, GateStage, Blank

LEMMA GateInvStep ==
  ASSUME TypeInv, TypeInv', IngestInv, QuarantineInv, KnownOK, GateInv, [GateNext]_allVars
  PROVE  GateInv'
<1>0. [Next]_vars /\ UNCHANGED call
  BY GateIsClient, CallFixed DEF GateInv, Next, Finished, Restart, vars
<1>1. ASSUME NEW k \in DOMAIN Gate, pc[Gate[k]] = "done"
      PROVE  /\ pc'[Gate[k]] = "done" /\ reply'[Gate[k]] = reply[Gate[k]]
             /\ draft'[Gate[k]] = draft[Gate[k]]
  BY <1>0, <1>1, DoneStays, GateTokens DEF IngestInv
<1>2. \A k \in DOMAIN Gate : Gate[k] \in Requests /\ Kind(Gate[k]) = "attest" /\ Kind(Gate[k])' = "attest"
  BY <1>0, GateTokens DEF GateInv, Kind
<1>a. ASSUME NEW k \in DOMAIN Gate, pc[Gate[k]] \in {"done", "lost"}
      PROVE  pc'[Gate[k]] = pc[Gate[k]]
  BY <1>0, <1>a, EndStays, GateTokens DEF IngestInv
<1>b. ASSUME NEW k \in DOMAIN Gate, Heard(k), teller'[k] = teller[k] PROVE Heard(k)'
  <2>1. /\ Gate[k] \in Requests /\ inst[Gate[k]] \in Instances
        /\ Tenant(Gate[k])' = Tenant(Gate[k])
    BY <1>0, <1>2, CallTypes DEF Tenant
  <2>2. UNCHANGED inst
    BY <1>0, InstFixed DEF Next, Finished, Restart, vars
  <2>3. pc'[Gate[k]] \in {"done", "lost"} /\ Tenant(Gate[k])' \in Contracted
    BY <1>a, <1>b, <2>1 DEF Heard
  <2>4. ASSUME teller'[k] = inst'[Gate[k]] PROVE Untroubled(inst[Gate[k]], Gate[k])'
    BY <1>0, <1>b, <2>1, <2>2, <2>4, UntroubledStays DEF Heard
  <2> QED
    BY <2>2, <2>3, <2>4 DEF Heard
<1>3. ASSUME UNCHANGED <<noted, teller, verdict>>, GateStage',
             step' = "status" => pc'[G'] \in {"done", "lost"},
             verdict = "passed" => step' = "end"
      PROVE  GateInv'
  BY <1>1, <1>2, <1>b, <1>3 DEF GateInv
<1>4. ASSUME NEW outcome \in {"passed", "failed", "error"}, Leave(outcome),
             outcome = "passed" => \A k \in DOMAIN Gate : Accepts(noted[k])
      PROVE  GateInv'
  <2>1. Blank \in Note /\ Blank.code # 200 /\ Blank.state # "active"
    BY DEF Blank, Note
  <2>2. /\ step' = "end" /\ verdict' = outcome /\ turn' = 1
        /\ noted' = [k \in DOMAIN Gate |-> Blank] /\ UNCHANGED teller
    BY <1>4 DEF Leave
  <2>3. GateStage'
    BY <2>1, <2>2, GateTokens DEF GateInv, GateStage
  <2>4. ASSUME outcome = "passed", NEW k \in DOMAIN Gate
        PROVE  /\ pc'[Gate[k]] = "done" /\ reply'[Gate[k]].status = 200
               /\ draft'[Gate[k]].status = "passed" /\ Heard(k)'
    BY <1>1, <1>b, <1>4, <2>2, <2>4 DEF GateInv, Accepts
  <2> QED
    BY <1>2, <2>1, <2>2, <2>3, <2>4 DEF GateInv
<1>5. CASE UNCHANGED allVars \/ Service \/ Over \/ TryFences \/ Send
  <2>1. UNCHANGED <<noted, teller, verdict, turn>>
    BY <1>5 DEF allVars, gateVars, Service, Over, TryFences, Send
  <2>2. step' = step \/ (step # "end" /\ step' \in {"attest", "wait"})
    BY <1>5 DEF allVars, gateVars, Service, Over, TryFences, Send
  <2>3. GateStage'
    BY <2>1, <2>2 DEF GateInv, GateStage
  <2>4. step' = "status" => pc'[G'] \in {"done", "lost"}
    BY <1>a, <2>1, <2>2 DEF GateInv, GateStage, G
  <2> QED
    BY <1>3, <2>1, <2>2, <2>3, <2>4 DEF GateInv
<1>6. CASE Hear \/ HearNothing
  <2>1. turn \in DOMAIN Gate /\ noted \in [DOMAIN Gate -> Note]
    BY DEF GateInv, GateStage
  <2>2. /\ step = "wait" /\ step' = "status" /\ UNCHANGED <<turn, teller, verdict, vars>>
        /\ noted' = [noted EXCEPT ![turn] = noted'[turn]] /\ noted'[turn] \in Note
        /\ noted'[turn].state = noted[turn].state /\ pc[G] \in {"done", "lost"}
        /\ noted'[turn].code = 200 => /\ pc[G] = "done" /\ reply[G].status = 200
                                     /\ noted'[turn].status = draft[G].status
    <3>1. CASE Hear
      <4> DEFINE c == reply[G].status
                 v == IF c = 200 THEN draft[G].status ELSE "none"
      <4>1. /\ noted' = [noted EXCEPT ![turn].code = c, ![turn].status = v]
            /\ pc[G] = "done" /\ step = "wait" /\ step' = "status"
            /\ UNCHANGED <<vars, turn, teller, verdict>>
        BY <3>1 DEF Hear
      <4>2. c \in {0, 200, 403, 423, 500} /\ v \in Verdict \cup {"none"}
        BY <1>2, <2>1, GateReplies DEF G, IngestInv
      <4>3. c = 200 => v = draft[G].status
        OBVIOUS
      <4> HIDE DEF c, v
      <4> DEFINE coded == [noted EXCEPT ![turn].code = c]
      <4>4. /\ coded \in [DOMAIN Gate -> Note] /\ coded[turn].code = c
            /\ coded[turn].state = noted[turn].state
        BY <2>1, <4>2 DEF Note
      <4>5. noted' = [coded EXCEPT ![turn].status = v]
        BY <2>1, <4>1
      <4> HIDE DEF coded
      <4>6. /\ noted'[turn].code = c /\ noted'[turn].status = v /\ noted'[turn] \in Note
            /\ noted'[turn].state = noted[turn].state
        BY <2>1, <4>2, <4>4, <4>5 DEF Note
      <4>7. noted' = [noted EXCEPT ![turn] = noted'[turn]]
        BY <2>1, <4>1
      <4> QED
        BY <4>1, <4>3, <4>6, <4>7 DEF c
    <3>2. CASE HearNothing
      <4>1. /\ noted' = [noted EXCEPT ![turn].code = 503]
            /\ pc[G] = "lost" /\ step = "wait" /\ step' = "status"
            /\ UNCHANGED <<vars, turn, teller, verdict>>
        BY <3>2 DEF HearNothing
      <4>2. /\ noted'[turn].code = 503 /\ noted'[turn] \in Note
            /\ noted'[turn].state = noted[turn].state
            /\ noted' = [noted EXCEPT ![turn] = noted'[turn]]
        BY <2>1, <4>1 DEF Note
      <4> QED
        BY <4>1, <4>2
    <3> QED
      BY <1>6, <3>1, <3>2
  <2>3. GateStage'
    BY <2>1, <2>2 DEF GateInv, GateStage
  <2>4. UNCHANGED <<pc, reply, draft>>
    BY <2>2 DEF vars
  <2>5. \A k \in DOMAIN Gate : k # turn => noted'[k] = noted[k]
    BY <2>1, <2>2
  <2>6. \A k \in DOMAIN Gate : Heard(k) => Heard(k)'
    BY <1>b, <2>2
  <2>7. \A k \in DOMAIN Gate : noted'[k].state = "active" => Heard(k)'
    BY <2>2, <2>5, <2>6 DEF GateInv
  <2>8. verdict' # "passed" /\ G' = G /\ pc'[G'] \in {"done", "lost"}
    BY <2>2, <2>4 DEF GateInv, G
  <2> QED
    BY <1>2, <2>1, <2>2, <2>3, <2>4, <2>5, <2>7, <2>8 DEF GateInv, G
<1>7. ASSUME NEW i \in Instances, ReadStatus(i) PROVE GateInv'
  <2> DEFINE t == Tenant(G)
             st == IF HasContract(t) THEN workspace[i][t] ELSE "none"
  <2>1. /\ turn \in DOMAIN Gate /\ noted \in [DOMAIN Gate -> Note]
        /\ turn' = IF turn = Len(Gate) THEN turn ELSE turn + 1
        /\ step = "status" /\ step' \in {"report", "attest"}
        /\ UNCHANGED <<verdict, pc, reply, draft, inst, call, attestations>>
        /\ noted' = [noted EXCEPT ![turn].state = st]
        /\ teller \in [DOMAIN Gate -> Instances] /\ teller' = [teller EXCEPT ![turn] = i]
    BY <1>7 DEF ReadStatus, LastToken, GateInv, GateStage, vars
  <2>2. st \in {"active", "quarantined", "none"}
    BY DEF TypeInv, TypeOK, ControlTypeOK, HasContract
  <2> HIDE DEF st
  <2>3. turn' \in DOMAIN Gate
    BY <2>1, GateTokens
  <2>4. /\ noted' \in [DOMAIN Gate -> Note]
        /\ \A k \in DOMAIN Gate : noted'[k].code = noted[k].code /\ noted'[k].status = noted[k].status
        /\ noted'[turn].state = st
        /\ \A k \in DOMAIN Gate : k # turn => noted'[k] = noted[k] /\ teller'[k] = teller[k]
        /\ teller'[turn] = i /\ teller' \in [DOMAIN Gate -> Instances]
    BY <2>1, <2>2 DEF Note
  <2>5. GateStage'
    BY <2>1, <2>3, <2>4 DEF GateInv, GateStage
  <2>6. ASSUME NEW k \in DOMAIN Gate, k = turn, st = "active" PROVE Heard(k)'
    <3>1. /\ Gate[k] \in Requests /\ inst[Gate[k]] \in Instances
          /\ pc[Gate[k]] \in {"done", "lost"} /\ Tenant(Gate[k]) \in Contracted
          /\ ~Quarantined(i, Tenant(Gate[k]))
      BY <1>2, <2>1, <2>6, CallTypes DEF GateInv, G, st, HasContract, Quarantined
    <3>2. i = inst[Gate[k]] => Untroubled(inst[Gate[k]], Gate[k])
      BY <3>1, ActiveIsUntroubled
    <3>3. UNCHANGED <<attestations, call, inst, pc>>
      BY <2>1
    <3>4. /\ Untroubled(inst[Gate[k]], Gate[k])' = Untroubled(inst[Gate[k]], Gate[k])
          /\ Tenant(Gate[k])' = Tenant(Gate[k])
      BY <3>3 DEF Untroubled, Tenant
    <3> QED
      BY <2>4, <2>6, <3>1, <3>2, <3>3, <3>4 DEF Heard
  <2>7. \A k \in DOMAIN Gate : noted'[k].state = "active" => Heard(k)'
    BY <1>b, <2>4, <2>6 DEF GateInv
  <2>8. verdict' # "passed" /\ step' # "status"
    BY <2>1 DEF GateInv
  <2> QED
    BY <1>2, <2>1, <2>4, <2>5, <2>7, <2>8 DEF GateInv
<1>8. CASE Report
  BY <1>4, <1>8 DEF Report
<1>9. CASE GiveUp
  BY <1>4, <1>9 DEF GiveUp
<1> QED
  BY <1>5, <1>6, <1>7, <1>8, <1>9 DEF GateNext, GateStep

ClientInv == TypeInv /\ IngestInv /\ AttestInv /\ DraftBacked /\ KnownOK

LEMMA ClientStart == Init => ClientInv
<1>1. Init => DraftBacked
  BY DEF Init, DraftBacked
<1>2. Init => KnownOK
  BY DEF Init, ControlInit, FreshLedger, KnownOK
<1> QED
  BY <1>1, <1>2, TypeInit, IngestInit, ProbeInvInit DEF ClientInv

LEMMA ClientStep == ClientInv /\ [Next]_vars => ClientInv'
BY TypeStep, IngestStep, ProbeInvStep, DraftStep, KnownStep
   DEF ClientInv, IngestInv, AttestInv, QuarantineInv

LEMMA GateInvariant == GateSpec => Spec /\ [](ClientInv /\ GateInv)
<1>1. GateInit => Init
  BY DEF GateInit
<1>2. GateInv => GateStage
  BY DEF GateInv
<1>3. ClientInv => TypeInv /\ IngestInv /\ QuarantineInv /\ KnownOK
  BY DEF ClientInv, AttestInv
<1> QED
  BY <1>1, <1>2, <1>3, GateStart, GateInvStep, GateIsClient, ClientStart, ClientStep, PTL
     DEF GateSpec, Spec

\* To the service the gate is a client: every behaviour beside it is one of TenantVault,
\* so its theorems hold while a release is verified, and those of the control plane
\* that the gate reads.
THEOREM GateChangesNothing ==
  GateSpec => Spec /\ []QuarantineIffFailed /\ []AttestationBackedByProbe
BY GateInvariant, QuarantineExact, AttestationsAreBacked, PTL

\* The gate stays within its tokens and notes only the codes the service can answer an
\* attestation with.
THEOREM GateTypes == GateSpec => []GateTypeOK
<1>1. ClientInv /\ GateInv => GateTypeOK
  BY DEF ClientInv, TypeInv, GateInv, GateStage, GateTypeOK
<1> QED
  BY <1>1, GateInvariant, PTL

\* Whatever runs beside it, fails, restarts or times out: a gate that passed has had an
\* attestation of its own of every tenant run to its end, on hits without a canary, and
\* its event is on the audit ledger; and if the process that ran it told the status as
\* well, that process had no failed attestation by the time it filed the record.
THEOREM PassRestsOnAttestations == GateSpec => []PassedMeansAttested
<1>1. ClientInv /\ GateInv => PassedMeansAttested
  <2> SUFFICES ASSUME ClientInv, GateInv, verdict = "passed", NEW k \in DOMAIN Gate
               PROVE  LET g == Gate[k] IN
                 /\ pc[g] = "done" /\ reply[g].status = 200 /\ draft[g].status = "passed"
                 /\ ~Leaked(g)
                 /\ \E e \in DOMAIN events : events[e].hash = g /\ events[e].tenant = Tenant(g)
                 /\ teller[k] = inst[g] => Untroubled(inst[g], g)
    BY DEF PassedMeansAttested
  <2>1. /\ Gate[k] \in Requests /\ Kind(Gate[k]) = "attest"
        /\ pc[Gate[k]] = "done" /\ reply[Gate[k]].status = 200
        /\ draft[Gate[k]].status = "passed" /\ Heard(k)
    BY GateTokens DEF GateInv
  <2>2. ~Leaked(Gate[k])
    BY <2>1 DEF ClientInv, DraftBacked
  <2>3. EventOK(Gate[k])
    BY <2>1 DEF ClientInv, AttestInv, ReceiptInv, ReceiptOK, Answered, Retrieval
  <2> QED
    BY <2>1, <2>2, <2>3 DEF EventOK, Heard
<1> QED
  BY <1>1, GateInvariant, PTL
=============================================================================
