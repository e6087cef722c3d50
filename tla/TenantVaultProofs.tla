------------------------- MODULE TenantVaultProofs -------------------------
(***************************************************************************)
(* Theorems about TenantVault for every number of tenants, processes and   *)
(* requests, every set of calls, every key root and every clock skew.      *)
(***************************************************************************)
EXTENDS TenantVault, FiniteSetTheorems, FunctionTheorems, TLAPS

\* The stages after both authorizations.
Admitted == {"insert", "search", "head", "stamp", "append", "reply", "count", "judge",
             "record", "file"}

\* A row set stays finite, so its size is a number.
FiniteRows ==
  /\ IsFiniteSet(documents)
  /\ \A r \in Requests : IsFiniteSet(found[r].hits)

\* A draft that is being signed has a verdict.
DraftOK == \A r \in Requests : pc[r] \in {"record", "file"} => draft[r].status \in Verdict

TypeInv == TypeOK /\ FiniteRows /\ DraftOK

USE DEF storeVars, controlVars, handlerVars

LEMMA CountIsNat == ASSUME FiniteRows, NEW t PROVE CountDocuments(t) \in Nat
BY FS_Subset, FS_CardinalityType DEF FiniteRows, CountDocuments, Visible

LEMMA RankedRows ==
  ASSUME TypeInv, NEW t, NEW q, NEW k, NEW rows \in Ranked(t, q, k)
  PROVE /\ rows \in SUBSET DocumentRow
        /\ IsFiniteSet(rows)
        /\ rows \in SUBSET Visible(t)
BY FS_Subset DEF TypeInv, TypeOK, StoreTypeOK, FiniteRows, Ranked, Visible

LEMMA HeadsAreHashes == ASSUME TypeInv, NEW t PROVE Heads(t) \subseteq Hashes
<1>1. \A k \in DOMAIN events : events[k] \in EventRow
  BY DEF TypeInv, TypeOK, StoreTypeOK
<1>2. \A k \in VisibleEvents(t) : events[k].hash \in Requests
  BY <1>1 DEF VisibleEvents, EventRow
<1> QED
  BY <1>2 DEF Heads, Hashes

LEMMA CallTypes ==
  ASSUME TypeInv, NEW r \in Requests
  PROVE /\ call[r] \in Calls
        /\ call[r] \in Call
        /\ Tenant(r) \in Tenants
        /\ inst[r] \in Instances
        /\ Kind(r) \in Kinds
        /\ TopK(r) \in 1..10
BY WorkloadAssumption DEF TypeInv, TypeOK, HandlerTypeOK, Call, Kind, Tenant, TopK

LEMMA TypeInit == Init => TypeInv
<1> SUFFICES ASSUME Init PROVE TypeInv
  OBVIOUS
<1>1. StoreTypeOK
  BY DEF Init, StoreInit, StoreTypeOK
<1>2. ControlTypeOK
  BY DEF Init, ControlInit, ControlTypeOK, FreshWorkspace, FreshLedger
<1>3. HandlerTypeOK
  BY DEF Init, HandlerTypeOK, Stages, Found, Link, Draft, Reply, Hashes
<1>4. FiniteRows
  BY FS_EmptySet DEF Init, StoreInit, FiniteRows
<1>5. DraftOK
  BY DEF Init, DraftOK
<1> QED
  BY <1>1, <1>2, <1>3, <1>4, <1>5 DEF TypeInv, TypeOK
-----------------------------------------------------------------------------
LEMMA GotoTypes ==
  ASSUME TypeInv, NEW r \in Requests, NEW from, NEW to \in Stages, Goto(r, from, to)
  PROVE  /\ pc' \in [Requests -> Stages]
         /\ pc'[r] = to
         /\ \A s \in Requests : s # r => pc'[s] = pc[s]
BY DEF TypeInv, TypeOK, HandlerTypeOK, Goto

LEMMA RespondTypes ==
  ASSUME TypeInv, NEW r \in Requests, NEW from,
         NEW status \in {0, 200, 201, 403, 423, 500},
         NEW cause \in {"none", "contract", "quarantine", "scope", "duplicate",
                        "undecryptable", "database"},
         Respond(r, from, status, cause)
  PROVE  HandlerTypeOK' /\ DraftOK' /\ UNCHANGED found
<1>1. Goto(r, from, "done")
  BY DEF Respond
<1>2. /\ pc' \in [Requests -> Stages]
      /\ pc'[r] = "done"
      /\ \A s \in Requests : s # r => pc'[s] = pc[s]
  BY <1>1, GotoTypes DEF Stages
<1>3. reply' \in [Requests -> Reply]
  BY DEF Respond, TypeInv, TypeOK, HandlerTypeOK, Reply
<1>4. UNCHANGED <<call, inst, found, link, draft>>
  BY DEF Respond
<1>5. DraftOK'
  BY <1>2, <1>4 DEF DraftOK, TypeInv
<1> QED
  BY <1>2, <1>3, <1>4, <1>5 DEF TypeInv, TypeOK, HandlerTypeOK

\* A step that leaves the store, the control plane and the hits alone has only
\* the handlers' own state to keep in type.
LEMMA QuietTypes ==
  ASSUME TypeInv, NothingStored, UNCHANGED found, HandlerTypeOK', DraftOK'
  PROVE  TypeInv'
BY DEF TypeInv, TypeOK, NothingStored, StoreTypeOK, ControlTypeOK, FiniteRows, DocumentRow,
       EventRow, Keys, Visible

LEMMA ReadTypes ==
  ASSUME TypeInv, ReadOnly, UNCHANGED controlVars, UNCHANGED found, HandlerTypeOK', DraftOK'
  PROVE  TypeInv'
<1>1. StoreTypeOK'
  BY DEF TypeInv, TypeOK, StoreTypeOK, ReadOnly
<1>2. ControlTypeOK'
  BY DEF TypeInv, TypeOK, ControlTypeOK
<1>3. FiniteRows'
  BY DEF TypeInv, FiniteRows, ReadOnly
<1> QED
  BY <1>1, <1>2, <1>3 DEF TypeInv, TypeOK

LEMMA AuthorizingTypes ==
  ASSUME TypeInv, NEW r \in Requests,
         \/ Receive(r) \/ Authorize(r) \/ RefuseUncontracted(r) \/ RefuseQuarantined(r)
         \/ RefuseForbidden(r) \/ RefuseWrite(r) \/ Created(r) \/ Raise(r)
  PROVE  TypeInv'
<1>1. CASE Receive(r)
  <2> DEFINE to == IF Kind(r) = "attest" THEN "attest" ELSE "authorize"
  <2>1. to \in Stages /\ to \notin {"record", "file"}
    BY DEF Stages, Running
  <2>2. Goto(r, "idle", to)
    BY <1>1 DEF Receive
  <2> HIDE DEF to
  <2>3. HandlerTypeOK' /\ DraftOK'
    BY <1>1, <2>1, <2>2, GotoTypes DEF Receive, HandlerTypeOK, DraftOK, TypeInv, TypeOK
  <2> QED
    BY <1>1, <2>3, QuietTypes DEF Receive
<1>2. CASE Authorize(r)
  <2> DEFINE to == CASE pc[r] = "attest" -> "authorize"
                     [] pc[r] = "authorize" /\ Kind(r) = "ingest" -> "insert"
                     [] OTHER -> "search"
  <2>1. to \in Stages /\ to \notin {"record", "file"}
    <3>1. to = "authorize" \/ to = "insert" \/ to = "search"
      OBVIOUS
    <3> QED
      BY <3>1 DEF Stages, Running
  <2>2. Goto(r, pc[r], to)
    BY <1>2 DEF Authorize
  <2> HIDE DEF to
  <2>3. HandlerTypeOK' /\ DraftOK'
    BY <1>2, <2>1, <2>2, GotoTypes DEF Authorize, HandlerTypeOK, DraftOK, TypeInv, TypeOK
  <2> QED
    BY <1>2, <2>3, QuietTypes DEF Authorize
<1>3. CASE RefuseUncontracted(r)
  BY <1>3, RespondTypes, QuietTypes DEF RefuseUncontracted
<1>4. CASE RefuseQuarantined(r)
  <2> DEFINE status == IF Kind(r) \in {"query", "attest"} THEN 423 ELSE 403
  <2>1. Respond(r, pc[r], status, "quarantine") /\ NothingStored
    BY <1>4 DEF RefuseQuarantined
  <2>2. status \in {0, 200, 201, 403, 423, 500}
    OBVIOUS
  <2> HIDE DEF status
  <2> QED
    BY <2>1, <2>2, RespondTypes, QuietTypes
<1>5. CASE RefuseForbidden(r)
  BY <1>5, RespondTypes, QuietTypes DEF RefuseForbidden
<1>6. CASE RefuseWrite(r)
  BY <1>6, RespondTypes, QuietTypes DEF RefuseWrite
<1>7. CASE Created(r)
  BY <1>7, RespondTypes, QuietTypes DEF Created
<1>8. CASE Raise(r)
  BY <1>8, RespondTypes, QuietTypes DEF Raise
<1> QED
  BY <1>1, <1>2, <1>3, <1>4, <1>5, <1>6, <1>7, <1>8
LEMMA DocumentTypes ==
  ASSUME TypeInv, NEW r \in Requests,
         \/ StoreDocument(r) \/ RejectDuplicate(r) \/ Search(r) \/ SearchUndecryptable(r)
  PROVE  TypeInv'
<1>0. inst[r] \in Instances /\ Tenant(r) \in Tenants /\ call[r] \in Call
  BY CallTypes
<1>1. CASE StoreDocument(r)
  <2> DEFINE row == [tenant |-> Tenant(r), content |-> call[r].content,
                     key |-> Key(inst[r], Tenant(r))]
  <2>1. row \in DocumentRow
    BY <1>0 DEF DocumentRow, Key, Keys, Call
  <2>2. documents' = documents \cup {row} /\ now' = now + 1 /\ UNCHANGED events
    BY <1>1 DEF StoreDocument, InsertDocument
  <2> HIDE DEF row
  <2>3. StoreTypeOK'
    BY <2>1, <2>2 DEF TypeInv, TypeOK, StoreTypeOK
  <2>4. IsFiniteSet(documents')
    BY <2>2, FS_AddElement DEF TypeInv, FiniteRows
  <2>5. UNCHANGED <<controlVars, call, inst, found, link, draft, reply>> /\ Goto(r, "insert", "head")
    BY <1>1 DEF StoreDocument
  <2>6. HandlerTypeOK' /\ DraftOK'
    BY <2>5, GotoTypes DEF HandlerTypeOK, DraftOK, TypeInv, TypeOK, Stages, Running
  <2>7. ControlTypeOK'
    BY <2>5 DEF TypeInv, TypeOK, ControlTypeOK
  <2> QED
    BY <2>3, <2>4, <2>5, <2>6, <2>7 DEF TypeInv, TypeOK, FiniteRows
<1>2. CASE RejectDuplicate(r)
  BY <1>2, RespondTypes, ReadTypes DEF RejectDuplicate
<1>3. CASE Search(r)
  <2>1. PICK rows \in Ranked(Tenant(r), Question(r), TopK(r)) :
          found' = [found EXCEPT ![r] = [hits |-> rows, corpus |-> CountDocuments(Tenant(r)),
                                         count |-> 0]]
    BY <1>3 DEF Search
  <2>2. rows \in SUBSET DocumentRow /\ IsFiniteSet(rows)
    BY RankedRows
  <2>3. CountDocuments(Tenant(r)) \in Nat
    BY CountIsNat DEF TypeInv
  <2>4. found' \in [Requests -> Found]
    BY <2>1, <2>2, <2>3 DEF TypeInv, TypeOK, HandlerTypeOK, Found
  <2>5. \A s \in Requests : IsFiniteSet(found'[s].hits)
    BY <2>1, <2>2 DEF TypeInv, TypeOK, HandlerTypeOK, FiniteRows
  <2>6. /\ Goto(r, "search", "head") /\ ReadOnly
        /\ UNCHANGED <<controlVars, call, inst, link, draft, reply>>
    BY <1>3 DEF Search
  <2>7. HandlerTypeOK' /\ DraftOK'
    BY <2>4, <2>6, GotoTypes DEF HandlerTypeOK, DraftOK, TypeInv, TypeOK, Stages, Running
  <2>8. StoreTypeOK' /\ ControlTypeOK'
    BY <2>6 DEF TypeInv, TypeOK, StoreTypeOK, ControlTypeOK, ReadOnly
  <2> QED
    BY <2>5, <2>6, <2>7, <2>8 DEF TypeInv, TypeOK, FiniteRows, ReadOnly
<1>4. CASE SearchUndecryptable(r)
  BY <1>4, RespondTypes, ReadTypes DEF SearchUndecryptable
<1> QED
  BY <1>1, <1>2, <1>3, <1>4

LEMMA LedgerTypes ==
  ASSUME TypeInv, NEW r \in Requests, ReadHead(r) \/ Stamp(r) \/ AppendEvent(r)
  PROVE  TypeInv'
<1>0. inst[r] \in Instances /\ Tenant(r) \in Tenants
  BY CallTypes
<1>1. CASE ReadHead(r)
  <2>1. PICK h \in Heads(Tenant(r)) : link' = [link EXCEPT ![r].prev = h]
    BY <1>1 DEF ReadHead
  <2>2. h \in Hashes
    BY HeadsAreHashes
  <2>3. link' \in [Requests -> Link]
    BY <2>1, <2>2 DEF TypeInv, TypeOK, HandlerTypeOK, Link
  <2>4. /\ Goto(r, "head", "stamp") /\ ReadOnly
        /\ UNCHANGED <<controlVars, call, inst, found, draft, reply>>
    BY <1>1 DEF ReadHead
  <2>5. HandlerTypeOK' /\ DraftOK'
    BY <2>3, <2>4, GotoTypes DEF HandlerTypeOK, DraftOK, TypeInv, TypeOK, Stages, Running
  <2> QED
    BY <2>4, <2>5, ReadTypes
<1>2. CASE Stamp(r)
  <2>1. Clock(inst[r]) \in Int
    BY <1>0, StoreAssumption DEF Clock, TypeInv, TypeOK, StoreTypeOK
  <2>2. link' \in [Requests -> Link]
    BY <1>2, <2>1 DEF Stamp, TypeInv, TypeOK, HandlerTypeOK, Link
  <2>3. /\ Goto(r, "stamp", "append") /\ NothingStored
        /\ UNCHANGED <<call, inst, found, draft, reply>>
    BY <1>2 DEF Stamp
  <2>4. HandlerTypeOK' /\ DraftOK'
    BY <2>2, <2>3, GotoTypes DEF HandlerTypeOK, DraftOK, TypeInv, TypeOK, Stages, Running
  <2> QED
    BY <2>3, <2>4, QuietTypes
<1>3. CASE AppendEvent(r)
  <2>1. Cardinality(found[r].hits) \in Nat
    BY FS_CardinalityType DEF TypeInv, FiniteRows
  <2>2. Event(r) \in EventRow
    BY <1>0, <2>1 DEF Event, EventRow, Actions, TypeInv, TypeOK, HandlerTypeOK, Link
  <2>3. events' = Append(events, Event(r)) /\ now' = now + 1 /\ UNCHANGED documents
    BY <1>3 DEF AppendEvent, InsertEvent
  <2>4. StoreTypeOK'
    BY <2>2, <2>3 DEF TypeInv, TypeOK, StoreTypeOK
  <2> DEFINE to == IF Kind(r) = "ingest" THEN "reply" ELSE "count"
  <2>5. to \in Stages /\ to \notin {"record", "file"}
    BY DEF Stages, Running
  <2>6. /\ Goto(r, "append", to)
        /\ UNCHANGED <<controlVars, call, inst, found, link, draft, reply>>
    BY <1>3 DEF AppendEvent
  <2> HIDE DEF to
  <2>7. HandlerTypeOK' /\ DraftOK'
    BY <2>5, <2>6, GotoTypes DEF HandlerTypeOK, DraftOK, TypeInv, TypeOK
  <2>8. ControlTypeOK' /\ FiniteRows'
    BY <2>3, <2>6 DEF TypeInv, TypeOK, ControlTypeOK, FiniteRows
  <2> QED
    BY <2>4, <2>7, <2>8 DEF TypeInv, TypeOK
<1> QED
  BY <1>1, <1>2, <1>3

LEMMA CountTypes ==
  ASSUME TypeInv, NEW r \in Requests, NEW to \in Stages \ {"record", "file"},
         NEW status \in {0, 200}, CountAnd(r, to, status)
  PROVE  TypeInv'
<1>1. CountDocuments(Tenant(r)) \in Nat
  BY CountIsNat DEF TypeInv
<1>2. /\ Goto(r, "count", to) /\ ReadOnly
      /\ found' = [found EXCEPT ![r].count = CountDocuments(Tenant(r))]
      /\ reply' = [reply EXCEPT ![r].status = status]
      /\ UNCHANGED <<controlVars, call, inst, link, draft>>
  BY DEF CountAnd
<1>3. found' \in [Requests -> Found]
  BY <1>1, <1>2 DEF TypeInv, TypeOK, HandlerTypeOK, Found
<1>4. reply' \in [Requests -> Reply]
  BY <1>2 DEF TypeInv, TypeOK, HandlerTypeOK, Reply
<1>5. \A s \in Requests : found'[s].hits = found[s].hits
  BY <1>2 DEF TypeInv, TypeOK, HandlerTypeOK, Found
<1>6. FiniteRows'
  BY <1>2, <1>5 DEF FiniteRows, TypeInv, ReadOnly
<1>7. HandlerTypeOK' /\ DraftOK'
  BY <1>2, <1>3, <1>4, GotoTypes DEF HandlerTypeOK, DraftOK, TypeInv, TypeOK
<1>8. StoreTypeOK' /\ ControlTypeOK'
  BY <1>2 DEF TypeInv, TypeOK, StoreTypeOK, ControlTypeOK, ReadOnly
<1> QED
  BY <1>6, <1>7, <1>8 DEF TypeInv, TypeOK

LEMMA AttestTypes ==
  ASSUME TypeInv, NEW r \in Requests,
         \/ Answer(r) \/ FinishProbe(r) \/ Judge(r) \/ SignRecord(r) \/ FileRecord(r)
  PROVE  TypeInv'
<1>0. inst[r] \in Instances /\ Tenant(r) \in Tenants
  BY CallTypes
<1>1. CASE Answer(r)
  <2>1. CountAnd(r, "done", 200)
    BY <1>1 DEF Answer
  <2> QED
    BY <2>1, CountTypes DEF Stages, Running
<1>2. CASE FinishProbe(r)
  <2>1. CountAnd(r, "judge", 0)
    BY <1>2 DEF FinishProbe
  <2> QED
    BY <2>1, CountTypes DEF Stages, Running
<1>3. CASE Judge(r)
  <2>1. PICK verdict \in Verdict : /\ Conclude(inst[r], Tenant(r), verdict)
                                   /\ draft' = [draft EXCEPT ![r].status = verdict]
    BY <1>3 DEF Judge, Verdict
  <2>2. /\ Goto(r, "judge", "record")
        /\ UNCHANGED <<storeVars, call, inst, found, link, reply>>
    BY <1>3 DEF Judge
  <2>3. ControlTypeOK'
    BY <2>1 DEF Conclude, ControlTypeOK, TypeInv, TypeOK
  <2>4. draft' \in [Requests -> Draft] /\ draft'[r].status = verdict
    BY <2>1 DEF TypeInv, TypeOK, HandlerTypeOK, Draft
  <2>5. \A s \in Requests : s # r => draft'[s] = draft[s]
    BY <2>1 DEF TypeInv, TypeOK, HandlerTypeOK, Draft
  <2>6. HandlerTypeOK' /\ DraftOK'
    BY <2>2, <2>4, <2>5, GotoTypes DEF HandlerTypeOK, DraftOK, TypeInv, TypeOK, Stages, Running
  <2>7. StoreTypeOK' /\ FiniteRows'
    BY <2>2 DEF TypeInv, TypeOK, StoreTypeOK, FiniteRows
  <2> QED
    BY <2>3, <2>6, <2>7 DEF TypeInv, TypeOK
<1>4. CASE SignRecord(r)
  <2>1. /\ draft' = [draft EXCEPT ![r].quarantined = Quarantined(inst[r], Tenant(r))]
        /\ Goto(r, "record", "file") /\ NothingStored
        /\ UNCHANGED <<call, inst, found, link, reply>>
    BY <1>4 DEF SignRecord
  <2>2. Quarantined(inst[r], Tenant(r)) \in BOOLEAN
    BY DEF Quarantined
  <2>3. draft' \in [Requests -> Draft] /\ \A s \in Requests : draft'[s].status = draft[s].status
    BY <2>1, <2>2 DEF TypeInv, TypeOK, HandlerTypeOK, Draft
  <2>4. pc[r] = "record"
    BY <2>1 DEF Goto
  <2>5. HandlerTypeOK' /\ DraftOK'
    BY <2>1, <2>3, <2>4, GotoTypes DEF HandlerTypeOK, DraftOK, TypeInv, TypeOK, Stages, Running
  <2> QED
    BY <2>1, <2>5, QuietTypes
<1>5. CASE FileRecord(r)
  <2> DEFINE record == [probe |-> r, status |-> draft[r].status,
                        quarantined |-> draft[r].quarantined]
  <2>1. /\ Respond(r, "file", 200, "none")
        /\ attestations' = [attestations EXCEPT ![inst[r]][Tenant(r)] = Append(@, record)]
        /\ UNCHANGED <<workspace, storeVars>>
    BY <1>5 DEF FileRecord, File
  <2>2. pc[r] = "file"
    BY <2>1 DEF Respond, Goto
  <2>3. record \in Record
    BY <2>2 DEF Record, TypeInv, TypeOK, HandlerTypeOK, DraftOK, Draft
  <2> HIDE DEF record
  <2>4. attestations[inst[r]] \in [Contracted -> Seq(Record)]
    BY <1>0 DEF TypeInv, TypeOK, ControlTypeOK
  <2>5. [attestations[inst[r]] EXCEPT ![Tenant(r)] = Append(@, record)]
          \in [Contracted -> Seq(Record)]
    <3> DEFINE ledger == attestations[inst[r]]
    <3>1. \A t \in Contracted : Append(ledger[t], record) \in Seq(Record)
      BY <2>3, <2>4
    <3> DEFINE longer(t) == Append(ledger[t], record)
    <3>2. \A t \in Contracted : longer(t) \in Seq(Record)
      BY <3>1
    <3> HIDE DEF longer
    <3>3. [ledger EXCEPT ![Tenant(r)] = longer(Tenant(r))] \in [Contracted -> Seq(Record)]
      BY <2>4, <3>2
    <3> QED
      BY <3>3 DEF longer
  <2>6. ControlTypeOK'
    BY <1>0, <2>1, <2>5 DEF ControlTypeOK, TypeInv, TypeOK
  <2>7. HandlerTypeOK' /\ DraftOK' /\ UNCHANGED found
    BY <2>1, RespondTypes
  <2>8. StoreTypeOK' /\ FiniteRows'
    BY <2>1, <2>7 DEF TypeInv, TypeOK, StoreTypeOK, FiniteRows
  <2> QED
    BY <2>6, <2>7, <2>8 DEF TypeInv, TypeOK
<1> QED
  BY <1>1, <1>2, <1>3, <1>4, <1>5

LEMMA RestartTypes == ASSUME TypeInv, NEW i \in Instances, Restart(i) PROVE TypeInv'
<1>1. /\ pc' = [r \in Requests |-> IF r \in InFlight(i) THEN "lost" ELSE pc[r]]
      /\ Reload(i)
      /\ UNCHANGED <<storeVars, call, inst, found, link, draft, reply>>
  BY DEF Restart
<1>2. FreshWorkspace \in [Contracted -> {"active", "quarantined"}]
  BY DEF FreshWorkspace
<1>3. FreshLedger \in [Contracted -> Seq(Record)]
  BY DEF FreshLedger
<1>4. ControlTypeOK'
  BY <1>1, <1>2, <1>3 DEF Reload, ControlTypeOK, TypeInv, TypeOK
<1>5. HandlerTypeOK' /\ DraftOK'
  BY <1>1 DEF HandlerTypeOK, DraftOK, TypeInv, TypeOK, Stages
<1>6. StoreTypeOK' /\ FiniteRows'
  BY <1>1 DEF TypeInv, TypeOK, StoreTypeOK, FiniteRows
<1> QED
  BY <1>4, <1>5, <1>6 DEF TypeInv, TypeOK

LEMMA TypeStep == TypeInv /\ [Next]_vars => TypeInv'
<1> SUFFICES ASSUME TypeInv, [Next]_vars PROVE TypeInv'
  OBVIOUS
<1>1. CASE UNCHANGED vars
  BY <1>1 DEF vars, TypeInv, TypeOK, StoreTypeOK, ControlTypeOK, HandlerTypeOK, FiniteRows, DraftOK
<1>2. ASSUME NEW r \in Requests, Receive(r) \/ Proceed(r) \/ Raise(r) PROVE TypeInv'
  BY <1>2, AuthorizingTypes, DocumentTypes, LedgerTypes, AttestTypes DEF Proceed
<1>3. ASSUME NEW i \in Instances, Restart(i) PROVE TypeInv'
  BY <1>3, RestartTypes
<1> QED
  BY <1>1, <1>2, <1>3 DEF Next, Finished

\* Every variable stays in its type, whatever the deployment.
THEOREM TypeCorrect == Spec => []TypeOK
<1>1. TypeInv => TypeOK
  BY DEF TypeInv
<1> QED
  BY TypeInit, TypeStep, <1>1, PTL DEF Spec

-----------------------------------------------------------------------------
(***************************************************************************)
(* The hash chain.  Between ReadHead and AppendEvent the handler holds a   *)
(* previous_hash: it stays the hash of an event of its tenant because      *)
(* events are only ever added.                                             *)
(***************************************************************************)
Linking == {"stamp", "append"}

LinkOK ==
  \A r \in Requests : pc[r] \in Linking =>
    \/ link[r].prev = Genesis
    \/ \E j \in DOMAIN events : events[j].hash = link[r].prev /\ events[j].tenant = Tenant(r)

ChainInv == ChainWellFounded /\ LinkOK

\* Everything but the three steps of append_audit leaves the ledger alone.
LEMMA OffLedger ==
  ASSUME TypeInv, NEW r \in Requests,
         \/ Receive(r) \/ Authorize(r) \/ RefuseUncontracted(r) \/ RefuseQuarantined(r)
         \/ RefuseForbidden(r) \/ RefuseWrite(r) \/ StoreDocument(r) \/ RejectDuplicate(r)
         \/ Search(r) \/ SearchUndecryptable(r) \/ Created(r) \/ Answer(r) \/ FinishProbe(r)
         \/ Judge(r) \/ SignRecord(r) \/ FileRecord(r) \/ Raise(r)
  PROVE  /\ UNCHANGED <<events, link, call>>
         /\ \A s \in Requests : pc'[s] \in Linking => pc'[s] = pc[s]
<1>1. UNCHANGED <<events, link, call>>
  BY DEF Receive, Authorize, RefuseUncontracted, RefuseQuarantined, RefuseForbidden, RefuseWrite,
         StoreDocument, RejectDuplicate, Search, SearchUndecryptable, Created, Answer,
         FinishProbe, Judge, SignRecord, FileRecord, Raise, Respond, NothingStored, ReadOnly,
         InsertDocument, CountAnd
<1>2. PICK to \in Stages \ Linking : pc' = [pc EXCEPT ![r] = to]
  BY DEF Receive, Authorize, RefuseUncontracted, RefuseQuarantined, RefuseForbidden, RefuseWrite,
         StoreDocument, RejectDuplicate, Search, SearchUndecryptable, Created, Answer,
         FinishProbe, Judge, SignRecord, FileRecord, Raise, Respond, CountAnd, Goto, Linking,
         Stages, Running
<1> QED
  BY <1>1, <1>2 DEF TypeInv, TypeOK, HandlerTypeOK

LEMMA ChainKept ==
  ASSUME TypeInv, ChainInv, UNCHANGED <<events, link, call>>,
         \A s \in Requests : pc'[s] \in Linking => pc'[s] = pc[s]
  PROVE  ChainInv'
BY DEF ChainInv, ChainWellFounded, LinkOK, Tenant

LEMMA HeadsAreEvents ==
  ASSUME NEW t, NEW h \in Heads(t)
  PROVE  h = Genesis \/ \E j \in DOMAIN events : events[j].hash = h /\ events[j].tenant = t
BY DEF Heads, VisibleEvents

LEMMA ChainLinked == ASSUME TypeInv, ChainInv, NEW r \in Requests, ReadHead(r) PROVE ChainInv'
<1>1. PICK h \in Heads(Tenant(r)) : link' = [link EXCEPT ![r].prev = h]
  BY DEF ReadHead
<1>2. UNCHANGED <<events, call>> /\ pc' = [pc EXCEPT ![r] = "stamp"]
  BY DEF ReadHead, ReadOnly, Goto
<1>3. ChainWellFounded'
  BY <1>2 DEF ChainInv, ChainWellFounded
<1>4. ASSUME NEW s \in Requests, pc'[s] \in Linking
      PROVE  \/ link'[s].prev = Genesis
             \/ \E j \in DOMAIN events : events[j].hash = link'[s].prev /\ events[j].tenant = Tenant(s)
  <2>1. CASE s = r
    <3>1. link'[s].prev = h
      BY <1>1, <2>1 DEF TypeInv, TypeOK, HandlerTypeOK, Link
    <3> QED
      BY <2>1, <3>1, HeadsAreEvents
  <2>2. CASE s # r
    BY <1>1, <1>2, <1>4, <2>2 DEF ChainInv, LinkOK, TypeInv, TypeOK, HandlerTypeOK
  <2> QED
    BY <2>1, <2>2
<1>5. LinkOK'
  BY <1>2, <1>4 DEF LinkOK, Tenant
<1> QED
  BY <1>3, <1>5 DEF ChainInv

LEMMA ChainStamped == ASSUME TypeInv, ChainInv, NEW r \in Requests, Stamp(r) PROVE ChainInv'
<1>1. UNCHANGED <<events, call>> /\ pc[r] = "stamp" /\ pc' = [pc EXCEPT ![r] = "append"]
  BY DEF Stamp, NothingStored, Goto
<1>2. \A s \in Requests : link'[s].prev = link[s].prev
  BY DEF Stamp, TypeInv, TypeOK, HandlerTypeOK, Link
<1>3. \A s \in Requests : pc'[s] \in Linking => pc[s] \in Linking
  BY <1>1 DEF Linking, TypeInv, TypeOK, HandlerTypeOK
<1>4. LinkOK'
  BY <1>1, <1>2, <1>3 DEF ChainInv, LinkOK, Tenant
<1>5. ChainWellFounded'
  BY <1>1 DEF ChainInv, ChainWellFounded
<1> QED
  BY <1>4, <1>5 DEF ChainInv

LEMMA ChainAppended == ASSUME TypeInv, ChainInv, NEW r \in Requests, AppendEvent(r) PROVE ChainInv'
<1>1. /\ events' = Append(events, Event(r)) /\ UNCHANGED <<link, call>>
      /\ pc[r] = "append" /\ pc' = [pc EXCEPT ![r] = IF Kind(r) = "ingest" THEN "reply" ELSE "count"]
  BY DEF AppendEvent, InsertEvent, Goto
<1>2. events \in Seq(EventRow)
  BY DEF TypeInv, TypeOK, StoreTypeOK
<1>3. /\ Len(events) \in Nat
      /\ DOMAIN events = 1..Len(events)
      /\ DOMAIN events' = 1..(Len(events) + 1)
      /\ \A k \in DOMAIN events : events'[k] = events[k]
      /\ events'[Len(events) + 1] = Event(r)
  BY <1>1, <1>2
<1>4. Event(r).prev = link[r].prev /\ Event(r).tenant = Tenant(r)
  BY DEF Event
<1>5. \/ link[r].prev = Genesis
      \/ \E j \in DOMAIN events : events[j].hash = link[r].prev /\ events[j].tenant = Tenant(r)
  BY <1>1 DEF ChainInv, LinkOK, Linking
<1>6. ASSUME NEW k \in DOMAIN events'
      PROVE  \/ events'[k].prev = Genesis
             \/ \E j \in 1..(k - 1) : /\ events'[j].hash = events'[k].prev
                                      /\ events'[j].tenant = events'[k].tenant
  <2>1. CASE k \in DOMAIN events
    <3>1. \A j \in 1..(k - 1) : j \in DOMAIN events
      BY <1>3, <2>1
    <3>2. \/ events[k].prev = Genesis
          \/ \E j \in 1..(k - 1) : events[j].hash = events[k].prev /\ events[j].tenant = events[k].tenant
      BY <2>1 DEF ChainInv, ChainWellFounded
    <3> QED
      BY <1>3, <2>1, <3>1, <3>2
  <2>2. CASE k = Len(events) + 1
    <3>1. 1..(k - 1) = DOMAIN events
      BY <1>3, <2>2
    <3> QED
      BY <1>3, <1>4, <1>5, <2>2, <3>1
  <2> QED
    BY <1>3, <2>1, <2>2
<1>7. ChainWellFounded'
  BY <1>6 DEF ChainWellFounded
<1>8. ASSUME NEW s \in Requests, pc'[s] \in Linking
      PROVE  \/ link'[s].prev = Genesis
             \/ \E j \in DOMAIN events' : /\ events'[j].hash = link'[s].prev
                                          /\ events'[j].tenant = Tenant(s)
  <2>1. s # r /\ pc[s] \in Linking
    BY <1>1, <1>8 DEF Linking, TypeInv, TypeOK, HandlerTypeOK
  <2>2. \/ link[s].prev = Genesis
        \/ \E j \in DOMAIN events : events[j].hash = link[s].prev /\ events[j].tenant = Tenant(s)
    BY <2>1 DEF ChainInv, LinkOK
  <2>3. DOMAIN events \subseteq DOMAIN events'
    BY <1>3
  <2> QED
    BY <1>1, <1>3, <2>2, <2>3
<1>9. LinkOK'
  BY <1>1, <1>8 DEF LinkOK, Tenant
<1> QED
  BY <1>7, <1>9 DEF ChainInv

LEMMA ChainRestarted == ASSUME TypeInv, ChainInv, NEW i \in Instances, Restart(i) PROVE ChainInv'
<1>1. UNCHANGED <<events, link, call>>
  BY DEF Restart
<1>2. \A s \in Requests : pc'[s] \in Linking => pc'[s] = pc[s]
  BY DEF Restart, Linking
<1> QED
  BY <1>1, <1>2, ChainKept

LEMMA ChainStep == TypeInv /\ ChainInv /\ [Next]_vars => ChainInv'
<1> SUFFICES ASSUME TypeInv, ChainInv, [Next]_vars PROVE ChainInv'
  OBVIOUS
<1>1. CASE UNCHANGED vars
  BY <1>1, ChainKept DEF vars
<1>2. ASSUME NEW r \in Requests, Receive(r) \/ Proceed(r) \/ Raise(r) PROVE ChainInv'
  <2>1. CASE ReadHead(r)
    BY <2>1, ChainLinked
  <2>2. CASE Stamp(r)
    BY <2>2, ChainStamped
  <2>3. CASE AppendEvent(r)
    BY <2>3, ChainAppended
  <2>4. CASE ~(ReadHead(r) \/ Stamp(r) \/ AppendEvent(r))
    BY <1>2, <2>4, OffLedger, ChainKept DEF Proceed
  <2> QED
    BY <2>1, <2>2, <2>3, <2>4
<1>3. ASSUME NEW i \in Instances, Restart(i) PROVE ChainInv'
  BY <1>3, ChainRestarted
<1> QED
  BY <1>1, <1>2, <1>3 DEF Next, Finished

\* However handlers and processes interleave and however their clocks differ, the
\* links of every audit event lead back to the all-zero hash.
THEOREM ChainReachesGenesis == Spec => []ChainWellFounded
<1>1. Init => ChainInv
  BY DEF Init, StoreInit, ChainInv, ChainWellFounded, LinkOK, Linking
<1>2. ChainInv => ChainWellFounded
  BY DEF ChainInv
<1> QED
  BY TypeInit, TypeStep, ChainStep, <1>1, <1>2, PTL DEF Spec

-----------------------------------------------------------------------------
(***************************************************************************)
(* Quarantine.  A verdict reaches the state first and the ledger later, so *)
(* the invariant also speaks of the verdicts in between: who holds one was *)
(* admitted by a contract, and a failed one that has read the state back   *)
(* has read "quarantined".                                                 *)
(***************************************************************************)
Concluding == {"record", "file"}

AdmittedOK == \A r \in Requests : pc[r] \in Admitted => Tenant(r) \in Contracted

ReadBackOK ==
  \A r \in Requests : pc[r] = "file" /\ draft[r].status = "failed" => draft[r].quarantined

QuarantineInv == AdmittedOK /\ ReadBackOK /\ QuarantineIffFailed

LEMMA OffControlPlane ==
  ASSUME TypeInv, NEW r \in Requests,
         \/ Receive(r) \/ Authorize(r) \/ RefuseUncontracted(r) \/ RefuseQuarantined(r)
         \/ RefuseForbidden(r) \/ RefuseWrite(r) \/ StoreDocument(r) \/ RejectDuplicate(r)
         \/ Search(r) \/ SearchUndecryptable(r) \/ ReadHead(r) \/ Stamp(r) \/ AppendEvent(r)
         \/ Created(r) \/ Answer(r) \/ FinishProbe(r) \/ Raise(r)
  PROVE  /\ UNCHANGED <<workspace, attestations, draft, call, inst>>
         /\ \A s \in Requests : pc'[s] \in Concluding <=> pc[s] \in Concluding
         /\ \A s \in Requests : pc'[s] \in Concluding => pc'[s] = pc[s]
<1>1. UNCHANGED <<workspace, attestations, draft, call, inst>>
  BY DEF Receive, Authorize, RefuseUncontracted, RefuseQuarantined, RefuseForbidden, RefuseWrite,
         StoreDocument, RejectDuplicate, Search, SearchUndecryptable, ReadHead, Stamp, AppendEvent,
         Created, Answer, FinishProbe, Raise, Respond, NothingStored, CountAnd
<1>2. PICK to \in Stages \ Concluding : pc' = [pc EXCEPT ![r] = to]
  BY DEF Receive, Authorize, RefuseUncontracted, RefuseQuarantined, RefuseForbidden, RefuseWrite,
         StoreDocument, RejectDuplicate, Search, SearchUndecryptable, ReadHead, Stamp, AppendEvent,
         Created, Answer, FinishProbe, Raise, Respond, CountAnd, Goto, Concluding, Stages, Running
<1>3. pc[r] \notin Concluding
  BY DEF Receive, Authorize, Authorizing, RefuseUncontracted, RefuseQuarantined, RefuseForbidden,
         RefuseWrite, StoreDocument, RejectDuplicate, Search, SearchUndecryptable, ReadHead, Stamp,
         AppendEvent, Created, Answer, FinishProbe, Raise, Respond, CountAnd, Goto, Concluding
<1> QED
  BY <1>1, <1>2, <1>3 DEF TypeInv, TypeOK, HandlerTypeOK

LEMMA CallFixed ==
  ASSUME NEW r \in Requests, Receive(r) \/ Proceed(r) \/ Raise(r)
  PROVE  UNCHANGED call
BY DEF Proceed, Receive, Authorize, RefuseUncontracted, RefuseQuarantined, RefuseForbidden,
       RefuseWrite, StoreDocument, RejectDuplicate, Search, SearchUndecryptable, ReadHead, Stamp,
       AppendEvent, Created, Answer, FinishProbe, Judge, SignRecord, FileRecord, Raise, Respond,
       CountAnd

LEMMA AdmittedStep ==
  ASSUME TypeInv, AdmittedOK, NEW r \in Requests, Receive(r) \/ Proceed(r) \/ Raise(r)
  PROVE  AdmittedOK'
<1>1. UNCHANGED call
  BY CallFixed
<1>2. PICK to : pc' = [pc EXCEPT ![r] = to]
  BY DEF Proceed, Receive, Authorize, RefuseUncontracted, RefuseQuarantined, RefuseForbidden,
         RefuseWrite, StoreDocument, RejectDuplicate, Search, SearchUndecryptable, ReadHead, Stamp,
         AppendEvent, Created, Answer, FinishProbe, Judge, SignRecord, FileRecord, Raise, Respond,
         CountAnd, Goto
<1>3. pc'[r] \in Admitted => pc[r] \in Admitted \/ Tenant(r) \in Contracted
  <2>1. CASE Authorize(r)
    BY <2>1 DEF Authorize, HasContract
  <2>2. CASE Receive(r)
    BY <2>2 DEF Receive, Goto, Admitted, TypeInv, TypeOK, HandlerTypeOK
  <2>3. CASE RefuseUncontracted(r) \/ RefuseQuarantined(r) \/ RefuseForbidden(r)
    BY <2>3 DEF RefuseUncontracted, RefuseQuarantined, RefuseForbidden, Respond, Goto, Admitted,
                TypeInv, TypeOK, HandlerTypeOK
  <2>4. CASE ~(\/ Authorize(r) \/ Receive(r) \/ RefuseUncontracted(r) \/ RefuseQuarantined(r)
               \/ RefuseForbidden(r))
    BY <2>4 DEF Proceed, RefuseWrite, StoreDocument, RejectDuplicate, Search, SearchUndecryptable,
                ReadHead, Stamp, AppendEvent, Created, Answer, FinishProbe, Judge, SignRecord,
                FileRecord, Raise, Respond, CountAnd, Goto, Admitted
  <2> QED
    BY <2>1, <2>2, <2>3, <2>4
<1>4. \A s \in Requests : s # r => pc'[s] = pc[s]
  BY <1>2 DEF TypeInv, TypeOK, HandlerTypeOK
<1> QED
  BY <1>1, <1>3, <1>4 DEF AdmittedOK, Tenant

LEMMA QuarantineKept ==
  ASSUME TypeInv, QuarantineInv, AdmittedOK',
         UNCHANGED <<workspace, attestations, draft, call, inst>>,
         \A s \in Requests : pc'[s] \in Concluding <=> pc[s] \in Concluding,
         \A s \in Requests : pc'[s] \in Concluding => pc'[s] = pc[s]
  PROVE  QuarantineInv'
<1>1. \A i, t : Filed(i, t)' = Filed(i, t)
  BY DEF Filed
<1>2. \A i, t : Failing(i, t)' <=> Failing(i, t)
  BY DEF Failing, Tenant, Concluding
<1>3. \A i, t : Quarantined(i, t)' <=> Quarantined(i, t)
  BY DEF Quarantined
<1>4. QuarantineIffFailed'
  BY <1>1, <1>2, <1>3 DEF QuarantineInv, QuarantineIffFailed
<1>5. ReadBackOK'
  BY DEF QuarantineInv, ReadBackOK, Concluding
<1> QED
  BY <1>4, <1>5 DEF QuarantineInv

LEMMA QuarantineJudged ==
  ASSUME TypeInv, QuarantineInv, AdmittedOK', NEW r \in Requests, Judge(r)
  PROVE  QuarantineInv'
<1>1. PICK verdict \in Verdict : /\ Conclude(inst[r], Tenant(r), verdict)
                                 /\ draft' = [draft EXCEPT ![r].status = verdict]
  BY DEF Judge, Verdict
<1>2. /\ pc[r] = "judge" /\ pc' = [pc EXCEPT ![r] = "record"]
      /\ UNCHANGED <<call, inst>>
  BY DEF Judge, Goto
<1>3. UNCHANGED attestations
  BY <1>1 DEF Conclude
<1>4. /\ pc'[r] = "record" /\ draft'[r].status = verdict
      /\ \A s \in Requests : s # r => pc'[s] = pc[s] /\ draft'[s] = draft[s]
  BY <1>1, <1>2 DEF TypeInv, TypeOK, HandlerTypeOK, Draft
<1>5. inst[r] \in Instances /\ Tenant(r) \in Contracted
  BY <1>2, CallTypes DEF QuarantineInv, AdmittedOK, Admitted
<1>6. \A i, t : Filed(i, t)' = Filed(i, t)
  BY <1>3 DEF Filed
<1>7. ASSUME NEW i \in Instances, NEW t \in Contracted
      PROVE  Failing(i, t)' <=> \/ Failing(i, t)
                                \/ verdict = "failed" /\ i = inst[r] /\ t = Tenant(r)
  BY <1>2, <1>4 DEF Failing, Tenant
<1>8. ASSUME NEW i \in Instances, NEW t \in Contracted
      PROVE  Quarantined(i, t)' <=> \/ Quarantined(i, t)
                                    \/ verdict = "failed" /\ i = inst[r] /\ t = Tenant(r)
  BY <1>1, <1>5 DEF Conclude, Quarantined, TypeInv, TypeOK, ControlTypeOK
<1>9. QuarantineIffFailed'
  BY <1>6, <1>7, <1>8 DEF QuarantineInv, QuarantineIffFailed
<1>10. ReadBackOK'
  BY <1>4 DEF QuarantineInv, ReadBackOK
<1> QED
  BY <1>9, <1>10 DEF QuarantineInv

LEMMA QuarantineSigned ==
  ASSUME TypeInv, QuarantineInv, AdmittedOK', NEW r \in Requests, SignRecord(r)
  PROVE  QuarantineInv'
<1>1. /\ pc[r] = "record" /\ pc' = [pc EXCEPT ![r] = "file"]
      /\ draft' = [draft EXCEPT ![r].quarantined = Quarantined(inst[r], Tenant(r))]
      /\ UNCHANGED <<workspace, attestations, call, inst>>
  BY DEF SignRecord, Goto, NothingStored
<1>2. /\ pc'[r] = "file"
      /\ draft'[r].quarantined = Quarantined(inst[r], Tenant(r))
      /\ \A s \in Requests : draft'[s].status = draft[s].status
      /\ \A s \in Requests : s # r => pc'[s] = pc[s] /\ draft'[s] = draft[s]
  BY <1>1 DEF TypeInv, TypeOK, HandlerTypeOK, Draft
<1>3. inst[r] \in Instances /\ Tenant(r) \in Contracted
  BY <1>1, CallTypes DEF QuarantineInv, AdmittedOK, Admitted
<1>4. \A i, t : Filed(i, t)' = Filed(i, t)
  BY <1>1 DEF Filed
<1>5. \A i, t : Failing(i, t)' <=> Failing(i, t)
  BY <1>1, <1>2 DEF Failing, Tenant
<1>6. \A i, t : Quarantined(i, t)' <=> Quarantined(i, t)
  BY <1>1 DEF Quarantined
<1>7. QuarantineIffFailed'
  BY <1>4, <1>5, <1>6 DEF QuarantineInv, QuarantineIffFailed
<1>8. draft[r].status = "failed" => Quarantined(inst[r], Tenant(r))
  BY <1>1, <1>3 DEF QuarantineInv, QuarantineIffFailed, Failing
<1>9. ReadBackOK'
  BY <1>2, <1>8 DEF QuarantineInv, ReadBackOK
<1> QED
  BY <1>7, <1>9 DEF QuarantineInv

LEMMA QuarantineFiled ==
  ASSUME TypeInv, QuarantineInv, AdmittedOK', NEW r \in Requests, FileRecord(r)
  PROVE  QuarantineInv'
<1> DEFINE record == [probe |-> r, status |-> draft[r].status,
                      quarantined |-> draft[r].quarantined]
           here(i, t) == i = inst[r] /\ t = Tenant(r)
<1>1. /\ pc[r] = "file" /\ pc' = [pc EXCEPT ![r] = "done"]
      /\ attestations' = [attestations EXCEPT ![inst[r]][Tenant(r)] = Append(@, record)]
      /\ UNCHANGED <<workspace, draft, call, inst>>
  BY DEF FileRecord, File, Respond, Goto
<1>2. record.status = draft[r].status /\ record.quarantined = draft[r].quarantined
  OBVIOUS
<1> HIDE DEF record
<1>3. inst[r] \in Instances /\ Tenant(r) \in Contracted
  BY <1>1, CallTypes DEF QuarantineInv, AdmittedOK, Admitted
<1>4. attestations \in [Instances -> [Contracted -> Seq(Record)]]
  BY DEF TypeInv, TypeOK, ControlTypeOK
<1>5. ASSUME NEW i \in Instances, NEW t \in Contracted
      PROVE  Filed(i, t)' = Filed(i, t) \cup IF here(i, t) THEN {record} ELSE {}
  <2>1. CASE ~here(i, t)
    BY <1>1, <1>4, <2>1 DEF Filed
  <2>2. CASE here(i, t)
    <3>1. attestations'[i][t] = Append(attestations[i][t], record)
      BY <1>1, <1>3, <1>4, <2>2
    <3>2. attestations[i][t] \in Seq(Record)
      BY <1>4
    <3> DEFINE old == attestations[i][t]
               new == attestations'[i][t]
    <3>3. /\ Len(old) \in Nat /\ DOMAIN old = 1..Len(old)
          /\ DOMAIN new = 1..(Len(old) + 1)
          /\ \A k \in DOMAIN old : new[k] = old[k]
          /\ new[Len(old) + 1] = record
      BY <3>1, <3>2
    <3>4. {new[k] : k \in DOMAIN new} = {old[k] : k \in DOMAIN old} \cup {record}
      <4> HIDE DEF old, new
      <4>1. DOMAIN new = DOMAIN old \cup {Len(old) + 1}
        BY <3>3
      <4> QED
        BY <3>3, <4>1
    <3> QED
      BY <2>2, <3>4 DEF Filed
  <2> QED
    BY <2>1, <2>2
<1>6. \A s \in Requests : s # r => pc'[s] = pc[s]
  BY <1>1 DEF TypeInv, TypeOK, HandlerTypeOK
<1>7. pc'[r] = "done"
  BY <1>1 DEF TypeInv, TypeOK, HandlerTypeOK
<1>8. ASSUME NEW i \in Instances, NEW t \in Contracted
      PROVE  Failing(i, t) <=> Failing(i, t)' \/ (here(i, t) /\ record.status = "failed")
  BY <1>1, <1>2, <1>6, <1>7 DEF Failing, Tenant
<1>9. \A i, t : Quarantined(i, t)' <=> Quarantined(i, t)
  BY <1>1 DEF Quarantined
<1>10. record.status = "failed" => record.quarantined
  BY <1>1, <1>2 DEF QuarantineInv, ReadBackOK
<1>11. ASSUME NEW i \in Instances, NEW t \in Contracted
       PROVE  /\ Quarantined(i, t)' <=> (\/ Failing(i, t)'
                                         \/ \E a \in Filed(i, t)' : a.status = "failed")
              /\ \A a \in Filed(i, t)' : a.status = "failed" => a.quarantined
  <2> HIDE DEF here
  <2>1. /\ Quarantined(i, t) <=> (Failing(i, t) \/ \E a \in Filed(i, t) : a.status = "failed")
        /\ \A a \in Filed(i, t) : a.status = "failed" => a.quarantined
    BY DEF QuarantineInv, QuarantineIffFailed
  <2> QED
    BY <1>5, <1>8, <1>9, <1>10, <2>1
<1>12. QuarantineIffFailed'
  BY <1>11 DEF QuarantineIffFailed
<1>13. ReadBackOK'
  BY <1>1, <1>6, <1>7 DEF QuarantineInv, ReadBackOK
<1> QED
  BY <1>12, <1>13 DEF QuarantineInv

LEMMA QuarantineRestarted ==
  ASSUME TypeInv, QuarantineInv, NEW i \in Instances, Restart(i)
  PROVE  QuarantineInv'
<1>1. /\ pc' = [r \in Requests |-> IF r \in InFlight(i) THEN "lost" ELSE pc[r]]
      /\ workspace' = [workspace EXCEPT ![i] = FreshWorkspace]
      /\ attestations' = [attestations EXCEPT ![i] = FreshLedger]
      /\ UNCHANGED <<call, inst, draft>>
  BY DEF Restart, Reload
<1>2. AdmittedOK'
  BY <1>1 DEF QuarantineInv, AdmittedOK, Admitted, Tenant
<1>3. ReadBackOK'
  BY <1>1 DEF QuarantineInv, ReadBackOK
<1>4. ASSUME NEW j \in Instances, NEW t \in Contracted
      PROVE  /\ Quarantined(j, t)' <=> (\/ Failing(j, t)'
                                        \/ \E a \in Filed(j, t)' : a.status = "failed")
             /\ \A a \in Filed(j, t)' : a.status = "failed" => a.quarantined
  <2>1. CASE j = i
    <3>1. workspace'[j][t] = "active" /\ attestations'[j][t] = <<>>
      BY <1>1, <2>1 DEF FreshWorkspace, FreshLedger, TypeInv, TypeOK, ControlTypeOK
    <3>2. ~Quarantined(j, t)' /\ Filed(j, t)' = {}
      BY <3>1 DEF Quarantined, Filed
    <3>3. ~Failing(j, t)'
      BY <1>1, <2>1 DEF Failing, InFlight, Running, Tenant
    <3> QED
      BY <3>2, <3>3
  <2>2. CASE j # i
    <3>1. workspace'[j] = workspace[j] /\ attestations'[j] = attestations[j]
      BY <1>1, <2>2 DEF TypeInv, TypeOK, ControlTypeOK
    <3>2. (Quarantined(j, t)' <=> Quarantined(j, t)) /\ Filed(j, t)' = Filed(j, t)
      BY <3>1 DEF Quarantined, Filed
    <3>3. Failing(j, t)' <=> Failing(j, t)
      BY <1>1, <2>2 DEF Failing, InFlight, Running, Tenant
    <3> QED
      BY <3>2, <3>3 DEF QuarantineInv, QuarantineIffFailed
  <2> QED
    BY <2>1, <2>2
<1>5. QuarantineIffFailed'
  BY <1>4 DEF QuarantineIffFailed
<1> QED
  BY <1>2, <1>3, <1>5 DEF QuarantineInv

LEMMA QuarantineStep == TypeInv /\ QuarantineInv /\ [Next]_vars => QuarantineInv'
<1> SUFFICES ASSUME TypeInv, QuarantineInv, [Next]_vars PROVE QuarantineInv'
  OBVIOUS
<1>1. CASE UNCHANGED vars
  <2>1. AdmittedOK'
    BY <1>1 DEF vars, QuarantineInv, AdmittedOK, Tenant
  <2> QED
    BY <1>1, <2>1, QuarantineKept DEF vars
<1>2. ASSUME NEW r \in Requests, Receive(r) \/ Proceed(r) \/ Raise(r) PROVE QuarantineInv'
  <2>0. AdmittedOK'
    BY <1>2, AdmittedStep DEF QuarantineInv
  <2>1. CASE Judge(r)
    BY <2>0, <2>1, QuarantineJudged
  <2>2. CASE SignRecord(r)
    BY <2>0, <2>2, QuarantineSigned
  <2>3. CASE FileRecord(r)
    BY <2>0, <2>3, QuarantineFiled
  <2>4. CASE ~(Judge(r) \/ SignRecord(r) \/ FileRecord(r))
    BY <1>2, <2>0, <2>4, OffControlPlane, QuarantineKept DEF Proceed
  <2> QED
    BY <2>1, <2>2, <2>3, <2>4
<1>3. ASSUME NEW i \in Instances, Restart(i) PROVE QuarantineInv'
  BY <1>3, QuarantineRestarted
<1> QED
  BY <1>1, <1>2, <1>3 DEF Next, Finished

LEMMA QuarantineInit == Init => QuarantineInv
BY DEF Init, ControlInit, FreshWorkspace, FreshLedger, QuarantineInv, AdmittedOK, Admitted,
       ReadBackOK, QuarantineIffFailed, Quarantined, Failing, Filed

\* On every process, at every moment, with any number of attestations side by side:
\* quarantined exactly if an attestation failed there, and no failed record was
\* signed with "quarantined": false.
THEOREM QuarantineExact == Spec => []QuarantineIffFailed
<1>1. QuarantineInv => QuarantineIffFailed
  BY DEF QuarantineInv
<1> QED
  BY TypeInit, TypeStep, QuarantineInit, QuarantineStep, <1>1, PTL DEF Spec

-----------------------------------------------------------------------------
(***************************************************************************)
(* Receipts.  What ReceiptIsBacked says of an answer is built up stage by  *)
(* stage: the cap before the search, the hits and the corpus they were     *)
(* found in after it, the event after append_audit, the count last.  Each  *)
(* piece, once true, stays true, because documents and events are only     *)
(* added: later there can only be more to count.                           *)
(***************************************************************************)
Counted == {"judge", "record", "file"}

Audited == Counted \cup {"count"}

Searched == Audited \cup {"head", "stamp", "append"}

Answered(r) == reply[r].status = 200

HitsOK(r) ==
  /\ \A d \in found[r].hits : d \in documents /\ d.tenant = Tenant(r)
  /\ Cardinality(found[r].hits) <= Contracts[Tenant(r)].maxResults
  /\ Cardinality(found[r].hits) <= found[r].corpus
  /\ found[r].corpus <= CountDocuments(Tenant(r))

EventOK(r) ==
  \E k \in DOMAIN events :
    /\ events[k].hash = r
    /\ events[k].tenant = Tenant(r)
    /\ events[k].action = "retrieval.completed"
    /\ events[k].count = Cardinality(found[r].hits)

ReceiptOK(r) ==
  /\ pc[r] \in {"insert", "reply"} => ~Retrieval(r)
  /\ Answered(r) => pc[r] = "done"
  /\ Retrieval(r) =>
       /\ pc[r] = "search" => TopK(r) <= Contracts[Tenant(r)].maxResults
       /\ pc[r] \in Searched \/ Answered(r) => HitsOK(r)
       /\ pc[r] \in Audited \/ Answered(r) => EventOK(r)
       /\ pc[r] \in Counted \/ Answered(r) => found[r].corpus <= found[r].count

ReceiptInv == \A r \in Requests : ReceiptOK(r)

\* The tables only grow.
Growth ==
  /\ documents \subseteq documents'
  /\ DOMAIN events \subseteq DOMAIN events'
  /\ \A k \in DOMAIN events : events'[k] = events[k]

LEMMA TablesGrow ==
  ASSUME TypeInv, NEW r \in Requests, Receive(r) \/ Proceed(r) \/ Raise(r)
  PROVE  Growth
<1>1. CASE AppendEvent(r)
  <2>1. events' = Append(events, Event(r)) /\ UNCHANGED documents
    BY <1>1 DEF AppendEvent, InsertEvent
  <2>2. events \in Seq(EventRow)
    BY DEF TypeInv, TypeOK, StoreTypeOK
  <2> QED
    BY <2>1, <2>2 DEF Growth
<1>2. CASE StoreDocument(r)
  BY <1>2 DEF StoreDocument, InsertDocument, Growth
<1>3. CASE ~(AppendEvent(r) \/ StoreDocument(r))
  <2>1. UNCHANGED <<documents, events>>
    BY <1>3 DEF Proceed, Receive, Authorize, RefuseUncontracted, RefuseQuarantined,
         RefuseForbidden, RefuseWrite, RejectDuplicate, Search, SearchUndecryptable, ReadHead,
         Stamp, Created, Answer, FinishProbe, Judge, SignRecord, FileRecord, Raise, NothingStored,
         ReadOnly, CountAnd
  <2> QED
    BY <2>1 DEF Growth
<1> QED
  BY <1>1, <1>2, <1>3

\* There is more to count later, never less.
LEMMA CountGrows ==
  ASSUME TypeInv, TypeInv', Growth, NEW t
  PROVE  CountDocuments(t) \in Nat /\ CountDocuments(t)' \in Nat
         /\ CountDocuments(t) <= CountDocuments(t)'
<1>1. IsFiniteSet(Visible(t)') /\ Visible(t) \subseteq Visible(t)'
  BY FS_Subset DEF TypeInv, FiniteRows, Visible, Growth
<1>2. CountDocuments(t) \in Nat /\ CountDocuments(t)' \in Nat
  BY CountIsNat, FS_CardinalityType, <1>1 DEF TypeInv, CountDocuments
<1> QED
  BY <1>1, <1>2, FS_Subset DEF CountDocuments

LEMMA HitsKept ==
  ASSUME TypeInv, TypeInv', Growth, UNCHANGED call, NEW r \in Requests, HitsOK(r),
         found'[r].hits = found[r].hits, found'[r].corpus = found[r].corpus
  PROVE  HitsOK(r)'
<1>1. PICK t : t = Tenant(r) /\ t = Tenant(r)'
  BY DEF Tenant
<1>2. found[r].corpus \in Nat
  BY DEF TypeInv, TypeOK, HandlerTypeOK, Found
<1>3. /\ CountDocuments(t) \in Nat /\ CountDocuments(t)' \in Nat
      /\ CountDocuments(t) <= CountDocuments(t)'
  BY CountGrows
<1>4. found[r].corpus <= CountDocuments(t)
  BY <1>1 DEF HitsOK
<1>5. found[r].corpus <= CountDocuments(t)'
  BY <1>2, <1>3, <1>4
<1> QED
  BY <1>1, <1>5 DEF HitsOK, Growth, CountDocuments, Visible

\* A request that does not move keeps what it has.
LEMMA ReceiptKept ==
  ASSUME TypeInv, TypeInv', Growth, UNCHANGED call, NEW s \in Requests, ReceiptOK(s),
         found'[s] = found[s], reply'[s] = reply[s],
         pc'[s] = pc[s] \/ (pc'[s] = "lost" /\ pc[s] # "done")
  PROVE  ReceiptOK(s)'
<1>1. Tenant(s)' = Tenant(s) /\ Retrieval(s)' = Retrieval(s) /\ TopK(s)' = TopK(s)
  BY DEF Tenant, Retrieval, Kind, TopK
<1>2. HitsOK(s) => HitsOK(s)'
  BY HitsKept
<1>3. EventOK(s) => EventOK(s)'
  BY <1>1 DEF EventOK, Growth
<1> QED
  BY <1>1, <1>2, <1>3 DEF ReceiptOK, Answered, Searched, Audited, Counted

\* What each step of a handler leaves alone in the other handlers.
LEMMA OthersWait ==
  ASSUME TypeInv, NEW r \in Requests, Receive(r) \/ Proceed(r) \/ Raise(r),
         NEW s \in Requests, s # r
  PROVE  found'[s] = found[s] /\ reply'[s] = reply[s] /\ pc'[s] = pc[s]
<1>1. found' = found \/ \E f : found' = [found EXCEPT ![r] = f]
  BY DEF Proceed, Receive, Authorize, RefuseUncontracted, RefuseQuarantined, RefuseForbidden,
         RefuseWrite, StoreDocument, RejectDuplicate, Search, SearchUndecryptable, ReadHead, Stamp,
         AppendEvent, Created, Answer, FinishProbe, Judge, SignRecord, FileRecord, Raise, Respond,
         CountAnd
<1>2. reply' = reply \/ \E a : reply' = [reply EXCEPT ![r] = a]
  BY DEF Proceed, Receive, Authorize, RefuseUncontracted, RefuseQuarantined, RefuseForbidden,
         RefuseWrite, StoreDocument, RejectDuplicate, Search, SearchUndecryptable, ReadHead, Stamp,
         AppendEvent, Created, Answer, FinishProbe, Judge, SignRecord, FileRecord, Raise, Respond,
         CountAnd
<1>3. \E to : pc' = [pc EXCEPT ![r] = to]
  BY DEF Proceed, Receive, Authorize, RefuseUncontracted, RefuseQuarantined, RefuseForbidden,
         RefuseWrite, StoreDocument, RejectDuplicate, Search, SearchUndecryptable, ReadHead, Stamp,
         AppendEvent, Created, Answer, FinishProbe, Judge, SignRecord, FileRecord, Raise, Respond,
         CountAnd, Goto
<1> QED
  BY <1>1, <1>2, <1>3 DEF TypeInv, TypeOK, HandlerTypeOK

\* A handler that ends without an answer, or has yet to be authorized, owes nothing.
LEMMA NothingOwed ==
  ASSUME NEW r \in Requests, ~Answered(r)',
         pc'[r] \in {"attest", "authorize", "done", "lost"}
  PROVE  ReceiptOK(r)'
BY DEF ReceiptOK, Searched, Audited, Counted

LEMMA ReceiptRefused ==
  ASSUME TypeInv, NEW r \in Requests, NEW from, NEW status \in {403, 423, 500, 201}, NEW cause,
         Respond(r, from, status, cause)
  PROVE  ReceiptOK(r)'
<1>1. pc'[r] = "done" /\ reply'[r].status = status
  BY DEF Respond, Goto, TypeInv, TypeOK, HandlerTypeOK
<1> QED
  BY <1>1, NothingOwed DEF Answered

LEMMA ReceiptReceived ==
  ASSUME TypeInv, ReceiptInv, NEW r \in Requests, Receive(r) \/ Authorize(r)
  PROVE  ReceiptOK(r)'
<1>1. UNCHANGED <<reply, call>> /\ pc[r] # "done"
  BY DEF Receive, Authorize, Authorizing, Goto
<1>2. ~Answered(r)'
  BY <1>1 DEF ReceiptInv, ReceiptOK, Answered
<1>3. CASE Receive(r)
  <2>1. pc'[r] \in {"attest", "authorize"}
    BY <1>3 DEF Receive, Goto, TypeInv, TypeOK, HandlerTypeOK
  <2> QED
    BY <1>2, <2>1, NothingOwed
<1>4. CASE Authorize(r)
  <2>1. CASE pc[r] = "attest"
    <3>1. pc'[r] = "authorize"
      BY <1>4, <2>1 DEF Authorize, Goto, TypeInv, TypeOK, HandlerTypeOK
    <3> QED
      BY <1>2, <3>1, NothingOwed
  <2>2. CASE pc[r] = "authorize" /\ Kind(r) = "ingest"
    <3>1. pc'[r] = "insert"
      BY <1>4, <2>2 DEF Authorize, Goto, TypeInv, TypeOK, HandlerTypeOK
    <3>2. ~Retrieval(r)'
      BY <1>1, <2>2 DEF Retrieval, Kind
    <3> QED
      BY <1>2, <3>1, <3>2 DEF ReceiptOK
  <2>3. CASE pc[r] = "authorize" /\ Kind(r) # "ingest"
    <3>1. pc'[r] = "search"
      BY <1>4, <2>3 DEF Authorize, Goto, TypeInv, TypeOK, HandlerTypeOK
    <3>2. TopK(r) <= Contracts[Tenant(r)].maxResults
      BY <1>4, <2>3 DEF Authorize, Satisfies, Requested
    <3>3. (TopK(r) <= Contracts[Tenant(r)].maxResults)'
      BY <1>1, <3>2 DEF TopK, Kind, Tenant
    <3> QED
      BY <1>2, <3>1, <3>3 DEF ReceiptOK, Searched, Audited, Counted
  <2> QED
    BY <1>4, <2>1, <2>2, <2>3 DEF Authorize, Authorizing
<1> QED
  BY <1>3, <1>4

\* Stages that neither search, count nor answer pass on what was established.
LEMMA ReceiptPassedOn ==
  ASSUME TypeInv, TypeInv', ReceiptInv, Growth, NEW r \in Requests,
         ReadHead(r) \/ Stamp(r) \/ Judge(r) \/ SignRecord(r)
  PROVE  ReceiptOK(r)'
<1>1. /\ UNCHANGED <<call, found, reply>>
      /\ \/ pc[r] \in {"head", "stamp"} /\ pc'[r] \in {"stamp", "append"}
         \/ pc[r] \in Counted /\ pc'[r] \in Counted
  BY DEF ReadHead, Stamp, Judge, SignRecord, Goto, NothingStored, Counted, TypeInv, TypeOK,
         HandlerTypeOK
<1>2. HitsOK(r) => HitsOK(r)'
  BY <1>1, HitsKept
<1>3. EventOK(r) => EventOK(r)'
  BY <1>1 DEF EventOK, Growth, Tenant
<1>4. ReceiptOK(r)
  BY DEF ReceiptInv
<1>5. Retrieval(r)' = Retrieval(r) /\ Answered(r)' = Answered(r) /\ ~Answered(r)
  BY <1>1, <1>4 DEF Retrieval, Kind, Answered, ReceiptOK, Counted
<1> QED
  BY <1>1, <1>2, <1>3, <1>4, <1>5 DEF ReceiptOK, Searched, Audited, Counted

LEMMA ReceiptStored ==
  ASSUME TypeInv, ReceiptInv, NEW r \in Requests, StoreDocument(r)
  PROVE  ReceiptOK(r)'
<1>1. /\ UNCHANGED <<call, reply>> /\ pc[r] = "insert" /\ pc'[r] = "head"
  BY DEF StoreDocument, Goto, TypeInv, TypeOK, HandlerTypeOK
<1>2. ~Retrieval(r) /\ ~Answered(r)
  BY <1>1 DEF ReceiptInv, ReceiptOK
<1> QED
  BY <1>1, <1>2 DEF ReceiptOK, Retrieval, Kind, Answered

LEMMA ReceiptSearched ==
  ASSUME TypeInv, QuarantineInv, ReceiptInv, NEW r \in Requests, Search(r)
  PROVE  ReceiptOK(r)'
<1>1. PICK rows \in Ranked(Tenant(r), Question(r), TopK(r)) :
        found' = [found EXCEPT ![r] = [hits |-> rows, corpus |-> CountDocuments(Tenant(r)),
                                       count |-> 0]]
  BY DEF Search
<1>2. /\ UNCHANGED <<call, reply, documents>> /\ pc[r] = "search" /\ pc'[r] = "head"
  BY DEF Search, ReadOnly, Goto, TypeInv, TypeOK, HandlerTypeOK
<1>3. found'[r].hits = rows /\ found'[r].corpus = CountDocuments(Tenant(r))
  BY <1>1 DEF TypeInv, TypeOK, HandlerTypeOK
<1>4. rows \in SUBSET Visible(Tenant(r)) /\ IsFiniteSet(rows) /\ Cardinality(rows) <= TopK(r)
  BY RankedRows DEF Ranked
<1>5. ~Answered(r)
  BY <1>2 DEF ReceiptInv, ReceiptOK
<1>6. ASSUME Retrieval(r) PROVE HitsOK(r)'
  <2>1. TopK(r) <= Contracts[Tenant(r)].maxResults
    BY <1>2, <1>6 DEF ReceiptInv, ReceiptOK
  <2>2. Tenant(r) \in Contracted
    BY <1>2 DEF QuarantineInv, AdmittedOK, Admitted
  <2>3. Contracts[Tenant(r)].maxResults \in Int
    BY <2>2, ContractAssumption
  <2>4. Cardinality(rows) \in Nat /\ TopK(r) \in Int
    BY <1>4, FS_CardinalityType, CallTypes
  <2>5. Cardinality(rows) <= Contracts[Tenant(r)].maxResults
    BY <1>4, <2>1, <2>3, <2>4
  <2>6. IsFiniteSet(Visible(Tenant(r)))
    BY FS_Subset DEF TypeInv, FiniteRows, Visible
  <2>7. Cardinality(rows) <= CountDocuments(Tenant(r)) /\ CountDocuments(Tenant(r)) \in Nat
    BY <1>4, <2>6, FS_Subset, FS_CardinalityType DEF CountDocuments
  <2>8. CountDocuments(Tenant(r))' = CountDocuments(Tenant(r))
    BY <1>2 DEF CountDocuments, Visible, Tenant
  <2> QED
    BY <1>2, <1>3, <1>4, <2>5, <2>7, <2>8 DEF HitsOK, Tenant, Visible
<1> QED
  BY <1>2, <1>5, <1>6 DEF ReceiptOK, Retrieval, Kind, Answered, Searched, Audited, Counted

LEMMA ReceiptAudited ==
  ASSUME TypeInv, TypeInv', ReceiptInv, Growth, NEW r \in Requests, AppendEvent(r)
  PROVE  ReceiptOK(r)'
<1>1. /\ UNCHANGED <<call, reply, found>> /\ pc[r] = "append"
      /\ pc'[r] = IF Kind(r) = "ingest" THEN "reply" ELSE "count"
      /\ events' = Append(events, Event(r))
  BY DEF AppendEvent, InsertEvent, Goto, TypeInv, TypeOK, HandlerTypeOK
<1>2. ReceiptOK(r)
  BY DEF ReceiptInv
<1>3. ~Answered(r)'
  BY <1>1, <1>2 DEF ReceiptOK, Answered
<1>4. CASE Kind(r) = "ingest"
  BY <1>1, <1>3, <1>4 DEF ReceiptOK, Retrieval, Kind
<1>5. CASE Kind(r) # "ingest"
  <2>1. HitsOK(r)'
    BY <1>1, <1>2, <1>5, HitsKept DEF ReceiptOK, Retrieval, Searched
  <2>2. /\ Len(events) + 1 \in DOMAIN events'
        /\ events'[Len(events) + 1] = Event(r)
    BY <1>1 DEF TypeInv, TypeOK, StoreTypeOK
  <2>3. /\ Event(r).hash = r /\ Event(r).tenant = Tenant(r)
        /\ Event(r).action = "retrieval.completed"
        /\ Event(r).count = Cardinality(found[r].hits)
    BY <1>5 DEF Event
  <2>4. EventOK(r)'
    BY <1>1, <2>2, <2>3 DEF EventOK, Tenant
  <2> QED
    BY <1>1, <1>3, <1>5, <2>1, <2>4 DEF ReceiptOK, Counted
<1> QED
  BY <1>4, <1>5

LEMMA ReceiptCounted ==
  ASSUME TypeInv, TypeInv', ReceiptInv, NEW r \in Requests, Answer(r) \/ FinishProbe(r)
  PROVE  ReceiptOK(r)'
<1>1. /\ UNCHANGED <<call, documents, events>> /\ pc[r] = "count"
      /\ found' = [found EXCEPT ![r].count = CountDocuments(Tenant(r))]
      /\ pc'[r] = "done" \/ (pc'[r] = "judge" /\ reply'[r].status = 0)
  BY DEF Answer, FinishProbe, CountAnd, ReadOnly, Goto, TypeInv, TypeOK, HandlerTypeOK, Reply
<1>2. /\ found'[r].hits = found[r].hits /\ found'[r].corpus = found[r].corpus
      /\ found'[r].count = CountDocuments(Tenant(r))
  BY <1>1 DEF TypeInv, TypeOK, HandlerTypeOK, Found
<1>3. ASSUME Retrieval(r)
      PROVE  HitsOK(r)' /\ EventOK(r)' /\ found[r].corpus <= CountDocuments(Tenant(r))
  <2>1. HitsOK(r) /\ EventOK(r)
    BY <1>1, <1>3 DEF ReceiptInv, ReceiptOK, Searched, Audited
  <2>2. Growth
    BY <1>1 DEF Growth
  <2>3. HitsOK(r)'
    BY <1>1, <1>2, <2>1, <2>2, HitsKept
  <2>4. EventOK(r)'
    BY <1>1, <1>2, <2>1 DEF EventOK, Tenant
  <2> QED
    BY <2>1, <2>3, <2>4 DEF HitsOK
<1> QED
  BY <1>1, <1>2, <1>3 DEF ReceiptOK, Answered, Counted, Retrieval, Kind

LEMMA ReceiptFiled ==
  ASSUME TypeInv, TypeInv', ReceiptInv, NEW r \in Requests, FileRecord(r)
  PROVE  ReceiptOK(r)'
<1>1. /\ UNCHANGED <<call, documents, events, found>> /\ pc[r] = "file" /\ pc'[r] = "done"
  BY DEF FileRecord, Respond, Goto, TypeInv, TypeOK, HandlerTypeOK
<1>2. ReceiptOK(r)
  BY DEF ReceiptInv
<1>3. Retrieval(r) => HitsOK(r) /\ EventOK(r) /\ found[r].corpus <= found[r].count
  BY <1>1, <1>2 DEF ReceiptOK, Searched, Audited, Counted
<1>4. (HitsOK(r) => HitsOK(r)') /\ (EventOK(r) => EventOK(r)')
  BY <1>1, HitsKept DEF EventOK, Tenant, Growth
<1> QED
  BY <1>1, <1>3, <1>4 DEF ReceiptOK, Retrieval, Kind, Searched, Audited, Counted

LEMMA ReceiptStep == TypeInv /\ QuarantineInv /\ ReceiptInv /\ [Next]_vars => ReceiptInv'
<1> SUFFICES ASSUME TypeInv, QuarantineInv, ReceiptInv, [Next]_vars PROVE ReceiptInv'
  OBVIOUS
<1>0. TypeInv'
  BY TypeStep
<1>1. CASE UNCHANGED vars
  <2>1. Growth /\ UNCHANGED <<call, found, reply, pc>>
    BY <1>1 DEF vars, Growth
  <2> QED
    BY <1>0, <2>1, ReceiptKept DEF ReceiptInv
<1>2. ASSUME NEW r \in Requests, Receive(r) \/ Proceed(r) \/ Raise(r) PROVE ReceiptInv'
  <2>1. Growth /\ UNCHANGED call
    BY <1>2, TablesGrow, CallFixed
  <2>2. ReceiptOK(r)'
    <3>1. CASE Receive(r) \/ Authorize(r)
      BY <3>1, ReceiptReceived
    <3>2. CASE \/ RefuseUncontracted(r) \/ RefuseQuarantined(r) \/ RefuseForbidden(r)
               \/ RefuseWrite(r) \/ RejectDuplicate(r) \/ SearchUndecryptable(r)
               \/ Created(r) \/ Raise(r)
      <4>1. CASE RefuseQuarantined(r)
        <5> DEFINE status == IF Kind(r) \in {"query", "attest"} THEN 423 ELSE 403
        <5>1. status \in {403, 423, 500, 201} /\ Respond(r, pc[r], status, "quarantine")
          BY <4>1 DEF RefuseQuarantined
        <5> HIDE DEF status
        <5> QED
          BY <5>1, ReceiptRefused
      <4>2. CASE RefuseUncontracted(r) \/ RefuseForbidden(r) \/ RefuseWrite(r)
        BY <4>2, ReceiptRefused DEF RefuseUncontracted, RefuseForbidden, RefuseWrite
      <4>3. CASE RejectDuplicate(r) \/ SearchUndecryptable(r)
        BY <4>3, ReceiptRefused DEF RejectDuplicate, SearchUndecryptable
      <4>4. CASE Created(r) \/ Raise(r)
        BY <4>4, ReceiptRefused DEF Created, Raise
      <4> QED
        BY <3>2, <4>1, <4>2, <4>3, <4>4
    <3>3. CASE StoreDocument(r)
      BY <3>3, ReceiptStored
    <3>4. CASE Search(r)
      BY <3>4, ReceiptSearched
    <3>5. CASE ReadHead(r) \/ Stamp(r) \/ Judge(r) \/ SignRecord(r)
      BY <1>0, <2>1, <3>5, ReceiptPassedOn
    <3>6. CASE AppendEvent(r)
      BY <1>0, <2>1, <3>6, ReceiptAudited
    <3>7. CASE Answer(r) \/ FinishProbe(r)
      BY <1>0, <3>7, ReceiptCounted
    <3>8. CASE FileRecord(r)
      BY <1>0, <3>8, ReceiptFiled
    <3> QED
      BY <1>2, <3>1, <3>2, <3>3, <3>4, <3>5, <3>6, <3>7, <3>8 DEF Proceed
  <2>3. ASSUME NEW s \in Requests, s # r PROVE ReceiptOK(s)'
    BY <1>0, <1>2, <2>1, <2>3, OthersWait, ReceiptKept DEF ReceiptInv
  <2> QED
    BY <2>2, <2>3 DEF ReceiptInv
<1>3. ASSUME NEW i \in Instances, Restart(i) PROVE ReceiptInv'
  <2>1. Growth /\ UNCHANGED <<call, found, reply>>
    BY <1>3 DEF Restart, Growth
  <2>2. \A s \in Requests : pc'[s] = pc[s] \/ (pc'[s] = "lost" /\ pc[s] # "done")
    BY <1>3 DEF Restart, InFlight, Running
  <2> QED
    BY <1>0, <2>1, <2>2, ReceiptKept DEF ReceiptInv
<1> QED
  BY <1>1, <1>2, <1>3 DEF Next, Finished

\* Every answered retrieval, whatever ran beside it and whatever failed: its event is
\* stored with the number of its hits, and the hits are stored documents of the
\* caller, within the contract's cap, and the receipt's count is no less than the
\* corpus the search ranged over.
THEOREM ReceiptsAreBacked == Spec => []ReceiptIsBacked
<1>1. Init => ReceiptInv
  BY DEF Init, ReceiptInv, ReceiptOK, Answered, Searched, Audited, Counted
<1>2. ReceiptInv => ReceiptIsBacked
  BY DEF ReceiptInv, ReceiptOK, ReceiptIsBacked, Answered, HitsOK, EventOK
<1> QED
  BY TypeInit, TypeStep, QuarantineInit, QuarantineStep, ReceiptStep, <1>1, <1>2, PTL DEF Spec

-----------------------------------------------------------------------------
(***************************************************************************)
(* Forks.  With equal clocks an event is stamped later than the one it     *)
(* names, so a hash that has a successor is no head any more: all its      *)
(* successors come from handlers that read it before the first of them was *)
(* stored.  They ran at the same time, and no more run at a time than the  *)
(* processes admit.                                                        *)
(***************************************************************************)
EqualClocks == \A i, j \in Instances : Skew[i] = Skew[j]

Capacity == Concurrency * Cardinality(Instances)

AllRunning == {r \in Requests : pc[r] \in Running}

CapacityOK == \A i \in Instances : Cardinality(InFlight(i)) <= Concurrency

\* An event is stored once, by a handler that has got past its append.
LoggedOnce ==
  /\ \A k \in DOMAIN events : pc[events[k].hash] \in Audited \cup {"reply", "done", "lost"}
  /\ \A j, k \in DOMAIN events : events[j].hash = events[k].hash => j = k

\* A stamp is never ahead of the clock, and later than that of the event it follows.
StampOK ==
  /\ \A k \in DOMAIN events, i \in Instances : events[k].at < Clock(i)
  /\ \A r \in Requests, i \in Instances : pc[r] = "append" => link[r].at <= Clock(i)
  /\ \A r \in Requests, k \in DOMAIN events :
       pc[r] = "append" /\ events[k].hash = link[r].prev => events[k].at < link[r].at
  /\ \A j, k \in DOMAIN events : events[k].prev = events[j].hash => events[j].at < events[k].at

\* Handlers of t that will name p as the predecessor of their event.
Holders(t, p) == {r \in Requests : pc[r] \in Linking /\ Tenant(r) = t /\ link[r].prev = p}

WidthOK ==
  \A t \in Tenants, p \in Hashes :
    Cardinality(Successors(t, p)) + Cardinality(Holders(t, p)) <= Capacity

OrderInv == LoggedOnce /\ StampOK

ForkInv == CapacityOK /\ OrderInv /\ WidthOK
-----------------------------------------------------------------------------
LEMMA SetsAreFinite ==
  ASSUME TypeInv
  PROVE  /\ \A i : IsFiniteSet(InFlight(i))
         /\ \A t, p : IsFiniteSet(Holders(t, p)) /\ IsFiniteSet(Successors(t, p))
         /\ \A S : IsFiniteSet(S) => Cardinality(S) \in Nat
<1>1. \A i : IsFiniteSet(InFlight(i))
  BY FleetAssumption, FS_Subset DEF InFlight
<1>2. \A t, p : IsFiniteSet(Holders(t, p))
  BY FleetAssumption, FS_Subset DEF Holders
<1>3. Len(events) \in Nat /\ DOMAIN events = 1..Len(events)
  BY DEF TypeInv, TypeOK, StoreTypeOK
<1>4. IsFiniteSet(DOMAIN events)
  BY <1>3, FS_Interval
<1>5. \A t, p : IsFiniteSet(Successors(t, p))
  BY <1>4, FS_Subset DEF Successors
<1> QED
  BY <1>1, <1>2, <1>5, FS_CardinalityType

\* Every process admits at most Concurrency handlers, so there are at most Capacity:
\* number the handlers of each process, and pair the number with the process.
LEMMA RunningBound ==
  ASSUME TypeInv, CapacityOK
  PROVE  /\ IsFiniteSet(AllRunning) /\ Cardinality(AllRunning) <= Capacity
         /\ Capacity \in Nat
<1> DEFINE Slots == 1..Concurrency
<1>0. Concurrency \in Nat /\ IsFiniteSet(Instances)
  BY WorkloadAssumption, FleetAssumption
<1>1. ASSUME NEW i \in Instances PROVE Injection(InFlight(i), Slots) # {}
  <2> DEFINE n == Cardinality(InFlight(i))
  <2>1. n \in Nat /\ ExistsBijection(1..n, InFlight(i))
    BY SetsAreFinite, FS_CardinalityType
  <2>2. n <= Concurrency
    BY DEF CapacityOK
  <2> HIDE DEF n
  <2>3. PICK f : f \in Bijection(1..n, InFlight(i))
    BY <2>1 DEF ExistsBijection
  <2>4. /\ f \in [1..n -> InFlight(i)]
        /\ \A r \in InFlight(i) : \E k \in 1..n : f[k] = r
    BY <2>3 DEF Bijection, Injection, Surjection
  <2> DEFINE g == [r \in InFlight(i) |-> CHOOSE k \in 1..n : f[k] = r]
  <2>5. \A r \in InFlight(i) : g[r] \in 1..n /\ f[g[r]] = r
    BY <2>4
  <2>6. 1..n \subseteq Slots
    BY <1>0, <2>1, <2>2
  <2>7. g \in [InFlight(i) -> Slots]
    BY <2>5, <2>6
  <2>8. \A r, s \in InFlight(i) : g[r] = g[s] => r = s
    BY <2>5
  <2> HIDE DEF g
  <2>9. g \in Injection(InFlight(i), Slots)
    BY <2>7, <2>8, Fun_IsInj
  <2> QED
    BY <2>9
<1> DEFINE slot == [i \in Instances |-> CHOOSE g : g \in Injection(InFlight(i), Slots)]
<1>2. ASSUME NEW i \in Instances
      PROVE  /\ slot[i] \in [InFlight(i) -> Slots]
             /\ \A r, s \in InFlight(i) : slot[i][r] = slot[i][s] => r = s
  <2>1. slot[i] \in Injection(InFlight(i), Slots)
    BY <1>1
  <2> HIDE DEF slot
  <2> QED
    BY <2>1, Fun_InjectionProperties
<1> HIDE DEF slot
<1>3. \A r \in AllRunning : inst[r] \in Instances /\ r \in InFlight(inst[r])
  BY CallTypes DEF AllRunning, InFlight
<1> DEFINE place == [r \in AllRunning |-> <<inst[r], slot[inst[r]][r]>>]
<1>4. place \in [AllRunning -> Instances \X Slots]
  BY <1>2, <1>3
<1>5. ASSUME NEW r \in AllRunning, NEW s \in AllRunning, place[r] = place[s]
      PROVE  r = s
  <2>1. inst[r] = inst[s] /\ slot[inst[r]][r] = slot[inst[s]][s]
    BY <1>5
  <2> QED
    BY <1>2, <1>3, <2>1
<1> HIDE DEF place
<1>6. place \in Injection(AllRunning, Instances \X Slots)
  BY <1>4, <1>5, Fun_IsInj
<1>7. IsFiniteSet(Slots) /\ Cardinality(Slots) = Concurrency
  BY <1>0, FS_Interval
<1> HIDE DEF Slots
<1>8. /\ IsFiniteSet(Instances \X Slots)
      /\ Cardinality(Instances \X Slots) = Cardinality(Instances) * Concurrency
  BY <1>0, <1>7, FS_Product
<1>9. IsFiniteSet(AllRunning) /\ Cardinality(AllRunning) <= Cardinality(Instances \X Slots)
  BY <1>6, <1>8, FS_Injection
<1>10. Cardinality(Instances) \in Nat
  BY <1>0, FS_CardinalityType
<1>11. Capacity = Cardinality(Instances) * Concurrency /\ Capacity \in Nat
  BY <1>0, <1>10 DEF Capacity
<1> QED
  BY <1>8, <1>9, <1>11

HoldersFit == \A t, p : /\ Cardinality(Holders(t, p)) \in Nat
                        /\ Cardinality(Holders(t, p)) <= Capacity

LEMMA HoldersBound == TypeInv /\ CapacityOK => HoldersFit
<1> SUFFICES ASSUME TypeInv, CapacityOK, NEW t, NEW p
             PROVE  /\ Cardinality(Holders(t, p)) \in Nat
                    /\ Cardinality(Holders(t, p)) <= Capacity
  BY DEF HoldersFit
<1>1. Holders(t, p) \subseteq AllRunning
  BY DEF Holders, AllRunning, Linking, Running
<1>2. IsFiniteSet(AllRunning) /\ Cardinality(AllRunning) <= Capacity /\ Capacity \in Nat
  BY RunningBound
<1>3. Cardinality(Holders(t, p)) <= Cardinality(AllRunning)
  BY <1>1, <1>2, FS_Subset
<1>4. Cardinality(Holders(t, p)) \in Nat /\ Cardinality(AllRunning) \in Nat
  BY <1>2, SetsAreFinite
<1> QED
  BY <1>2, <1>3, <1>4

LEMMA HoldersBoundNext == TypeInv' /\ CapacityOK' => HoldersFit'
BY HoldersBound, PTL

\* A handler is admitted only where there is room, and leaves by itself.
LEMMA CapacityStep == TypeInv /\ CapacityOK /\ [Next]_vars => CapacityOK'
<1> SUFFICES ASSUME TypeInv, CapacityOK, [Next]_vars, NEW i \in Instances
             PROVE  Cardinality(InFlight(i)') <= Concurrency
  BY DEF CapacityOK
<1>0. /\ IsFiniteSet(InFlight(i)) /\ Cardinality(InFlight(i)) \in Nat
      /\ Concurrency \in Nat /\ Cardinality(InFlight(i)) <= Concurrency
  BY SetsAreFinite, WorkloadAssumption DEF CapacityOK
<1>1. ASSUME InFlight(i)' \subseteq InFlight(i) PROVE Cardinality(InFlight(i)') <= Concurrency
  <2>1. IsFiniteSet(InFlight(i)') /\ Cardinality(InFlight(i)') <= Cardinality(InFlight(i))
    BY <1>0, <1>1, FS_Subset
  <2>2. Cardinality(InFlight(i)') \in Nat
    BY <2>1, FS_CardinalityType
  <2> QED
    BY <1>0, <2>1, <2>2
<1>2. CASE UNCHANGED vars
  <2>1. pc' = pc /\ inst' = inst
    BY <1>2 DEF vars
  <2>2. InFlight(i)' \subseteq InFlight(i)
    BY <2>1 DEF InFlight
  <2> QED
    BY <1>1, <2>2
<1>3. ASSUME NEW r \in Requests, Receive(r) PROVE Cardinality(InFlight(i)') <= Concurrency
  <2>1. /\ InFlight(i)' \subseteq InFlight(i) \cup {r}
        /\ inst[r] # i => InFlight(i)' \subseteq InFlight(i)
    BY <1>3 DEF Receive, Goto, InFlight, TypeInv, TypeOK, HandlerTypeOK
  <2>2. CASE inst[r] # i
    BY <1>1, <2>1, <2>2
  <2>3. CASE inst[r] = i
    <3>1. Cardinality(InFlight(i)) < Concurrency
      BY <1>3, <2>3 DEF Receive
    <3>2. /\ IsFiniteSet(InFlight(i) \cup {r})
          /\ \/ Cardinality(InFlight(i) \cup {r}) = Cardinality(InFlight(i))
             \/ Cardinality(InFlight(i) \cup {r}) = Cardinality(InFlight(i)) + 1
      BY <1>0, FS_AddElement
    <3>3. IsFiniteSet(InFlight(i)') /\ Cardinality(InFlight(i)') <= Cardinality(InFlight(i) \cup {r})
      BY <2>1, <3>2, FS_Subset
    <3>4. Cardinality(InFlight(i)') \in Nat /\ Cardinality(InFlight(i) \cup {r}) \in Nat
      BY <3>2, <3>3, FS_CardinalityType
    <3> QED
      BY <1>0, <3>1, <3>2, <3>3, <3>4
  <2> QED
    BY <2>2, <2>3
<1>4. ASSUME NEW r \in Requests, Proceed(r) \/ Raise(r) PROVE Cardinality(InFlight(i)') <= Concurrency
  <2>1. pc[r] \in Running /\ UNCHANGED inst
    BY <1>4 DEF Proceed, Authorize, Authorizing, RefuseUncontracted, RefuseQuarantined,
       RefuseForbidden, RefuseWrite, StoreDocument, RejectDuplicate, Search, SearchUndecryptable,
       ReadHead, Stamp, AppendEvent, Created, Answer, FinishProbe, Judge, SignRecord, FileRecord,
       Raise, Respond, CountAnd, Goto, Running
  <2>2. \A s \in Requests : s # r => pc'[s] = pc[s]
    BY <1>4, OthersWait
  <2>3. InFlight(i)' \subseteq InFlight(i)
    BY <2>1, <2>2 DEF InFlight
  <2> QED
    BY <1>1, <2>3
<1>5. ASSUME NEW j \in Instances, Restart(j) PROVE Cardinality(InFlight(i)') <= Concurrency
  <2>1. InFlight(i)' \subseteq InFlight(i)
    BY <1>5 DEF Restart, InFlight, Running
  <2> QED
    BY <1>1, <2>1
<1> QED
  BY <1>2, <1>3, <1>4, <1>5 DEF Next, Finished
-----------------------------------------------------------------------------
\* Where a handler's event is stored, it stays stored.
PastAppend == Audited \cup {"reply", "done", "lost"}

LEMMA PastStays ==
  ASSUME TypeInv, NEW r \in Requests, Receive(r) \/ Proceed(r) \/ Raise(r), pc[r] \in PastAppend
  PROVE  pc'[r] \in PastAppend
BY DEF TypeInv, TypeOK, HandlerTypeOK, Proceed, Receive, Authorize, Authorizing, RefuseUncontracted,
       RefuseQuarantined, RefuseForbidden, RefuseWrite, StoreDocument, RejectDuplicate, Search,
       SearchUndecryptable, ReadHead, Stamp, AppendEvent, Created, Answer, FinishProbe, Judge,
       SignRecord, FileRecord, Raise, Respond, CountAnd, Goto, PastAppend, Audited, Counted

LEMMA EventTypes ==
  ASSUME TypeInv
  PROVE  /\ Len(events) \in Nat /\ DOMAIN events = 1..Len(events)
         /\ \A k \in DOMAIN events : /\ events[k].hash \in Requests /\ events[k].prev \in Hashes
                                     /\ events[k].tenant \in Tenants /\ events[k].at \in Int
         /\ now \in Nat /\ \A i \in Instances : Clock(i) \in Int
         /\ \A r \in Requests : link[r].at \in Int /\ link[r].prev \in Hashes
<1>1. events \in Seq(EventRow) /\ now \in Nat
  BY DEF TypeInv, TypeOK, StoreTypeOK
<1>2. \A k \in DOMAIN events : events[k] \in EventRow
  BY <1>1
<1>3. \A i \in Instances : Clock(i) \in Int
  BY <1>1, StoreAssumption DEF Clock
<1>4. \A r \in Requests : link[r] \in Link
  BY DEF TypeInv, TypeOK, HandlerTypeOK
<1> QED
  BY <1>1, <1>2, <1>3, <1>4 DEF EventRow, Link

\* The ledger is left alone, and time goes on.
LEMMA OrderKept ==
  ASSUME TypeInv, OrderInv, UNCHANGED <<events, link>>, now' = now \/ now' = now + 1,
         \A s \in Requests : pc'[s] = "append" => pc[s] = "append",
         \A s \in Requests : pc[s] \in PastAppend => pc'[s] \in PastAppend
  PROVE  OrderInv'
<1>1. LoggedOnce'
  BY EventTypes DEF OrderInv, LoggedOnce, PastAppend
<1>2. ASSUME NEW i \in Instances PROVE Clock(i)' \in Int /\ Clock(i) <= Clock(i)'
  BY EventTypes, StoreAssumption DEF Clock
<1>3. \A k \in DOMAIN events, i \in Instances : events[k].at < Clock(i)'
  BY <1>2, EventTypes DEF OrderInv, StampOK
<1>4. \A r \in Requests, i \in Instances : pc'[r] = "append" => link[r].at <= Clock(i)'
  BY <1>2, EventTypes DEF OrderInv, StampOK
<1>5. StampOK'
  BY <1>3, <1>4 DEF OrderInv, StampOK
<1> QED
  BY <1>1, <1>5 DEF OrderInv

LEMMA OrderStamped ==
  ASSUME EqualClocks, TypeInv, OrderInv, NEW r \in Requests, Stamp(r)
  PROVE  OrderInv'
<1>1. /\ pc[r] = "stamp" /\ pc' = [pc EXCEPT ![r] = "append"]
      /\ link' = [link EXCEPT ![r].at = Clock(inst[r])]
      /\ UNCHANGED <<events, now>>
  BY DEF Stamp, Goto, NothingStored
<1>2. /\ pc \in [Requests -> Stages] /\ link \in [Requests -> Link] /\ inst[r] \in Instances
  BY CallTypes DEF TypeInv, TypeOK, HandlerTypeOK
<1>3. /\ link'[r].at = Clock(inst[r]) /\ link'[r].prev = link[r].prev
      /\ \A s \in Requests : s # r => link'[s] = link[s] /\ pc'[s] = pc[s]
  BY <1>1, <1>2 DEF Link
<1>4. LoggedOnce'
  BY <1>1, <1>2, EventTypes DEF OrderInv, LoggedOnce, Audited, Counted
<1>5. \A i \in Instances : Clock(i)' = Clock(i) /\ Clock(i) = Clock(inst[r])
  BY <1>1, <1>2 DEF Clock, EqualClocks
<1>6. \A s \in Requests, i \in Instances : pc'[s] = "append" => link'[s].at <= Clock(i)'
  BY <1>3, <1>5, EventTypes DEF OrderInv, StampOK
<1>7. \A s \in Requests, k \in DOMAIN events :
        pc'[s] = "append" /\ events[k].hash = link'[s].prev => events[k].at < link'[s].at
  BY <1>2, <1>3 DEF OrderInv, StampOK
<1>8. \A k \in DOMAIN events, i \in Instances : events[k].at < Clock(i)'
  BY <1>5 DEF OrderInv, StampOK
<1>9. StampOK'
  BY <1>1, <1>6, <1>7, <1>8 DEF OrderInv, StampOK
<1> QED
  BY <1>4, <1>9 DEF OrderInv

\* What AppendEvent does to the ledger.
LEMMA Appended ==
  ASSUME TypeInv, NEW r \in Requests, AppendEvent(r)
  PROVE  LET n == Len(events) + 1 IN
         /\ n \in Nat /\ n \notin DOMAIN events
         /\ DOMAIN events' = DOMAIN events \cup {n}
         /\ \A k \in DOMAIN events : events'[k] = events[k] /\ k < n
         /\ events'[n].hash = r /\ events'[n].tenant = Tenant(r)
         /\ events'[n].prev = link[r].prev /\ events'[n].at = link[r].at
         /\ now' = now + 1 /\ UNCHANGED <<link, call, inst>>
         /\ pc[r] = "append" /\ pc'[r] \in {"reply", "count"}
         /\ \A s \in Requests : s # r => pc'[s] = pc[s]
<1>1. /\ events' = Append(events, Event(r)) /\ now' = now + 1 /\ UNCHANGED <<link, call, inst>>
      /\ pc[r] = "append" /\ pc' = [pc EXCEPT ![r] = IF Kind(r) = "ingest" THEN "reply" ELSE "count"]
  BY DEF AppendEvent, InsertEvent, Goto
<1>2. events \in Seq(EventRow) /\ pc \in [Requests -> Stages]
  BY DEF TypeInv, TypeOK, StoreTypeOK, HandlerTypeOK
<1>3. /\ Len(events) \in Nat
      /\ DOMAIN events = 1..Len(events) /\ DOMAIN events' = 1..(Len(events) + 1)
      /\ \A k \in DOMAIN events : events'[k] = events[k]
      /\ events'[Len(events) + 1] = Event(r)
  BY <1>1, <1>2
<1>4. /\ Event(r).hash = r /\ Event(r).tenant = Tenant(r)
      /\ Event(r).prev = link[r].prev /\ Event(r).at = link[r].at
  BY DEF Event
<1>5. pc'[r] \in {"reply", "count"} /\ \A s \in Requests : s # r => pc'[s] = pc[s]
  BY <1>1, <1>2
<1> QED
  BY <1>1, <1>3, <1>4, <1>5

LEMMA OrderAppended ==
  ASSUME TypeInv, ChainInv, OrderInv, NEW r \in Requests, AppendEvent(r)
  PROVE  OrderInv'
<1> DEFINE n == Len(events) + 1
<1>1. /\ n \in Nat /\ n \notin DOMAIN events
      /\ DOMAIN events' = DOMAIN events \cup {n}
      /\ \A k \in DOMAIN events : events'[k] = events[k] /\ k < n
      /\ events'[n].hash = r /\ events'[n].prev = link[r].prev /\ events'[n].at = link[r].at
      /\ now' = now + 1 /\ UNCHANGED link
      /\ pc[r] = "append" /\ pc'[r] \in {"reply", "count"}
      /\ \A s \in Requests : s # r => pc'[s] = pc[s]
  BY Appended
<1> HIDE DEF n
<1>2. \A k \in DOMAIN events : events[k].hash # r /\ events[k].hash \in Requests
  BY <1>1, EventTypes DEF OrderInv, LoggedOnce, Audited, Counted
<1>3. link[r].prev # r /\ \A k \in DOMAIN events : events[k].prev # r
  <2>1. \A k \in DOMAIN events : \A j \in 1..(k - 1) : j \in DOMAIN events
    BY EventTypes
  <2>2. r # Genesis
    BY FleetAssumption
  <2>3. link[r].prev # r
    BY <1>1, <1>2, <2>2 DEF ChainInv, LinkOK, Linking
  <2>4. \A k \in DOMAIN events : events[k].prev # r
    BY <1>2, <2>1, <2>2 DEF ChainInv, ChainWellFounded
  <2> QED
    BY <2>3, <2>4
<1>4. LoggedOnce'
  BY <1>1, <1>2 DEF OrderInv, LoggedOnce, Audited, Counted
<1>5. \A i \in Instances : Clock(i)' = Clock(i) + 1 /\ Clock(i) \in Int
  BY <1>1, EventTypes, StoreAssumption DEF Clock
<1>6. link[r].at \in Int /\ \A i \in Instances : link[r].at <= Clock(i)
  BY <1>1, EventTypes DEF OrderInv, StampOK
<1>7. ASSUME NEW k \in DOMAIN events', NEW i \in Instances PROVE events'[k].at < Clock(i)'
  <2>1. CASE k \in DOMAIN events
    <3>1. events[k].at < Clock(i) /\ events[k].at \in Int
      BY <2>1, EventTypes DEF OrderInv, StampOK
    <3> QED
      BY <1>1, <1>5, <2>1, <3>1
  <2>2. CASE k = n
    BY <1>1, <1>5, <1>6, <2>2
  <2> QED
    BY <1>1, <2>1, <2>2
<1>8. ASSUME NEW s \in Requests, NEW i \in Instances, pc'[s] = "append"
      PROVE  link'[s].at <= Clock(i)'
  <2>1. pc[s] = "append"
    BY <1>1, <1>8
  <2>2. link[s].at <= Clock(i) /\ link[s].at \in Int
    BY <2>1, EventTypes DEF OrderInv, StampOK
  <2> QED
    BY <1>1, <1>5, <2>2
<1>9. ASSUME NEW s \in Requests, NEW k \in DOMAIN events',
             pc'[s] = "append", events'[k].hash = link'[s].prev
      PROVE  events'[k].at < link'[s].at
  <2>1. pc[s] = "append" /\ s # r
    BY <1>1, <1>9
  <2>2. CASE k \in DOMAIN events
    BY <1>1, <1>9, <2>1, <2>2 DEF OrderInv, StampOK
  <2>3. CASE k = n
    <3>1. link[s].prev = r
      BY <1>1, <1>9, <2>3
    <3>2. r # Genesis
      BY <1>2, FleetAssumption
    <3> QED
      BY <1>2, <2>1, <3>1, <3>2 DEF ChainInv, LinkOK, Linking
  <2> QED
    BY <1>1, <2>2, <2>3
<1>10. ASSUME NEW j \in DOMAIN events', NEW k \in DOMAIN events', events'[k].prev = events'[j].hash
       PROVE  events'[j].at < events'[k].at
  <2>1. CASE j \in DOMAIN events /\ k \in DOMAIN events
    BY <1>1, <1>10, <2>1 DEF OrderInv, StampOK
  <2>2. CASE j \in DOMAIN events /\ k = n
    BY <1>1, <1>10, <2>2 DEF OrderInv, StampOK
  <2>3. CASE j = n
    BY <1>1, <1>3, <1>10, <2>3
  <2> QED
    BY <1>1, <2>1, <2>2, <2>3
<1>11. StampOK'
  BY <1>7, <1>8, <1>9, <1>10 DEF StampOK
<1> QED
  BY <1>4, <1>11 DEF OrderInv

\* Every step but a stamp and an append.
LEMMA OrderOther ==
  ASSUME TypeInv, OrderInv, NEW r \in Requests, Receive(r) \/ Proceed(r) \/ Raise(r),
         ~Stamp(r), ~AppendEvent(r)
  PROVE  OrderInv'
<1>1. now' = now \/ now' = now + 1
  BY DEF Proceed, Receive, Authorize, RefuseUncontracted, RefuseQuarantined, RefuseForbidden,
         RefuseWrite, StoreDocument, RejectDuplicate, Search, SearchUndecryptable, ReadHead,
         Created, Answer, FinishProbe, Judge, SignRecord, FileRecord, Raise, CountAnd,
         NothingStored, ReadOnly, InsertDocument
<1>2. \A s \in Requests : pc[s] \in PastAppend => pc'[s] \in PastAppend
  BY PastStays, OthersWait
<1>3. CASE ReadHead(r)
  <2>1. /\ pc[r] = "head" /\ pc' = [pc EXCEPT ![r] = "stamp"] /\ UNCHANGED events
        /\ \E h : link' = [link EXCEPT ![r].prev = h]
    BY <1>3 DEF ReadHead, Goto, ReadOnly
  <2>2. /\ \A s \in Requests : pc'[s] = "append" => pc[s] = "append" /\ s # r
        /\ \A s \in Requests : s # r => link'[s] = link[s]
    BY <2>1 DEF TypeInv, TypeOK, HandlerTypeOK
  <2>3. LoggedOnce'
    BY <1>2, <2>1, EventTypes DEF OrderInv, LoggedOnce, PastAppend
  <2>4. ASSUME NEW i \in Instances PROVE Clock(i)' \in Int /\ Clock(i) <= Clock(i)'
    BY <1>1, EventTypes, StoreAssumption DEF Clock
  <2>5. \A k \in DOMAIN events, i \in Instances : events[k].at < Clock(i)'
    BY <2>4, EventTypes DEF OrderInv, StampOK
  <2>6. \A s \in Requests, i \in Instances : pc'[s] = "append" => link'[s].at <= Clock(i)'
    BY <2>2, <2>4, EventTypes DEF OrderInv, StampOK
  <2>7. StampOK'
    BY <2>1, <2>2, <2>5, <2>6 DEF OrderInv, StampOK
  <2> QED
    BY <2>3, <2>7 DEF OrderInv
<1>4. CASE ~ReadHead(r)
  <2>1. /\ UNCHANGED <<events, link>>
        /\ \A s \in Requests : pc'[s] \in Linking => pc'[s] = pc[s]
    BY <1>4, OffLedger DEF Proceed
  <2> QED
    BY <1>1, <1>2, <2>1, OrderKept DEF Linking
<1> QED
  BY <1>3, <1>4

LEMMA OrderStep ==
  ASSUME EqualClocks
  PROVE  TypeInv /\ ChainInv /\ OrderInv /\ [Next]_vars => OrderInv'
<1> SUFFICES ASSUME TypeInv, ChainInv, OrderInv, [Next]_vars PROVE OrderInv'
  OBVIOUS
<1>1. CASE UNCHANGED vars
  BY <1>1, OrderKept DEF vars
<1>2. ASSUME NEW r \in Requests, Receive(r) \/ Proceed(r) \/ Raise(r) PROVE OrderInv'
  BY <1>2, OrderStamped, OrderAppended, OrderOther
<1>3. ASSUME NEW i \in Instances, Restart(i) PROVE OrderInv'
  <2>1. UNCHANGED <<events, link, now>>
    BY <1>3 DEF Restart
  <2>2. \A s \in Requests : pc'[s] = pc[s] \/ (pc'[s] = "lost" /\ pc[s] \in Running)
    BY <1>3 DEF Restart, InFlight
  <2> QED
    BY <2>1, <2>2, OrderKept DEF PastAppend
<1> QED
  BY <1>1, <1>2, <1>3 DEF Next, Finished
-----------------------------------------------------------------------------
\* A hash that has a successor is no head: the successor is the later of the two.
LEMMA FollowedIsNoHead ==
  ASSUME TypeInv, OrderInv, NEW t, NEW p \in Heads(t)
  PROVE  Successors(t, p) = {}
<1> SUFFICES ASSUME NEW e \in Successors(t, p) PROVE FALSE
  OBVIOUS
<1>1. e \in VisibleEvents(t) /\ events[e].prev = p
  BY DEF Successors, VisibleEvents
<1>2. PICK k \in VisibleEvents(t) :
        p = events[k].hash /\ \A m \in VisibleEvents(t) : events[m].at <= events[k].at
  BY <1>1 DEF Heads
<1>3. events[k].at < events[e].at /\ events[e].at <= events[k].at
  BY <1>1, <1>2 DEF OrderInv, StampOK, VisibleEvents
<1>4. events[k].at \in Int /\ events[e].at \in Int
  BY <1>1, <1>2, EventTypes DEF VisibleEvents
<1> QED
  BY <1>3, <1>4

\* Where nobody new holds a hash and no event is added, no fork gets wider.
LEMMA WidthKept ==
  ASSUME TypeInv, NEW t, NEW p, UNCHANGED events, Holders(t, p)' \subseteq Holders(t, p),
         Cardinality(Successors(t, p)) + Cardinality(Holders(t, p)) <= Capacity, Capacity \in Nat
  PROVE  Cardinality(Successors(t, p)') + Cardinality(Holders(t, p)') <= Capacity
<1>1. Successors(t, p)' = Successors(t, p)
  BY DEF Successors
<1>2. /\ IsFiniteSet(Holders(t, p)) /\ Cardinality(Holders(t, p)) \in Nat
      /\ Cardinality(Successors(t, p)) \in Nat
  BY SetsAreFinite
<1>3. /\ IsFiniteSet(Holders(t, p)') /\ Cardinality(Holders(t, p)') \in Nat
      /\ Cardinality(Holders(t, p)') <= Cardinality(Holders(t, p))
  BY <1>2, FS_Subset, FS_CardinalityType
<1> QED
  BY <1>1, <1>2, <1>3

LEMMA WidthRead ==
  ASSUME TypeInv, HoldersFit', OrderInv, WidthOK, Capacity \in Nat,
         NEW r \in Requests, ReadHead(r), NEW t \in Tenants, NEW p \in Hashes
  PROVE  Cardinality(Successors(t, p)') + Cardinality(Holders(t, p)') <= Capacity
<1>1. PICK h \in Heads(Tenant(r)) : link' = [link EXCEPT ![r].prev = h]
  BY DEF ReadHead
<1>2. /\ UNCHANGED <<events, call>> /\ pc[r] = "head" /\ pc' = [pc EXCEPT ![r] = "stamp"]
  BY DEF ReadHead, ReadOnly, Goto
<1>3. /\ link'[r].prev = h
      /\ \A s \in Requests : s # r => link'[s] = link[s] /\ pc'[s] = pc[s]
  BY <1>1, <1>2 DEF TypeInv, TypeOK, HandlerTypeOK, Link
<1>4. CASE Successors(t, p) = {}
  <2>1. Successors(t, p)' = {}
    BY <1>2, <1>4 DEF Successors
  <2>2. Cardinality({}) = 0
    BY FS_EmptySet
  <2>3. Cardinality(Holders(t, p)') \in Nat /\ Cardinality(Holders(t, p)') <= Capacity
    BY DEF HoldersFit, Capacity
  <2> QED
    BY <2>1, <2>2, <2>3
<1>5. CASE Successors(t, p) # {}
  <2>1. ~(t = Tenant(r) /\ p = h)
    BY <1>5, FollowedIsNoHead
  <2>2. Holders(t, p)' \subseteq Holders(t, p)
    BY <1>2, <1>3, <2>1 DEF Holders, Tenant, Linking
  <2> QED
    BY <1>2, <2>2, WidthKept DEF WidthOK
<1> QED
  BY <1>4, <1>5

LEMMA WidthAppended ==
  ASSUME TypeInv, WidthOK, Capacity \in Nat,
         NEW r \in Requests, AppendEvent(r), NEW t \in Tenants, NEW p \in Hashes
  PROVE  Cardinality(Successors(t, p)') + Cardinality(Holders(t, p)') <= Capacity
<1> DEFINE n == Len(events) + 1
<1>1. /\ n \notin DOMAIN events /\ DOMAIN events' = DOMAIN events \cup {n}
      /\ \A k \in DOMAIN events : events'[k] = events[k]
      /\ events'[n].tenant = Tenant(r) /\ events'[n].prev = link[r].prev
      /\ UNCHANGED <<link, call>>
      /\ pc[r] = "append" /\ pc'[r] \in {"reply", "count"}
      /\ \A s \in Requests : s # r => pc'[s] = pc[s]
  BY Appended
<1> HIDE DEF n
<1>2. Holders(t, p)' = Holders(t, p) \ {r}
  BY <1>1 DEF Holders, Linking, Tenant
<1>3. /\ IsFiniteSet(Holders(t, p)) /\ IsFiniteSet(Successors(t, p))
      /\ Cardinality(Holders(t, p)) \in Nat /\ Cardinality(Successors(t, p)) \in Nat
  BY SetsAreFinite
<1>4. Cardinality(Successors(t, p)) + Cardinality(Holders(t, p)) <= Capacity
  BY DEF WidthOK
<1>5. CASE t = Tenant(r) /\ p = link[r].prev
  <2>1. Successors(t, p)' = Successors(t, p) \cup {n} /\ n \notin Successors(t, p)
    BY <1>1, <1>5 DEF Successors
  <2>2. r \in Holders(t, p)
    BY <1>1, <1>5 DEF Holders, Linking
  <2>3. Cardinality(Successors(t, p)') = Cardinality(Successors(t, p)) + 1
    BY <1>3, <2>1, FS_AddElement
  <2>4. Cardinality(Holders(t, p)') = Cardinality(Holders(t, p)) - 1
    BY <1>2, <1>3, <2>2, FS_RemoveElement
  <2> QED
    BY <1>3, <1>4, <2>3, <2>4
<1>6. CASE ~(t = Tenant(r) /\ p = link[r].prev)
  <2>1. Successors(t, p)' = Successors(t, p) /\ r \notin Holders(t, p)
    BY <1>1, <1>6 DEF Successors, Holders
  <2>2. Holders(t, p)' = Holders(t, p)
    BY <1>2, <2>1
  <2> QED
    BY <1>4, <2>1, <2>2
<1> QED
  BY <1>5, <1>6

LEMMA ForkStep ==
  ASSUME EqualClocks
  PROVE  TypeInv /\ ChainInv /\ ForkInv /\ [Next]_vars => ForkInv'
<1> SUFFICES ASSUME TypeInv, ChainInv, ForkInv, [Next]_vars PROVE ForkInv'
  OBVIOUS
<1>0. CapacityOK' /\ OrderInv' /\ HoldersFit' /\ Capacity \in Nat
  BY CapacityStep, OrderStep, TypeStep, HoldersBoundNext, RunningBound DEF ForkInv
<1> SUFFICES ASSUME NEW t \in Tenants, NEW p \in Hashes
             PROVE  Cardinality(Successors(t, p)') + Cardinality(Holders(t, p)') <= Capacity
  BY <1>0 DEF ForkInv, WidthOK, Capacity
<1>1. ASSUME UNCHANGED <<events, link, call>>,
             \A s \in Requests : pc'[s] \in Linking => pc[s] \in Linking
      PROVE  Cardinality(Successors(t, p)') + Cardinality(Holders(t, p)') <= Capacity
  <2>1. Holders(t, p)' \subseteq Holders(t, p)
    BY <1>1 DEF Holders, Tenant
  <2> QED
    BY <1>0, <1>1, <2>1, WidthKept DEF ForkInv, WidthOK
<1>2. CASE UNCHANGED vars
  BY <1>1, <1>2 DEF vars
<1>3. ASSUME NEW r \in Requests, Receive(r) \/ Proceed(r) \/ Raise(r)
      PROVE  Cardinality(Successors(t, p)') + Cardinality(Holders(t, p)') <= Capacity
  <2>1. CASE ReadHead(r)
    BY <1>0, <2>1, WidthRead DEF ForkInv
  <2>2. CASE AppendEvent(r)
    BY <1>0, <2>2, WidthAppended DEF ForkInv
  <2>3. CASE Stamp(r)
    <3>1. /\ UNCHANGED <<events, call>> /\ pc[r] = "stamp" /\ pc' = [pc EXCEPT ![r] = "append"]
          /\ \A s \in Requests : link'[s].prev = link[s].prev
      BY <2>3 DEF Stamp, Goto, NothingStored, TypeInv, TypeOK, HandlerTypeOK, Link
    <3>2. \A s \in Requests : pc'[s] \in Linking => pc[s] \in Linking
      BY <3>1 DEF Linking, TypeInv, TypeOK, HandlerTypeOK
    <3>3. Holders(t, p)' \subseteq Holders(t, p)
      BY <3>1, <3>2 DEF Holders, Tenant
    <3> QED
      BY <1>0, <3>1, <3>3, WidthKept DEF ForkInv, WidthOK
  <2>4. CASE ~(ReadHead(r) \/ AppendEvent(r) \/ Stamp(r))
    BY <1>1, <1>3, <2>4, OffLedger DEF Proceed
  <2> QED
    BY <2>1, <2>2, <2>3, <2>4
<1>4. ASSUME NEW i \in Instances, Restart(i)
      PROVE  Cardinality(Successors(t, p)') + Cardinality(Holders(t, p)') <= Capacity
  BY <1>1, <1>4 DEF Restart, Linking
<1> QED
  BY <1>2, <1>3, <1>4 DEF Next, Finished

LEMMA ForkInit == Init => ForkInv
<1> SUFFICES ASSUME Init PROVE ForkInv
  OBVIOUS
<1>1. TypeInv
  BY TypeInit
<1>2. events = <<>> /\ \A r \in Requests : pc[r] = "idle"
  BY DEF Init, StoreInit
<1>3. /\ \A i : InFlight(i) = {}
      /\ \A t, p : Successors(t, p) = {} /\ Holders(t, p) = {}
  BY <1>2 DEF InFlight, Running, Successors, Holders, Linking
<1>4. Cardinality({}) = 0 /\ Concurrency \in Nat /\ Capacity \in Nat
  <2>1. IsFiniteSet(Instances) /\ Concurrency \in Nat
    BY FleetAssumption, WorkloadAssumption
  <2>2. Cardinality(Instances) \in Nat
    BY <2>1, FS_CardinalityType
  <2> QED
    BY <2>1, <2>2, FS_EmptySet DEF Capacity
<1>5. CapacityOK /\ WidthOK
  BY <1>3, <1>4 DEF CapacityOK, WidthOK
<1>6. OrderInv
  BY <1>2 DEF OrderInv, LoggedOnce, StampOK
<1> QED
  BY <1>5, <1>6 DEF ForkInv

LEMMA ChainStart == Init => ChainInv
BY DEF Init, StoreInit, ChainInv, ChainWellFounded, LinkOK, Linking

\* With equal clocks no hash is named by more events of a tenant than handlers can run
\* at once, over all processes, whatever fails and restarts.
THEOREM ForksAreBounded == ASSUME EqualClocks PROVE Spec => []ForkWidth
<1>1. TypeInv /\ ForkInv => ForkWidth
  <2> SUFFICES ASSUME TypeInv, ForkInv, NEW t \in Tenants, NEW p \in Hashes
               PROVE  Cardinality(Successors(t, p)) <= Concurrency * Cardinality(Instances)
    BY DEF ForkWidth
  <2>1. Cardinality(Successors(t, p)) \in Nat /\ Cardinality(Holders(t, p)) \in Nat
    BY SetsAreFinite
  <2>2. Capacity \in Nat
    BY RunningBound DEF ForkInv
  <2>3. Cardinality(Successors(t, p)) <= Capacity
    BY <2>1, <2>2 DEF ForkInv, WidthOK
  <2> QED
    BY <2>3 DEF Capacity
<1> QED
  BY TypeInit, TypeStep, ChainStart, ChainStep, ForkInit, ForkStep, <1>1, PTL DEF Spec

-----------------------------------------------------------------------------
(***************************************************************************)
(* The promise.  Where one process handles one request at a time nobody    *)
(* appends between the read of a head and the append: events are stored in *)
(* the order of their stamps, the head that was read is the tail of the    *)
(* chain until it is extended, and every append is an Extend of HashChain. *)
(***************************************************************************)
Serial == Concurrency = 1 /\ Cardinality(Instances) = 1

\* Stamps grow with the position, and the next one is ahead of them all.
StampsGrow ==
  /\ \A j, k \in DOMAIN events : j < k => events[j].at < events[k].at
  /\ \A r \in Requests, k \in DOMAIN events : pc[r] = "append" => events[k].at < link[r].at

HeldIsTail == \A r \in Requests : pc[r] \in Linking => link[r].prev \in Ledger!Tails(Tenant(r))

SerialInv == CapacityOK /\ OrderInv /\ StampsGrow /\ HeldIsTail

LEMMA OneClock == ASSUME Serial PROVE EqualClocks /\ Capacity = 1
<1>1. PICK i : Instances = {i}
  BY FleetAssumption, FS_Singleton DEF Serial
<1> QED
  BY <1>1 DEF EqualClocks, Capacity, Serial

LEMMA OneRuns ==
  ASSUME Serial, TypeInv, CapacityOK, NEW r \in Requests, NEW s \in Requests,
         pc[r] \in Running, pc[s] \in Running
  PROVE  r = s
<1>1. IsFiniteSet(AllRunning) /\ Cardinality(AllRunning) <= 1
  BY OneClock, RunningBound
<1>2. r \in AllRunning /\ s \in AllRunning
  BY DEF AllRunning
<1>3. Cardinality(AllRunning) \in Nat /\ Cardinality(AllRunning) # 0
  BY <1>1, <1>2, FS_CardinalityType, FS_EmptySet
<1>4. Cardinality(AllRunning) = 1
  BY <1>1, <1>3
<1>5. PICK x : AllRunning = {x}
  BY <1>1, <1>4, FS_Singleton
<1> QED
  BY <1>2, <1>5

\* What HashChain says of the tail, in terms of the table.
LEMMA TailsOfTable ==
  ASSUME NEW t
  PROVE  Ledger!Tails(t) =
           IF VisibleEvents(t) = {} THEN {Genesis}
           ELSE {events[k].hash : k \in {j \in VisibleEvents(t) : \A m \in VisibleEvents(t) : m <= j}}
<1>1. Ledger!OfTenant(t) = VisibleEvents(t)
  BY DEF Ledger!OfTenant, VisibleEvents
<1>2. \A k : Ledger!Latest(t, k) <=> k \in VisibleEvents(t) /\ \A m \in VisibleEvents(t) : m <= k
  BY <1>1 DEF Ledger!Latest
<1>3. VisibleEvents(t) \subseteq DOMAIN events
  BY DEF VisibleEvents
<1> QED
  BY <1>1, <1>2, <1>3 DEF Ledger!Tails

\* The event with the latest stamp is the one at the end.
LEMMA HeadIsTail ==
  ASSUME TypeInv, StampsGrow, NEW t PROVE Heads(t) \subseteq Ledger!Tails(t)
<1> SUFFICES ASSUME NEW h \in Heads(t) PROVE h \in Ledger!Tails(t)
  OBVIOUS
<1>1. CASE VisibleEvents(t) = {}
  BY <1>1, TailsOfTable DEF Heads
<1>2. CASE VisibleEvents(t) # {}
  <2>1. PICK k \in VisibleEvents(t) :
          h = events[k].hash /\ \A m \in VisibleEvents(t) : events[m].at <= events[k].at
    BY <1>2 DEF Heads
  <2>2. ASSUME NEW m \in VisibleEvents(t) PROVE m <= k
    <3>1. m \in Nat /\ k \in Nat /\ m \in DOMAIN events /\ k \in DOMAIN events
      BY <2>1, EventTypes DEF VisibleEvents
    <3>2. events[m].at \in Int /\ events[k].at \in Int /\ events[m].at <= events[k].at
      BY <2>1, <3>1, EventTypes
    <3> QED
      BY <3>1, <3>2 DEF StampsGrow
  <2> QED
    BY <1>2, <2>1, <2>2, TailsOfTable
<1> QED
  BY <1>1, <1>2

\* The steps that store no event.
LEMMA SerialKept ==
  ASSUME TypeInv, SerialInv, UNCHANGED <<events, call>>,
         \A s \in Requests : pc'[s] \in Linking => pc[s] \in Linking /\ link'[s].prev = link[s].prev,
         \A s \in Requests, k \in DOMAIN events : pc'[s] = "append" => events[k].at < link'[s].at
  PROVE  StampsGrow' /\ HeldIsTail'
<1>1. StampsGrow'
  BY DEF SerialInv, StampsGrow
<1>2. HeldIsTail'
  <2> SUFFICES ASSUME NEW r \in Requests, pc'[r] \in Linking
               PROVE  link'[r].prev \in Ledger!Tails(Tenant(r))'
    BY DEF HeldIsTail
  <2>1. link'[r].prev \in Ledger!Tails(Tenant(r)) /\ Tenant(r)' = Tenant(r)
    BY DEF SerialInv, HeldIsTail, Tenant
  <2>2. Ledger!Tails(Tenant(r))' = Ledger!Tails(Tenant(r))
    BY <2>1 DEF Ledger!Tails, Ledger!OfTenant, Ledger!Latest
  <2> QED
    BY <2>1, <2>2
<1> QED
  BY <1>1, <1>2

LEMMA SerialRead ==
  ASSUME TypeInv, SerialInv, NEW r \in Requests, ReadHead(r)
  PROVE  StampsGrow' /\ HeldIsTail'
<1>1. PICK h \in Heads(Tenant(r)) : link' = [link EXCEPT ![r].prev = h]
  BY DEF ReadHead
<1>2. /\ UNCHANGED <<events, call>> /\ pc[r] = "head" /\ pc' = [pc EXCEPT ![r] = "stamp"]
  BY DEF ReadHead, ReadOnly, Goto
<1>3. /\ link'[r].prev = h /\ pc'[r] = "stamp"
      /\ \A s \in Requests : s # r => link'[s] = link[s] /\ pc'[s] = pc[s]
  BY <1>1, <1>2 DEF TypeInv, TypeOK, HandlerTypeOK, Link
<1>4. StampsGrow'
  BY <1>2, <1>3 DEF SerialInv, StampsGrow
<1>5. ASSUME NEW s \in Requests, pc'[s] \in Linking
      PROVE  link'[s].prev \in Ledger!Tails(Tenant(s))'
  <2>1. link'[s].prev \in Ledger!Tails(Tenant(s))
    BY <1>3, <1>5, HeadIsTail DEF SerialInv, HeldIsTail
  <2>2. Ledger!Tails(Tenant(s))' = Ledger!Tails(Tenant(s))
    BY <1>2 DEF Ledger!Tails, Ledger!OfTenant, Ledger!Latest, Tenant
  <2> QED
    BY <2>1, <2>2
<1> QED
  BY <1>4, <1>5 DEF HeldIsTail

LEMMA SerialAppended ==
  ASSUME Serial, TypeInv, SerialInv, NEW r \in Requests, AppendEvent(r)
  PROVE  StampsGrow' /\ HeldIsTail'
<1> DEFINE n == Len(events) + 1
<1>1. /\ n \in Nat /\ n \notin DOMAIN events
      /\ DOMAIN events' = DOMAIN events \cup {n}
      /\ \A k \in DOMAIN events : events'[k] = events[k] /\ k < n
      /\ events'[n].at = link[r].at
      /\ pc[r] = "append" /\ pc'[r] \in {"reply", "count"}
      /\ \A s \in Requests : s # r => pc'[s] = pc[s]
  BY Appended
<1>2. \A k \in DOMAIN events : k \in Nat
  BY EventTypes
<1> HIDE DEF n
<1>3. \A s \in Requests : pc'[s] \notin Linking
  <2> SUFFICES ASSUME NEW s \in Requests, pc'[s] \in Linking PROVE FALSE
    OBVIOUS
  <2>1. s # r /\ pc[s] \in Running /\ pc[r] \in Running
    BY <1>1 DEF Linking, Running
  <2> QED
    BY <2>1, OneRuns DEF SerialInv
<1>4. ASSUME NEW j \in DOMAIN events', NEW k \in DOMAIN events', j < k
      PROVE  events'[j].at < events'[k].at
  <2>1. j \in DOMAIN events
    BY <1>1, <1>2, <1>4
  <2>2. CASE k \in DOMAIN events
    BY <1>1, <1>4, <2>1, <2>2 DEF SerialInv, StampsGrow
  <2>3. CASE k = n
    BY <1>1, <2>1, <2>3 DEF SerialInv, StampsGrow
  <2> QED
    BY <1>1, <2>2, <2>3
<1> QED
  BY <1>3, <1>4 DEF StampsGrow, HeldIsTail, Linking

LEMMA SerialStamped ==
  ASSUME Serial, TypeInv, SerialInv, NEW r \in Requests, Stamp(r)
  PROVE  StampsGrow' /\ HeldIsTail'
<1>1. /\ pc[r] = "stamp" /\ pc' = [pc EXCEPT ![r] = "append"]
      /\ link' = [link EXCEPT ![r].at = Clock(inst[r])]
      /\ UNCHANGED <<events, call>>
  BY DEF Stamp, Goto, NothingStored
<1>2. /\ link'[r].at = Clock(inst[r]) /\ link'[r].prev = link[r].prev
      /\ \A s \in Requests : s # r => link'[s] = link[s] /\ pc'[s] = pc[s]
  BY <1>1 DEF TypeInv, TypeOK, HandlerTypeOK, Link
<1>3. \A s \in Requests : pc'[s] \in Linking => pc[s] \in Linking /\ link'[s].prev = link[s].prev
  BY <1>1, <1>2 DEF Linking
<1>4. ASSUME NEW s \in Requests, NEW k \in DOMAIN events, pc'[s] = "append"
      PROVE  events[k].at < link'[s].at
  <2>1. CASE s = r
    BY <1>2, <2>1, CallTypes DEF SerialInv, OrderInv, StampOK
  <2>2. CASE s # r
    BY <1>2, <1>4, <2>2 DEF SerialInv, StampsGrow
  <2> QED
    BY <2>1, <2>2
<1> QED
  BY <1>1, <1>3, <1>4, SerialKept

LEMMA SerialStep ==
  ASSUME Serial PROVE TypeInv /\ ChainInv /\ SerialInv /\ [Next]_vars => SerialInv'
<1> SUFFICES ASSUME TypeInv, ChainInv, SerialInv, [Next]_vars PROVE SerialInv'
  OBVIOUS
<1>1. CapacityOK' /\ OrderInv'
  BY OneClock, CapacityStep, OrderStep DEF SerialInv
<1>2. ASSUME UNCHANGED <<events, link, call>>,
             \A s \in Requests : pc'[s] \in Linking => pc'[s] = pc[s]
      PROVE  SerialInv'
  BY <1>1, <1>2, SerialKept DEF SerialInv, StampsGrow, Linking
<1>3. CASE UNCHANGED vars
  BY <1>2, <1>3 DEF vars
<1>4. ASSUME NEW r \in Requests, Receive(r) \/ Proceed(r) \/ Raise(r)
      PROVE  SerialInv'
  <2>1. CASE ~(ReadHead(r) \/ Stamp(r) \/ AppendEvent(r))
    BY <1>2, <1>4, <2>1, OffLedger DEF Proceed
  <2> QED
    BY <1>1, <2>1, SerialRead, SerialStamped, SerialAppended DEF SerialInv
<1>5. ASSUME NEW i \in Instances, Restart(i) PROVE SerialInv'
  BY <1>2, <1>5 DEF Restart, Linking
<1> QED
  BY <1>3, <1>4, <1>5 DEF Next, Finished

LEMMA SerialInit == Init => SerialInv
<1> SUFFICES ASSUME Init PROVE SerialInv
  OBVIOUS
<1>1. CapacityOK /\ OrderInv
  BY ForkInit DEF ForkInv
<1>2. events = <<>> /\ \A r \in Requests : pc[r] = "idle"
  BY DEF Init, StoreInit
<1> QED
  BY <1>1, <1>2 DEF SerialInv, StampsGrow, HeldIsTail, Linking
-----------------------------------------------------------------------------
Entries == [k \in DOMAIN events |-> [hash |-> events[k].hash, tenant |-> events[k].tenant,
                                     prev |-> events[k].prev]]

LEMMA PromiseExtends ==
  ASSUME TypeInv, SerialInv, NEW r \in Requests, AppendEvent(r)
  PROVE  Tenant(r) \in Tenants /\ Ledger!Extend(Tenant(r), r)
<1> DEFINE n == Len(events) + 1
           e == [hash |-> r, tenant |-> Tenant(r), prev |-> link[r].prev]
<1>1. /\ n \in Nat /\ n \notin DOMAIN events
      /\ DOMAIN events' = DOMAIN events \cup {n}
      /\ \A k \in DOMAIN events : events'[k] = events[k]
      /\ events'[n].hash = r /\ events'[n].tenant = Tenant(r) /\ events'[n].prev = link[r].prev
      /\ pc[r] = "append"
  BY Appended
<1>2. Entries' = Append(Entries, e)
  <2>1. /\ Len(events) \in Nat /\ DOMAIN events = 1..Len(events)
        /\ Entries \in [1..Len(events) -> {Entries[k] : k \in DOMAIN events}]
    BY EventTypes DEF Entries
  <2>2. Entries \in Seq({Entries[k] : k \in DOMAIN events}) /\ Len(Entries) = Len(events)
    BY <2>1
  <2>3. Append(Entries, e) = [k \in 1..n |-> IF k = n THEN e ELSE Entries[k]]
    BY <2>2
  <2>4. DOMAIN events' = 1..n
    BY <1>1, <2>1
  <2>5. Entries' = [k \in 1..n |-> IF k = n THEN e ELSE Entries[k]]
    BY <1>1, <2>1, <2>4 DEF Entries
  <2> QED
    BY <2>3, <2>5
<1>3. \A k \in DOMAIN events : events[k].hash # r
  BY <1>1 DEF SerialInv, OrderInv, LoggedOnce, Audited, Counted
<1>4. Ledger!Fresh(r)
  BY <1>3 DEF Ledger!Fresh
<1>5. link[r].prev \in Ledger!Tails(Tenant(r))
  BY <1>1 DEF SerialInv, HeldIsTail, Linking
<1> QED
  BY <1>2, <1>4, <1>5, CallTypes DEF Ledger!Extend, Entries

LEMMA PromiseStutters == UNCHANGED events => UNCHANGED Entries
BY DEF Entries

LEMMA PromiseStep == TypeInv /\ SerialInv /\ [Next]_vars => [Ledger!Next]_Entries
<1> SUFFICES ASSUME TypeInv, SerialInv, [Next]_vars PROVE [Ledger!Next]_Entries
  OBVIOUS
<1>1. CASE UNCHANGED vars
  BY <1>1, PromiseStutters DEF vars
<1>2. ASSUME NEW r \in Requests, Receive(r) \/ Proceed(r) \/ Raise(r)
      PROVE  Ledger!Next \/ UNCHANGED events
  <2>1. CASE AppendEvent(r)
    BY <2>1, PromiseExtends DEF Ledger!Next
  <2>2. CASE ReadHead(r) \/ Stamp(r)
    BY <2>2 DEF ReadHead, Stamp, ReadOnly, NothingStored
  <2>3. CASE ~(ReadHead(r) \/ Stamp(r) \/ AppendEvent(r))
    BY <1>2, <2>3, OffLedger DEF Proceed
  <2> QED
    BY <2>1, <2>2, <2>3
<1>3. ASSUME NEW i \in Instances, Restart(i) PROVE UNCHANGED events
  BY <1>3 DEF Restart
<1> QED
  BY <1>1, <1>2, <1>3, PromiseStutters DEF Next, Finished

LEMMA PromiseInit == Init => Ledger!Init
BY DEF Init, StoreInit, Ledger!Init

\* Where one process takes one request at a time, the ledger keeps its promise: per
\* tenant one chain, each event naming the hash of the one stored before it.
THEOREM OneAtATimeOneChain == ASSUME Serial PROVE Spec => RefinesChain
BY TypeInit, TypeStep, ChainStart, ChainStep, SerialInit, SerialStep, PromiseInit, PromiseStep, PTL
   DEF Spec, RefinesChain, Ledger!Spec, Entries

\* So no hash is then named twice.
THEOREM OneAtATimeNoFork == ASSUME Serial PROVE Spec => []SingleChain
<1>1. ForkWidth => SingleChain
  BY OneClock DEF ForkWidth, SingleChain, Capacity, Serial
<1> QED
  BY <1>1, OneClock, ForksAreBounded, PTL
=============================================================================
