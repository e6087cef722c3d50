--------------------------- MODULE StartupProofs ---------------------------
(***************************************************************************)
(* Starting processes: seeding, for any number of processes, demo tenants, *)
(* faults and clients, and before it the compilation of any policy file.   *)
(***************************************************************************)
EXTENDS Startup, FiniteSetTheorems, TLAPS

USE DEF storeVars, policyVars, startVars

Seeded(t) == \E d \in documents : d.tenant = t /\ d.content = Seed[t]

AllSeeded == \A k \in DOMAIN Demo : Seeded(Demo[k])

Auditing(i) == stage[i] \in {"head", "append"}

\* Until every demo tenant is seeded, nothing but seeds is stored: that is why a
\* process may take any document of a tenant for its seed.
SeedsFirst == AllSeeded \/ \A d \in documents : d.content = Seed[d.tenant]

\* What a process has behind it.
Behind(i) ==
  /\ stage[i] \in {"count", "insert", "head", "append"} =>
       \A k \in DOMAIN Demo : k < turn[i] => Seeded(Demo[k])
  /\ Auditing(i) => Seeded(Tenant(i))
  /\ stage[i] = "serving" => AllSeeded

\* A tenant's one event is written by the one process that stored its seed.
OneAuditor ==
  /\ \A i, j \in Instances : Auditing(i) /\ Auditing(j) /\ Tenant(i) = Tenant(j) => i = j
  /\ \A i \in Instances, k \in DOMAIN events : Auditing(i) => events[k].tenant # Tenant(i)
  /\ \A k \in DOMAIN events : Seeded(events[k].tenant)
  /\ SeedAuditedOnce

FaultsCover == IsFiniteSet(Unaudited) /\ UnauditedOnlyAfterFault

SeedInv ==
  /\ StartTypeOK /\ IsFiniteSet(documents)
  /\ SeedsFirst /\ \A i \in Instances : Behind(i)
  /\ OneAuditor
  /\ FaultsCover

LEMMA DemoFacts ==
  /\ DOMAIN Demo = 1..Len(Demo) /\ Len(Demo) \in Nat \ {0}
  /\ \A k \in DOMAIN Demo : Demo[k] \in Tenants
<1>1. Demo \in Seq(Tenants) /\ Demo # <<>>
  BY StartupAssumption
<1>2. DOMAIN Demo = 1..Len(Demo) /\ Len(Demo) \in Nat /\ \A k \in DOMAIN Demo : Demo[k] \in Tenants
  BY <1>1
<1>3. Len(Demo) # 0
  BY <1>1
<1> QED BY <1>2, <1>3

LEMMA HeadsTyped == ASSUME StartTypeOK, NEW t PROVE Heads(t) \subseteq Hashes
<1>1. \A k \in DOMAIN events : events[k] \in EventRow
  BY DEF StartTypeOK, StoreTypeOK
<1>2. \A k \in DOMAIN events : events[k].hash \in Requests
  BY <1>1 DEF EventRow
<1> QED BY <1>2 DEF Heads, VisibleEvents, Hashes

LEMMA InsertTypes ==
  ASSUME StoreTypeOK, NEW i \in Instances, NEW t \in Tenants, NEW c \in Contents,
         InsertDocument(i, t, c)
  PROVE  StoreTypeOK'
<1>1. [tenant |-> t, content |-> c, key |-> Key(i, t)] \in DocumentRow
  BY DEF DocumentRow, Key, Keys
<1> QED BY <1>1 DEF InsertDocument, StoreTypeOK

LEMMA AppendTypes ==
  ASSUME StartTypeOK, NEW i \in Instances, Compiled, AppendEvent(i)
  PROVE  StoreTypeOK'
<1>1. PICK r \in Requests \ {events[k].hash : k \in DOMAIN events} :
        InsertEvent([hash |-> r, tenant |-> Tenant(i), action |-> "document.ingested",
                     count |-> 1, prev |-> link[i], at |-> Clock(i)])
  BY DEF AppendEvent
<1>2. Tenant(i) \in Tenants
  BY DemoFacts DEF StartTypeOK, Tenant
<1>3. Clock(i) \in Int
  BY StoreAssumption DEF StartTypeOK, StoreTypeOK, Clock
<1>4. [hash |-> r, tenant |-> Tenant(i), action |-> "document.ingested",
       count |-> 1, prev |-> link[i], at |-> Clock(i)] \in EventRow
  BY <1>2, <1>3 DEF EventRow, Actions, StartTypeOK
<1> QED BY <1>1, <1>4 DEF InsertEvent, StartTypeOK, StoreTypeOK

LEMMA TypesStep == StartTypeOK /\ [Next]_vars => StartTypeOK'
<1> SUFFICES ASSUME StartTypeOK, [Next]_vars PROVE StartTypeOK'
  OBVIOUS
<1> USE DemoFacts DEF Stages, Goto, Advance
<1>1. CASE UNCHANGED vars \/ Compile
  BY <1>1 DEF vars, Compile, StartTypeOK, StoreTypeOK
<1>2. ASSUME NEW i \in Instances, Start(i) \/ Count(i) \/ RefuseSeed(i) \/ LoseRace(i)
      PROVE  StartTypeOK'
  <2>1. CASE Start(i)
    BY <2>1 DEF Start, StartTypeOK, StoreTypeOK
  <2>2. CASE Count(i)
    <3>1. StoreTypeOK' /\ link' = link /\ faults' = faults
      BY <2>2 DEF Count, StartTypeOK, StoreTypeOK
    <3>2. stage' \in [Instances -> Stages]
      BY <2>2 DEF Count, StartTypeOK
    <3>3. turn' \in [Instances -> DOMAIN Demo]
      BY <2>2 DEF Count, StartTypeOK
    <3> QED BY <3>1, <3>2, <3>3 DEF StartTypeOK
  <2>3. CASE RefuseSeed(i) \/ LoseRace(i)
    BY <2>3 DEF RefuseSeed, LoseRace, StartTypeOK, StoreTypeOK
  <2> QED BY <1>2, <2>1, <2>2, <2>3
<1>3. ASSUME NEW i \in Instances, ReadHead(i) PROVE StartTypeOK'
  BY <1>3, HeadsTyped DEF ReadHead, StartTypeOK, StoreTypeOK
<1>4. ASSUME NEW i \in Instances, Insert(i) PROVE StartTypeOK'
  <2>1. Tenant(i) \in Tenants /\ Seed[Tenant(i)] \in Contents
    BY StartupAssumption DEF StartTypeOK, Tenant
  <2>2. StoreTypeOK'
    BY <1>4, <2>1, InsertTypes DEF Insert, StartTypeOK
  <2> QED BY <1>4, <2>2 DEF Insert, StartTypeOK
<1>5. ASSUME NEW i \in Instances, Compiled, AppendEvent(i) PROVE StartTypeOK'
  <2>1. StoreTypeOK'
    BY <1>5, AppendTypes
  <2> QED BY <1>5, <2>1 DEF AppendEvent, StartTypeOK
<1>6. ASSUME NEW i \in Instances, Fail(i) PROVE StartTypeOK'
  BY <1>6, StartupAssumption DEF Fail, StartTypeOK, StoreTypeOK
<1>7. ASSUME NEW i \in Instances, NEW t \in Tenants, NEW c \in Contents, ClientStores(i, t, c)
      PROVE  StartTypeOK'
  <2>1. StoreTypeOK'
    BY <1>7, InsertTypes DEF ClientStores, StartTypeOK
  <2> QED BY <1>7, <2>1 DEF ClientStores, StartTypeOK
<1> QED BY <1>1, <1>2, <1>3, <1>4, <1>5, <1>6, <1>7 DEF Next, Boot

\* What is stored stays stored.
LEMMA SeededStays == ASSUME documents \subseteq documents', NEW t PROVE Seeded(t) => Seeded(t)'
BY DEF Seeded

LEMMA SomeDocument ==
  ASSUME IsFiniteSet(documents), NEW t, CountDocuments(t) # 0
  PROVE  \E d \in documents : d.tenant = t
<1>1. Visible(t) \in SUBSET documents
  BY DEF Visible
<1>2. Visible(t) # {}
  BY <1>1, FS_Subset, FS_EmptySet DEF CountDocuments
<1> QED BY <1>2 DEF Visible

\* A step that writes nothing and lets nobody begin or end an audit.
LEMMA QuietStep ==
  ASSUME SeedInv, NEW i \in Instances, UNCHANGED <<documents, events, faults>>,
         \A j \in Instances \ {i} : stage'[j] = stage[j] /\ turn'[j] = turn[j],
         Auditing(i)' <=> Auditing(i),
         Auditing(i) => turn'[i] = turn[i]
  PROVE  /\ IsFiniteSet(documents)' /\ SeedsFirst' /\ OneAuditor' /\ FaultsCover'
         /\ \A j \in Instances \ {i} : Behind(j)'
<1>1. \A t : Seeded(t)' <=> Seeded(t)
  BY DEF Seeded
<1>2. \A j \in Instances : (Auditing(j)' <=> Auditing(j)) /\ (Auditing(j) => Tenant(j)' = Tenant(j))
  BY DEF Auditing, Tenant
<1>3. \A j \in Instances \ {i} : Behind(j)'
  BY <1>1, <1>2 DEF SeedInv, Behind, AllSeeded, Auditing, Tenant
<1>4. SeedsFirst'
  BY <1>1 DEF SeedInv, SeedsFirst, AllSeeded
<1>5. OneAuditor'
  BY <1>1, <1>2 DEF SeedInv, OneAuditor, SeedAuditedOnce
<1>6. Unaudited' = Unaudited
  <2>1. \A t : (\A j \in Instances : ~(Tenant(j)' = t /\ stage'[j] \in {"head", "append"}))
                 <=> (\A j \in Instances : ~(Tenant(j) = t /\ stage[j] \in {"head", "append"}))
    BY <1>2 DEF Auditing
  <2> QED BY <2>1 DEF Unaudited
<1>7. FaultsCover'
  BY <1>6 DEF SeedInv, FaultsCover, UnauditedOnlyAfterFault
<1> QED BY <1>3, <1>4, <1>5, <1>7 DEF SeedInv

LEMMA WaitingStep ==
  ASSUME SeedInv, NEW i \in Instances,
         Start(i) \/ Count(i) \/ RefuseSeed(i) \/ LoseRace(i) \/ ReadHead(i)
  PROVE  /\ IsFiniteSet(documents)' /\ SeedsFirst' /\ OneAuditor' /\ FaultsCover'
         /\ \A j \in Instances : Behind(j)'
<1> USE DemoFacts DEF Goto, Advance
<1>1. UNCHANGED <<documents, events, faults>>
  BY DEF Start, Count, RefuseSeed, LoseRace, ReadHead
<1>2. \A j \in Instances \ {i} : stage'[j] = stage[j] /\ turn'[j] = turn[j]
  BY DEF SeedInv, StartTypeOK, Start, Count, RefuseSeed, LoseRace, ReadHead
<1>3. (Auditing(i)' <=> Auditing(i)) /\ (Auditing(i) => turn'[i] = turn[i])
  BY DEF SeedInv, StartTypeOK, Auditing, Start, Count, RefuseSeed, LoseRace, ReadHead
<1>4. \A t : Seeded(t)' <=> Seeded(t)
  BY <1>1 DEF Seeded
<1>5. Behind(i)'
  <2>1. CASE Start(i)
    BY <2>1 DEF Start, SeedInv, StartTypeOK, Behind, Auditing
  <2>2. CASE Count(i)
    <3>1. CASE CountDocuments(Tenant(i)) = 0
      BY <1>4, <2>2, <3>1 DEF Count, SeedInv, StartTypeOK, Behind, Auditing
    <3>2. CASE CountDocuments(Tenant(i)) # 0
      <4>1. Seeded(Tenant(i))
        <5>1. PICK d \in documents : d.tenant = Tenant(i)
          BY <3>2, SomeDocument DEF SeedInv
        <5>2. turn[i] \in DOMAIN Demo
          BY DEF SeedInv, StartTypeOK
        <5> QED BY <5>1, <5>2 DEF SeedInv, SeedsFirst, AllSeeded, Seeded, Tenant
      <4>2. \A k \in DOMAIN Demo : k < turn[i] + 1 => Seeded(Demo[k])
        BY <2>2, <4>1 DEF Count, SeedInv, StartTypeOK, Behind, Tenant
      <4>3. CASE turn[i] = Len(Demo)
        <5>1. AllSeeded
          BY <4>2, <4>3 DEF AllSeeded
        <5>2. stage'[i] = "serving"
          BY <2>2, <3>2, <4>3 DEF Count, SeedInv, StartTypeOK
        <5> QED BY <1>4, <5>1, <5>2 DEF Behind, AllSeeded, Auditing
      <4>4. CASE turn[i] # Len(Demo)
        <5>1. stage'[i] = "count" /\ turn'[i] = turn[i] + 1
          BY <2>2, <3>2, <4>4 DEF Count, SeedInv, StartTypeOK
        <5> QED BY <1>4, <4>2, <5>1 DEF Behind, Auditing
      <4> QED BY <4>3, <4>4
    <3> QED BY <3>1, <3>2
  <2>3. CASE RefuseSeed(i) \/ LoseRace(i)
    BY <2>3 DEF RefuseSeed, LoseRace, SeedInv, StartTypeOK, Behind, Auditing
  <2>4. CASE ReadHead(i)
    BY <1>4, <2>4 DEF ReadHead, SeedInv, StartTypeOK, Behind, Auditing, Tenant
  <2> QED BY <2>1, <2>2, <2>3, <2>4
<1> QED BY <1>1, <1>2, <1>3, <1>5, QuietStep

\* A process inserts a seed only where there was none: nobody else audits it, and it
\* has no event.
LEMMA InsertStep ==
  ASSUME SeedInv, NEW i \in Instances, Insert(i)
  PROVE  /\ IsFiniteSet(documents)' /\ SeedsFirst' /\ OneAuditor' /\ FaultsCover'
         /\ \A j \in Instances : Behind(j)'
<1> USE DemoFacts DEF Goto
<1> DEFINE row == [tenant |-> Tenant(i), content |-> Seed[Tenant(i)], key |-> Key(i, Tenant(i))]
<1>1. /\ documents' = documents \cup {row}
      /\ UNCHANGED <<events, turn, faults>>
      /\ ~Seeded(Tenant(i))
  BY DEF Insert, InsertDocument, Duplicate, Seeded
<1>2. /\ stage[i] = "insert" /\ stage'[i] = "head"
      /\ \A j \in Instances \ {i} : stage'[j] = stage[j]
      /\ \A j \in Instances : Tenant(j)' = Tenant(j)
  BY <1>1 DEF Insert, SeedInv, StartTypeOK, Tenant
<1>3. \A t : Seeded(t)' <=> Seeded(t) \/ t = Tenant(i)
  <2>1. row.tenant = Tenant(i) /\ row.content = Seed[Tenant(i)]
    OBVIOUS
  <2> QED BY <1>1, <2>1 DEF Seeded
<1>4. IsFiniteSet(documents)'
  BY <1>1, FS_AddElement DEF SeedInv
<1>6. SeedsFirst'
  BY <1>1, <1>3 DEF SeedInv, SeedsFirst, AllSeeded
<1>7. \A j \in Instances : Behind(j)'
  BY <1>1, <1>2, <1>3 DEF SeedInv, Behind, Auditing, AllSeeded
<1>8. OneAuditor'
  <2>1. \A j \in Instances : Auditing(j) => Tenant(j) # Tenant(i)
    BY <1>1 DEF SeedInv, Behind
  <2>2. \A k \in DOMAIN events : events[k].tenant # Tenant(i)
    BY <1>1 DEF SeedInv, OneAuditor
  <2> QED BY <1>1, <1>2, <1>3, <2>1, <2>2 DEF SeedInv, OneAuditor, Auditing, SeedAuditedOnce
<1>9. FaultsCover'
  <2>1. Unaudited' \in SUBSET Unaudited
    BY <1>1, <1>2, <1>3 DEF Unaudited, Seeded
  <2> QED BY <1>1, <2>1, FS_Subset, FS_CardinalityType
          DEF SeedInv, FaultsCover, UnauditedOnlyAfterFault, StartTypeOK
<1> QED BY <1>4, <1>6, <1>7, <1>8, <1>9

LEMMA AppendStep ==
  ASSUME SeedInv, NEW i \in Instances, AppendEvent(i)
  PROVE  /\ IsFiniteSet(documents)' /\ SeedsFirst' /\ OneAuditor' /\ FaultsCover'
         /\ \A j \in Instances : Behind(j)'
<1> USE DemoFacts DEF Goto, Advance
<1>1. PICK r \in Requests \ {events[k].hash : k \in DOMAIN events} :
        InsertEvent([hash |-> r, tenant |-> Tenant(i), action |-> "document.ingested",
                     count |-> 1, prev |-> link[i], at |-> Clock(i)])
  BY DEF AppendEvent
<1>2. /\ Len(events) \in Nat /\ DOMAIN events = 1..Len(events)
      /\ DOMAIN events' = 1..(Len(events) + 1)
      /\ \A k \in DOMAIN events : events'[k] = events[k]
      /\ events'[Len(events) + 1].tenant = Tenant(i)
  BY <1>1 DEF InsertEvent, SeedInv, StartTypeOK, StoreTypeOK
<1>3. UNCHANGED <<documents, faults>>
  BY <1>1 DEF AppendEvent, InsertEvent
<1>4. /\ stage[i] = "append" /\ stage'[i] \in {"serving", "count"}
      /\ \A j \in Instances \ {i} : stage'[j] = stage[j] /\ turn'[j] = turn[j]
  BY DEF AppendEvent, SeedInv, StartTypeOK
<1>5. \A t : Seeded(t)' <=> Seeded(t)
  BY <1>3 DEF Seeded
<1>6. IsFiniteSet(documents)' /\ SeedsFirst'
  BY <1>3, <1>5 DEF SeedInv, SeedsFirst, AllSeeded
<1>7. Behind(i)'
  <2>1. \A k \in DOMAIN Demo : k < turn[i] + 1 => Seeded(Demo[k])
    BY <1>4 DEF SeedInv, StartTypeOK, Behind, Auditing, Tenant
  <2>2. CASE turn[i] = Len(Demo)
    <3>1. AllSeeded
      BY <2>1, <2>2 DEF AllSeeded
    <3>2. stage'[i] = "serving"
      BY <2>2 DEF AppendEvent, SeedInv, StartTypeOK
    <3> QED BY <1>5, <3>1, <3>2 DEF Behind, AllSeeded, Auditing
  <2>3. CASE turn[i] # Len(Demo)
    <3>1. stage'[i] = "count" /\ turn'[i] = turn[i] + 1
      BY <2>3 DEF AppendEvent, SeedInv, StartTypeOK
    <3> QED BY <1>5, <2>1, <3>1 DEF Behind, Auditing
  <2> QED BY <2>2, <2>3
<1>8. \A j \in Instances \ {i} : Behind(j)'
  BY <1>4, <1>5 DEF SeedInv, Behind, AllSeeded, Auditing, Tenant
<1>9. \A j \in Instances \ {i} : Auditing(j)' <=> Auditing(j)
  BY <1>4 DEF Auditing
<1>10. \A j \in Instances \ {i} : Tenant(j)' = Tenant(j)
  BY <1>4 DEF Tenant
<1>11. ~Auditing(i)' /\ Auditing(i)
  BY <1>4 DEF Auditing
<1>12. OneAuditor'
  <2>1. \A k \in DOMAIN events : events[k].tenant # Tenant(i)
    BY <1>11 DEF SeedInv, OneAuditor
  <2>2. \A j \in Instances \ {i} : Auditing(j) => Tenant(j) # Tenant(i)
    BY <1>11 DEF SeedInv, OneAuditor
  <2>3. Seeded(Tenant(i))
    BY <1>11 DEF SeedInv, Behind
  <2>4. \A k \in DOMAIN events' : k \in DOMAIN events \/ k = Len(events) + 1
    BY <1>2
  <2>5. SeedAuditedOnce'
    BY <1>2, <2>1, <2>4 DEF SeedInv, OneAuditor, SeedAuditedOnce
  <2>6. (\A k \in DOMAIN events : Seeded(events[k].tenant))'
    BY <1>2, <1>5, <2>3, <2>4 DEF SeedInv, OneAuditor
  <2>7. \A j \in Instances, k \in DOMAIN events' : Auditing(j)' => events'[k].tenant # Tenant(j)'
    BY <1>2, <1>9, <1>10, <1>11, <2>2, <2>4 DEF SeedInv, OneAuditor
  <2>8. \A j, k \in Instances : Auditing(j)' /\ Auditing(k)' /\ Tenant(j)' = Tenant(k)' => j = k
    BY <1>9, <1>10, <1>11 DEF SeedInv, OneAuditor
  <2> QED BY <2>5, <2>6, <2>7, <2>8 DEF OneAuditor
<1>13. FaultsCover'
  <2>1. ASSUME NEW t \in Unaudited' PROVE t \in Unaudited
    <3>1. t # Tenant(i)
      BY <1>2, <2>1 DEF Unaudited
    <3>2. \A k \in DOMAIN events : events[k].tenant # t
      BY <1>2, <2>1 DEF Unaudited
    <3>3. \A j \in Instances : ~(Tenant(j) = t /\ Auditing(j))
      BY <1>9, <1>10, <2>1, <3>1 DEF Unaudited, Auditing
    <3> QED BY <1>3, <2>1, <3>2, <3>3 DEF Unaudited, Auditing
  <2> QED BY <1>3, <2>1, FS_Subset, FS_CardinalityType
          DEF SeedInv, FaultsCover, UnauditedOnlyAfterFault, StartTypeOK
<1> QED BY <1>6, <1>7, <1>8, <1>12, <1>13

\* A fault leaves at most the audit of the tenant its process was at.
LEMMA FailStep ==
  ASSUME SeedInv, NEW i \in Instances, Fail(i)
  PROVE  /\ IsFiniteSet(documents)' /\ SeedsFirst' /\ OneAuditor' /\ FaultsCover'
         /\ \A j \in Instances : Behind(j)'
<1>1. UNCHANGED <<documents, events, turn>> /\ faults' = faults + 1
  BY DEF Fail
<1>2. stage'[i] = "down" /\ \A j \in Instances \ {i} : stage'[j] = stage[j]
  BY DEF Fail, SeedInv, StartTypeOK
<1>3. \A t : Seeded(t)' <=> Seeded(t)
  BY <1>1 DEF Seeded
<1>4. \A j \in Instances : (Auditing(j)' => Auditing(j)) /\ Tenant(j)' = Tenant(j)
  BY <1>1, <1>2 DEF Auditing, Tenant
<1>5. IsFiniteSet(documents)' /\ SeedsFirst'
  BY <1>1, <1>3 DEF SeedInv, SeedsFirst, AllSeeded
<1>6. \A j \in Instances : Behind(j)'
  BY <1>1, <1>2, <1>3, <1>4 DEF SeedInv, Behind, AllSeeded, Auditing
<1>7. OneAuditor'
  BY <1>1, <1>3, <1>4 DEF SeedInv, OneAuditor, SeedAuditedOnce
<1>8. FaultsCover'
  <2>1. \A j \in Instances \ {i} : Auditing(j)' <=> Auditing(j)
    BY <1>2 DEF Auditing
  <2>2. Unaudited' \in SUBSET (Unaudited \cup {Tenant(i)})
    <3>1. ASSUME NEW t \in Unaudited', t # Tenant(i) PROVE t \in Unaudited
      <4>1. \A j \in Instances : ~(Tenant(j) = t /\ Auditing(j))
        BY <1>4, <2>1, <3>1 DEF Unaudited, Auditing
      <4> QED BY <1>1, <3>1, <4>1 DEF Unaudited, Auditing
    <3> QED BY <3>1
  <2>3. /\ IsFiniteSet(Unaudited \cup {Tenant(i)})
        /\ Cardinality(Unaudited \cup {Tenant(i)}) <= faults + 1
    <3>1. IsFiniteSet(Unaudited) /\ Cardinality(Unaudited) <= faults /\ faults \in Nat
      BY DEF SeedInv, FaultsCover, UnauditedOnlyAfterFault, StartTypeOK
    <3>2. Cardinality(Unaudited) \in Nat
      BY <3>1, FS_CardinalityType
    <3> QED BY <3>1, <3>2, FS_AddElement
  <2> QED BY <1>1, <2>2, <2>3, FS_Subset, FS_CardinalityType
          DEF SeedInv, FaultsCover, UnauditedOnlyAfterFault, StartTypeOK
<1> QED BY <1>5, <1>6, <1>7, <1>8

\* A client is served only once every demo tenant is seeded.
LEMMA ClientStep ==
  ASSUME SeedInv, NEW i \in Instances, NEW t \in Tenants, NEW c \in Contents, ClientStores(i, t, c)
  PROVE  /\ IsFiniteSet(documents)' /\ SeedsFirst' /\ OneAuditor' /\ FaultsCover'
         /\ \A j \in Instances : Behind(j)'
<1>1. /\ documents' = documents \cup {[tenant |-> t, content |-> c, key |-> Key(i, t)]}
      /\ ~Duplicate(t, c)
      /\ UNCHANGED <<events, stage, turn, faults>>
  BY DEF ClientStores, InsertDocument
<1>2. AllSeeded
  BY DEF ClientStores, SeedInv, Behind
<1>3. \A x : Seeded(x) => Seeded(x)'
  BY <1>1, SeededStays
<1>4. SeedsFirst'
  BY <1>2, <1>3 DEF SeedsFirst, AllSeeded
<1>5. IsFiniteSet(documents)'
  BY <1>1, FS_AddElement DEF SeedInv
<1>7. \A j \in Instances : (Auditing(j)' <=> Auditing(j)) /\ Tenant(j)' = Tenant(j)
  BY <1>1 DEF Auditing, Tenant
<1>8. \A j \in Instances : Behind(j)'
  BY <1>1, <1>3, <1>7 DEF SeedInv, Behind, AllSeeded
<1>9. OneAuditor'
  BY <1>1, <1>3, <1>7 DEF SeedInv, OneAuditor, SeedAuditedOnce
<1>10. FaultsCover'
  <2>1. ASSUME NEW x \in Unaudited' PROVE x \in Unaudited
    <3>1. Seeded(x)
      BY <1>2, <2>1 DEF Unaudited, AllSeeded, DemoTenants
    <3>2. \A j \in Instances : ~(Tenant(j) = x /\ stage[j] \in {"head", "append"})
      BY <1>7, <2>1 DEF Unaudited, Auditing
    <3> QED BY <1>1, <2>1, <3>1, <3>2 DEF Unaudited, Seeded
  <2> QED BY <1>1, <2>1, FS_Subset, FS_CardinalityType
          DEF SeedInv, FaultsCover, UnauditedOnlyAfterFault, StartTypeOK
<1> QED BY <1>4, <1>5, <1>8, <1>9, <1>10

LEMMA SeedInvInit == Init => SeedInv
<1> SUFFICES ASSUME Init PROVE SeedInv
  OBVIOUS
<1> USE DemoFacts DEF Init, StoreInit
<1>1. StartTypeOK
  BY StartupAssumption DEF StartTypeOK, StoreTypeOK, Stages, Hashes
<1>2. IsFiniteSet(documents) /\ SeedsFirst
  BY FS_EmptySet DEF SeedsFirst
<1>3. \A i \in Instances : Behind(i)
  BY DEF Behind, Auditing
<1>4. OneAuditor
  BY DEF OneAuditor, Auditing, SeedAuditedOnce
<1>5. Unaudited = {}
  BY DEF Unaudited
<1>6. FaultsCover
  BY <1>5, FS_EmptySet DEF FaultsCover, UnauditedOnlyAfterFault
<1> QED BY <1>1, <1>2, <1>3, <1>4, <1>6 DEF SeedInv

LEMMA SeedInvStep == SeedInv /\ [Next]_vars => SeedInv'
<1> SUFFICES ASSUME SeedInv, [Next]_vars PROVE SeedInv'
  OBVIOUS
<1>1. StartTypeOK'
  BY TypesStep DEF SeedInv
<1>2. CASE UNCHANGED vars \/ Compile
  <2>1. UNCHANGED <<documents, events, stage, turn, faults>>
    BY <1>2 DEF vars, Compile
  <2>2. Unaudited' = Unaudited
    BY <2>1 DEF Unaudited, Tenant
  <2> QED BY <1>1, <2>1, <2>2 DEF SeedInv, SeedsFirst, AllSeeded, Seeded, Behind,
             Auditing, Tenant, OneAuditor, SeedAuditedOnce, FaultsCover, UnauditedOnlyAfterFault
<1>3. ASSUME NEW i \in Instances, Boot(i) \/ Fail(i) PROVE SeedInv'
  BY <1>1, <1>3, WaitingStep, InsertStep, AppendStep, FailStep DEF Boot, SeedInv
<1>4. ASSUME NEW i \in Instances, NEW t \in Tenants, NEW c \in Contents, ClientStores(i, t, c)
      PROVE  SeedInv'
  BY <1>1, <1>4, ClientStep DEF SeedInv
<1> QED BY <1>2, <1>3, <1>4 DEF Next

LEMMA SeedInvariant == Spec => []SeedInv
BY SeedInvInit, SeedInvStep, PTL DEF Spec

\* Types hold for any number of processes, tenants, seeds and faults.
THEOREM StartTypes == Spec => []StartTypeOK
<1>1. SeedInv => StartTypeOK
  BY DEF SeedInv
<1> QED BY <1>1, SeedInvariant, PTL

\* When any process serves, every demo tenant has its seed.
THEOREM ServingTheorem == Spec => []ServingSeeded
<1>1. SeedInv => ServingSeeded
  BY DEF SeedInv, Behind, AllSeeded, Seeded, ServingSeeded, DemoTenants
<1> QED BY <1>1, SeedInvariant, PTL

\* A seed has at most one audit event.
THEOREM AuditTheorem == Spec => []SeedAuditedOnce
<1>1. SeedInv => SeedAuditedOnce
  BY DEF SeedInv, OneAuditor
<1> QED BY <1>1, SeedInvariant, PTL

\* Each fault leaves at most one seed without its event, and nothing else does.
THEOREM FaultTheorem == Spec => []UnauditedOnlyAfterFault
<1>1. SeedInv => UnauditedOnlyAfterFault
  BY DEF SeedInv, FaultsCover
<1> QED BY <1>1, SeedInvariant, PTL

-----------------------------------------------------------------------------
(***************************************************************************)
(* Every file, of any length: the loop of from_file compiles what the file *)
(* says, and what it accepts is within the bounds the rest of the service  *)
(* relies on.                                                              *)
(***************************************************************************)
\* Where the loop is: the entries before it were valid and are compiled.
Progress ==
  /\ source \in Files
  /\ phase \in {"gate", "contracts", "accepted", "rejected"}
  /\ at \in 1..(Len(source.contracts) + 1)
  /\ \A j \in 1..(at - 1) : Valid(source.contracts[j])

MeaningSoFar ==
  /\ SaysOf(source, at - 1, contracts)
  /\ DOMAIN contracts \subseteq Tenants
  /\ \A t \in DOMAIN contracts : contracts[t] \in TenantContract

Decided ==
  /\ phase \in {"contracts", "accepted"} => GateSound(source)
  /\ phase = "accepted" => at = Len(source.contracts) + 1 /\ DOMAIN contracts # {}
  /\ phase = "rejected" =>
       \/ ~GateSound(source)
       \/ \E j \in 1..Len(source.contracts) : ~Valid(source.contracts[j])
       \/ Len(source.contracts) = 0

CompileInv == Progress /\ MeaningSoFar /\ Decided

\* int() of a number is a whole number.
LEMMA WholeType == \A h \in Int : Whole(h) \in Int
BY DEF Whole

\* The terms of a valid entry are a contract.
LEMMA TermsValid ==
  ASSUME NEW raw \in Entry, Valid(raw)
  PROVE  Terms(raw) \in TenantContract
<1>1. raw.maxResults \in Int /\ raw.slo \in Int /\ raw.scopes \in SUBSET PolicyScopes
  BY DEF Entry
<1>2. Whole(raw.maxResults) \in 1..10 /\ Whole(raw.slo) \in Int
  BY <1>1, WholeType DEF Valid
<1>3. raw.scopes \in {s \in SUBSET PolicyScopes : "rag:read" \in s}
  BY <1>1 DEF Valid
<1> QED  BY <1>2, <1>3 DEF Terms, TenantContract

\* A file of the constant's set is a file.
LEMMA FileShape ==
  ASSUME NEW file \in Files
  PROVE  /\ file.contracts \in Seq(Entry)
         /\ Len(file.contracts) \in Nat
         /\ \A j \in 1..Len(file.contracts) : file.contracts[j] \in Entry
BY FilesAssumption DEF File

\* One entry more: its tenant gets its terms, every other keeps those it had.
LEMMA SaysOfStep ==
  ASSUME NEW file, NEW n \in Nat, NEW c, NEW d, SaysOf(file, n, c),
         d = Bind(c, file.contracts[n + 1])
  PROVE  SaysOf(file, n + 1, d)
<1> DEFINE E(j) == file.contracts[j]
<1> DEFINE new == file.contracts[n + 1]
<1>1. DOMAIN c = {E(j).tenant : j \in 1..n}
  BY DEF SaysOf
<1>2. DOMAIN d = DOMAIN c \cup {new.tenant}
  BY DEF Bind
<1>3. 1..(n + 1) = 1..n \cup {n + 1}
  OBVIOUS
<1>4. DOMAIN d = {E(j).tenant : j \in 1..(n + 1)}
  BY <1>1, <1>2, <1>3
<1>5. ASSUME NEW j \in 1..(n + 1), \A m \in (j + 1)..(n + 1) : E(m).tenant # E(j).tenant
      PROVE  d[E(j).tenant] = Terms(E(j))
  <2>1. CASE j = n + 1
    <3>1. E(j) = new
      BY <2>1
    <3> QED  BY <1>2, <3>1 DEF Bind
  <2>2. CASE j # n + 1
    <3>1. j \in 1..n /\ n + 1 \in (j + 1)..(n + 1)
      BY <2>2
    <3>2. new.tenant # E(j).tenant
      BY <1>5, <3>1
    <3>3. E(j).tenant \in DOMAIN c
      BY <1>1, <3>1
    <3>4. \A m \in (j + 1)..n : m \in (j + 1)..(n + 1)
      BY <3>1
    <3>5. c[E(j).tenant] = Terms(E(j))
      BY <1>5, <3>1, <3>4 DEF SaysOf
    <3> QED  BY <1>2, <3>2, <3>3, <3>5 DEF Bind
  <2> QED  BY <2>1, <2>2
<1> QED  BY <1>4, <1>5 DEF SaysOf

LEMMA CompileInvInit == CompileInit => CompileInv
<1> SUFFICES ASSUME CompileInit PROVE CompileInv
  OBVIOUS
<1>1. Progress
  BY FileShape DEF CompileInit, Progress
<1>2. DOMAIN contracts = {} /\ at - 1 = 0
  BY DEF CompileInit
<1>3. MeaningSoFar
  BY <1>2 DEF MeaningSoFar, SaysOf
<1>4. Decided
  BY DEF CompileInit, Decided
<1> QED  BY <1>1, <1>3, <1>4 DEF CompileInv

LEMMA CompileInvStep == CompileInv /\ [CompileNext]_policyVars => CompileInv'
<1> SUFFICES ASSUME CompileInv, [CompileNext]_policyVars PROVE CompileInv'
  OBVIOUS
<1> USE DEF CompileInv
<1>0. Len(source.contracts) \in Nat /\ at \in Nat /\ at - 1 \in Nat
  BY FileShape DEF Progress
<1>1. CASE CheckGate
  <2>1. UNCHANGED <<source, at, contracts>>
    BY <1>1 DEF CheckGate
  <2>2. Progress'
    BY <1>1, <2>1 DEF CheckGate, Progress
  <2>3. MeaningSoFar'
    BY <2>1 DEF MeaningSoFar, SaysOf
  <2>4. Decided'
    BY <1>1, <2>1 DEF CheckGate, Decided, GateSound
  <2> QED  BY <2>2, <2>3, <2>4
<1>2. CASE CompileEntry
  <2> DEFINE raw == source.contracts[at]
  <2>1. source' = source /\ phase' = phase /\ at' = at + 1 /\ contracts' = Bind(contracts, raw)
    BY <1>2 DEF CompileEntry
  <2>2. at <= Len(source.contracts) /\ Valid(raw) /\ raw \in Entry /\ phase = "contracts"
    BY <1>0, <1>2, FileShape DEF CompileEntry, Progress
  <2>3. \A j \in 1..at : j \in 1..(at - 1) \/ j = at
    BY <1>0
  <2>4. Progress'
    <3>1. \A j \in 1..at : Valid(source.contracts[j])
      BY <2>2, <2>3 DEF Progress
    <3>2. at' - 1 = at /\ at' \in 1..(Len(source.contracts) + 1)
      BY <1>0, <2>1, <2>2
    <3> QED  BY <2>1, <3>1, <3>2 DEF Progress
  <2>5. SaysOf(source, at, contracts')
    <3>1. SaysOf(source, (at - 1) + 1, contracts')
      <4>1. (at - 1) + 1 = at
        BY <1>0
      <4>2. SaysOf(source, at - 1, contracts) /\ contracts' = Bind(contracts, source.contracts[(at - 1) + 1])
        BY <2>1, <4>1 DEF MeaningSoFar
      <4> QED  BY <1>0, <4>2, SaysOfStep
    <3> QED  BY <1>0, <3>1
  <2>6. Terms(raw) \in TenantContract /\ raw.tenant \in Tenants
    BY <2>2, TermsValid DEF Entry
  <2>7. /\ DOMAIN contracts' \subseteq Tenants
        /\ \A t \in DOMAIN contracts' : contracts'[t] \in TenantContract
    BY <2>1, <2>6 DEF Bind, MeaningSoFar
  <2>8. MeaningSoFar'
    <3>1. at' - 1 = at
      BY <1>0, <2>1
    <3> QED  BY <2>1, <2>5, <2>7, <3>1 DEF MeaningSoFar, SaysOf
  <2>9. Decided'
    BY <2>1, <2>2 DEF Decided, GateSound
  <2> QED  BY <2>4, <2>8, <2>9
<1>3. CASE RejectEntry
  <2>1. UNCHANGED <<source, at, contracts>> /\ phase' = "rejected"
    BY <1>3 DEF RejectEntry
  <2>2. \E j \in 1..Len(source.contracts) : ~Valid(source.contracts[j])
    BY <1>0, <1>3 DEF RejectEntry, Progress
  <2>3. Progress'
    BY <2>1 DEF Progress
  <2>4. MeaningSoFar'
    BY <2>1 DEF MeaningSoFar, SaysOf
  <2>5. Decided'
    BY <2>1, <2>2 DEF Decided, GateSound
  <2> QED  BY <2>3, <2>4, <2>5
<1>4. CASE Finish
  <2>1. UNCHANGED <<source, at, contracts>> /\ phase = "contracts"
    BY <1>4 DEF Finish
  <2>2. at = Len(source.contracts) + 1
    BY <1>0, <1>4 DEF Finish, Progress
  <2>3. phase' = "rejected" => Len(source.contracts) = 0
    <3>1. SUFFICES ASSUME DOMAIN contracts = {}, Len(source.contracts) # 0 PROVE FALSE
      BY <1>4 DEF Finish
    <3>2. 1 \in 1..(at - 1)
      BY <1>0, <2>2, <3>1
    <3>3. DOMAIN contracts = {source.contracts[j].tenant : j \in 1..(at - 1)}
      BY DEF MeaningSoFar, SaysOf
    <3> QED  BY <3>1, <3>2, <3>3
  <2>4. Progress'
    BY <1>4, <2>1 DEF Finish, Progress
  <2>5. MeaningSoFar'
    BY <2>1 DEF MeaningSoFar, SaysOf
  <2>6. Decided'
    BY <1>4, <2>1, <2>2, <2>3 DEF Finish, Decided, GateSound
  <2> QED  BY <2>4, <2>5, <2>6
<1>5. CASE UNCHANGED policyVars
  BY <1>5 DEF policyVars, Progress, MeaningSoFar, SaysOf, Decided, GateSound
<1> QED  BY <1>1, <1>2, <1>3, <1>4, <1>5 DEF CompileNext

LEMMA CompileInvariant == CompileSpec => []CompileInv
BY CompileInvInit, CompileInvStep, PTL DEF CompileSpec

\* Starting processes do nothing to the policy but compile it.
LEMMA StartupCompiles == Spec => CompileSpec
<1>1. Init => CompileInit
  BY DEF Init
<1>2. [Next]_vars => [CompileNext]_policyVars
  BY DEF Next, Compile, Boot, Fail, ClientStores, Compiled, vars
<1> QED
  BY <1>1, <1>2, PTL DEF Spec, CompileSpec

\* from_file: whatever the file, the contracts a process starts with are bounded.
THEOREM BoundedTheorem == Spec => []ContractsBounded
<1>1. CompileInv => ContractsBounded
  BY DEF CompileInv, MeaningSoFar, Decided, ContractsBounded
<1> QED
  BY <1>1, CompileInvariant, StartupCompiles, PTL

\* from_file: whatever the file, acceptance and meaning are those of the whole file.
THEOREM MeaningTheorem == Spec => []CompilesToMeaning
<1>1. CompileInv => CompilesToMeaning
  <2> SUFFICES ASSUME CompileInv PROVE CompilesToMeaning
    OBVIOUS
  <2>0. Len(source.contracts) \in Nat
    BY FileShape DEF CompileInv, Progress
  <2>1. ASSUME phase = "accepted"
        PROVE  /\ GateSound(source) /\ Len(source.contracts) > 0
               /\ \A j \in 1..Len(source.contracts) : Valid(source.contracts[j])
               /\ SaysOf(source, Len(source.contracts), contracts)
    <3>1. at - 1 = Len(source.contracts) /\ DOMAIN contracts # {} /\ GateSound(source)
      BY <2>0, <2>1 DEF CompileInv, Decided
    <3>2. SaysOf(source, Len(source.contracts), contracts)
      BY <3>1 DEF CompileInv, MeaningSoFar
    <3>3. Len(source.contracts) # 0
      <4>1. SUFFICES ASSUME Len(source.contracts) = 0 PROVE DOMAIN contracts = {}
        BY <3>1
      <4> QED  BY <3>2, <4>1 DEF SaysOf
    <3> QED  BY <2>0, <3>1, <3>2, <3>3 DEF CompileInv, Progress
  <2>2. ASSUME phase = "rejected"
        PROVE  ~(/\ GateSound(source) /\ Len(source.contracts) > 0
                 /\ \A j \in 1..Len(source.contracts) : Valid(source.contracts[j]))
    BY <2>0, <2>2 DEF CompileInv, Decided
  <2> QED  BY <2>1, <2>2 DEF CompilesToMeaning
<1> QED
  BY <1>1, CompileInvariant, StartupCompiles, PTL
=============================================================================
