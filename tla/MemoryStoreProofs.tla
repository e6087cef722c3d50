------------------------- MODULE MemoryStoreProofs -------------------------
(***************************************************************************)
(* MemoryRagStore for any number of threads, tenants and calls.            *)
(***************************************************************************)
EXTENDS MemoryStore, TLAPS

\* The tenant a list was made for.
ListTenant(o) == IF o \in Tenants THEN o ELSE Tenant(o)

\* No list serves two tenants, and no thread holds another tenant's list.
Apart ==
  /\ \A x \in Tables, t \in Tenants : bucket[x][t] # "missing" => ListTenant(bucket[x][t]) = t
  /\ \A r \in Requests : ListTenant(held[r]) = Tenant(r)
  /\ \A o \in Lists : \A d \in documents[o] : d.tenant = ListTenant(o)
  /\ \A o \in Lists : \A k \in DOMAIN events[o] : events[o][k].tenant = ListTenant(o)

\* Some list holds an event of t with the hash h.
Known(t, h) ==
  h = Genesis \/ \E p \in Lists : \E j \in DOMAIN events[p] :
                   events[p][j].hash = h /\ events[p][j].tenant = t

Linked ==
  /\ \A r \in Requests : Known(Tenant(r), prev[r])
  /\ \A o \in Lists : \A k \in DOMAIN events[o] : Known(events[o][k].tenant, events[o][k].prev)

\* A thread of a seeded tenant never misses the list, and writes to it.
InPlace(r) ==
  /\ ~creating[r]
  /\ step[r] > 2 => held[r] = Tenant(r)
  /\ step[r] > 3 /\ job[r].kind = "ingest" => \E d \in documents[Tenant(r)] : d.id = r
  /\ step[r] > 7 => Contains(events[Tenant(r)], r)

Kept ==
  /\ \A x \in Tables, t \in Seeded : bucket[x][t] = t
  /\ \A r \in Requests : Tenant(r) \in Seeded => InPlace(r)

MemoryInv == MemoryTypeOK /\ Apart /\ Linked /\ Kept

LEMMA JobTypes ==
  ASSUME MemoryTypeOK, NEW r \in Requests
  PROVE  /\ job[r].kind \in {"ingest", "query"} /\ job[r].content \in Contents
         /\ Tenant(r) \in Tenants /\ Tenant(r) \in Lists /\ Tenant(r) # "missing" /\ r # "missing"
         /\ r \in Lists /\ r \notin Tenants
         /\ Tenant(r) \notin Requests
<1>1. job[r] \in Job
  BY MemoryAssumption DEF MemoryTypeOK
<1> QED BY <1>1, MemoryAssumption DEF Job, Tenant, Lists

\* The program, operation by operation.
LEMMA Places ==
  ASSUME NEW r \in Requests, step[r] \in Int, job[r].kind \in {"ingest", "query"}
  PROVE  /\ At(r, "check") => step[r] = 1
         /\ At(r, "documents") => step[r] = 2 \/ (step[r] = 8 /\ job[r].kind = "query")
         /\ At(r, "keep") => step[r] = 3 /\ job[r].kind = "ingest"
         /\ At(r, "rank") => step[r] = 3 /\ job[r].kind = "query"
         /\ At(r, "events") => step[r] \in {4, 6}
         /\ At(r, "head") => step[r] = 5
         /\ At(r, "append") => step[r] = 7
         /\ At(r, "size") => step[r] = 9 /\ job[r].kind = "query"
         /\ Answered(r) => step[r] > 7
<1>1. CASE job[r].kind = "ingest"
  <2> DEFINE code == <<"check", "documents", "keep", "events", "head", "events", "append">>
  <2>1. Program(r) = code
    BY <1>1 DEF Program
  <2>2. DOMAIN code = 1..7 /\ Len(code) = 7
    OBVIOUS
  <2>3. /\ code[1] = "check" /\ code[2] = "documents" /\ code[3] = "keep" /\ code[4] = "events"
        /\ code[5] = "head" /\ code[6] = "events" /\ code[7] = "append"
    OBVIOUS
  <2> HIDE DEF code
  <2>4. \A n \in 1..7 : n = 1 \/ n = 2 \/ n = 3 \/ n = 4 \/ n = 5 \/ n = 6 \/ n = 7
    OBVIOUS
  <2> QED BY <1>1, <2>1, <2>2, <2>3, <2>4 DEF At, Answered
<1>2. CASE job[r].kind = "query"
  <2> DEFINE code == <<"check", "documents", "rank", "events", "head", "events", "append", "documents", "size">>
  <2>1. Program(r) = code
    BY <1>2 DEF Program
  <2>2. DOMAIN code = 1..9 /\ Len(code) = 9
    OBVIOUS
  <2>3. /\ code[1] = "check" /\ code[2] = "documents" /\ code[3] = "rank" /\ code[4] = "events"
        /\ code[5] = "head" /\ code[6] = "events" /\ code[7] = "append" /\ code[8] = "documents"
        /\ code[9] = "size"
    OBVIOUS
  <2> HIDE DEF code
  <2>4. \A n \in 1..9 : n = 1 \/ n = 2 \/ n = 3 \/ n = 4 \/ n = 5 \/ n = 6 \/ n = 7 \/ n = 8 \/ n = 9
    OBVIOUS
  <2> QED BY <1>2, <2>1, <2>2, <2>3, <2>4 DEF At, Answered
<1> QED BY <1>1, <1>2

LEMMA MemoryInit == Init => MemoryInv
<1> SUFFICES ASSUME Init PROVE MemoryInv
  OBVIOUS
<1>1. MemoryTypeOK
  BY MemoryAssumption DEF Init, MemoryTypeOK, Lists, Hashes
<1>2. \A r \in Requests : Tenant(r) \in Tenants /\ r \in Lists /\ r \notin Tenants
  BY <1>1, JobTypes
<1>3. Apart
  BY <1>2 DEF Init, Apart, ListTenant, Lists
<1>4. Linked
  BY DEF Init, Linked, Known
<1>5. Kept
  BY MemoryAssumption DEF Init, Kept, InPlace
<1> QED BY <1>1, <1>3, <1>4, <1>5 DEF MemoryInv

LEMMA AdvanceTypes ==
  ASSUME MemoryTypeOK, NEW r \in Requests, Advance(r),
         \/ At(r, "check") \/ At(r, "documents") \/ At(r, "keep") \/ At(r, "rank") \/ At(r, "events")
         \/ At(r, "head") \/ At(r, "append") \/ At(r, "size")
  PROVE  step' \in [Requests -> 0..10] /\ step'[r] = step[r] + 1
         /\ \A s \in Requests \ {r} : step'[s] = step[s]
<1>1. step[r] \in 0..10 /\ job[r].kind \in {"ingest", "query"}
  BY JobTypes DEF MemoryTypeOK
<1>2. step[r] \in 1..9
  BY <1>1, Places
<1> QED BY <1>2 DEF Advance, MemoryTypeOK

\* Rows of the list that is read or written are documents and events.
LEMMA RowTypes ==
  ASSUME MemoryTypeOK, NEW r \in Requests
  PROVE  /\ held[r] \in Lists /\ documents[held[r]] \in SUBSET Document
         /\ [id |-> r, tenant |-> Tenant(r), content |-> job[r].content] \in Document
         /\ [hash |-> r, tenant |-> Tenant(r), prev |-> prev[r]] \in Event
BY JobTypes DEF MemoryTypeOK, Document, Event

LEMMA LastHash ==
  ASSUME MemoryTypeOK, NEW o \in Lists
  PROVE  LET log == events[o] IN
         log # <<>> => /\ Len(log) \in DOMAIN log /\ log[Len(log)] \in Event
                       /\ log[Len(log)].hash \in Hashes
<1> DEFINE log == events[o]
<1>1. log \in Seq(Event)
  BY DEF MemoryTypeOK
<1> HIDE DEF log
<1>2. log # <<>> => Len(log) \in DOMAIN log /\ log[Len(log)] \in Event
  BY <1>1
<1>3. \A e \in Event : e.hash \in Hashes
  BY DEF Event, Hashes
<1> QED BY <1>2, <1>3 DEF log

LEMMA TypesStep == MemoryTypeOK /\ [Next]_vars => MemoryTypeOK'
<1> SUFFICES ASSUME MemoryTypeOK, [Next]_vars PROVE MemoryTypeOK'
  OBVIOUS
<1>1. CASE UNCHANGED vars \/ Finished
  BY <1>1 DEF vars, Finished, MemoryTypeOK
<1>2. ASSUME NEW r \in Requests, Permit(r) \/ Size(r) PROVE MemoryTypeOK'
  <2>1. step' \in [Requests -> 0..10]
    BY <1>2, AdvanceTypes DEF Permit, Size
  <2> QED BY <1>2, <2>1 DEF Permit, Size, MemoryTypeOK
<1>3. ASSUME NEW r \in Requests, Refuse(r) PROVE MemoryTypeOK'
  BY <1>3 DEF Refuse, MemoryTypeOK
<1>4. ASSUME NEW r \in Requests, NEW x \in Tables, Find(r, x) PROVE MemoryTypeOK'
  <2>1. step' \in [Requests -> 0..10]
    BY <1>4, AdvanceTypes DEF Find, Tables
  <2>2. bucket[x][Tenant(r)] \in Lists
    BY <1>4, JobTypes DEF Find, MemoryTypeOK
  <2> QED BY <1>4, <2>1, <2>2 DEF Find, MemoryTypeOK
<1>5. ASSUME NEW r \in Requests, NEW x \in Tables, Miss(r, x) PROVE MemoryTypeOK'
  BY <1>5 DEF Miss, MemoryTypeOK
<1>6. ASSUME NEW r \in Requests, NEW x \in Tables, Create(r, x) PROVE MemoryTypeOK'
  <2>1. step' \in [Requests -> 0..10]
    BY <1>6, AdvanceTypes DEF Create, Tables
  <2>2. r \in Lists /\ Tenant(r) \in Tenants
    BY JobTypes
  <2>3. [bucket[x] EXCEPT ![Tenant(r)] = r] \in [Tenants -> Lists \cup {"missing"}]
    BY <2>2 DEF MemoryTypeOK
  <2>4. bucket' = [bucket EXCEPT ![x] = [bucket[x] EXCEPT ![Tenant(r)] = r]]
    BY <1>6 DEF Create
  <2>5. bucket' \in [Tables -> [Tenants -> Lists \cup {"missing"}]]
    BY <2>3, <2>4 DEF MemoryTypeOK
  <2> QED BY <1>6, <2>1, <2>2, <2>5 DEF Create, MemoryTypeOK
<1>7. ASSUME NEW r \in Requests, Keep(r) PROVE MemoryTypeOK'
  <2>1. step' \in [Requests -> 0..10]
    BY <1>7, AdvanceTypes DEF Keep
  <2>2. documents' \in [Lists -> SUBSET Document]
    BY <1>7, RowTypes DEF Keep, MemoryTypeOK
  <2> QED BY <1>7, <2>1, <2>2 DEF Keep, MemoryTypeOK
<1>8. ASSUME NEW r \in Requests, Rank(r) PROVE MemoryTypeOK'
  <2>1. step' \in [Requests -> 0..10]
    BY <1>8, AdvanceTypes DEF Rank
  <2>2. hits' \in [Requests -> SUBSET Document]
    BY <1>8, RowTypes DEF Rank, Qualifying, MemoryTypeOK
  <2> QED BY <1>8, <2>1, <2>2 DEF Rank, MemoryTypeOK
<1>9. ASSUME NEW r \in Requests, ReadHead(r) PROVE MemoryTypeOK'
  <2>1. step' \in [Requests -> 0..10]
    BY <1>9, AdvanceTypes DEF ReadHead
  <2>2. prev' \in [Requests -> Hashes]
    BY <1>9, RowTypes, LastHash DEF ReadHead, MemoryTypeOK, Hashes
  <2> QED BY <1>9, <2>1, <2>2 DEF ReadHead, MemoryTypeOK
<1>10. ASSUME NEW r \in Requests, AppendEvent(r) PROVE MemoryTypeOK'
  <2>1. step' \in [Requests -> 0..10]
    BY <1>10, AdvanceTypes DEF AppendEvent
  <2>2. Append(events[held[r]], [hash |-> r, tenant |-> Tenant(r), prev |-> prev[r]]) \in Seq(Event)
    <3> DEFINE row == [hash |-> r, tenant |-> Tenant(r), prev |-> prev[r]]
    <3>1. row \in Event /\ events[held[r]] \in Seq(Event)
      BY RowTypes DEF MemoryTypeOK
    <3> HIDE DEF row
    <3>2. Append(events[held[r]], row) \in Seq(Event)
      BY <3>1
    <3> QED BY <3>2 DEF row
  <2>3. events' \in [Lists -> Seq(Event)]
    BY <1>10, <2>2 DEF AppendEvent, MemoryTypeOK
  <2> QED BY <1>10, <2>1, <2>3 DEF AppendEvent, MemoryTypeOK
<1> QED BY <1>1, <1>2, <1>3, <1>4, <1>5, <1>6, <1>7, <1>8, <1>9, <1>10 DEF Next

\* Where the threads are after a step of r.
LEMMA Moved ==
  ASSUME MemoryTypeOK, NEW r \in Requests, Advance(r), NEW op, At(r, op),
         op \in {"check", "documents", "keep", "rank", "events", "head", "append", "size"}
  PROVE  /\ step[r] \in 1..9 /\ step'[r] = step[r] + 1
         /\ \A s \in Requests \ {r} : step'[s] = step[s]
         /\ op = "check" => step[r] = 1
         /\ op \in {"documents", "events"} => step[r] \in {2, 4, 6, 8}
         /\ op = "documents" => step[r] \in {2, 8}
         /\ op = "keep" => step[r] = 3
         /\ op = "rank" => step[r] = 3 /\ job[r].kind = "query"
         /\ op = "head" => step[r] = 5
         /\ op = "append" => step[r] = 7
         /\ op = "size" => step[r] = 9
         /\ step[r] = 8 => job[r].kind = "query"
<1>1. step[r] \in 0..10 /\ job[r].kind \in {"ingest", "query"}
  BY JobTypes DEF MemoryTypeOK
<1>2. step[r] \in 1..9 /\ step' = [step EXCEPT ![r] = @ + 1]
  BY <1>1, Places DEF Advance
<1> QED BY <1>1, <1>2, Places DEF MemoryTypeOK

LEMMA AppendFacts ==
  ASSUME NEW log \in Seq(Event), NEW row \in Event, NEW k \in DOMAIN Append(log, row)
  PROVE  (k \in DOMAIN log /\ Append(log, row)[k] = log[k]) \/ Append(log, row)[k] = row
<1>1. Append(log, row) \in Seq(Event) /\ Len(Append(log, row)) = Len(log) + 1
  OBVIOUS
<1>2. k \in 1..(Len(log) + 1) /\ Len(log) \in Nat /\ DOMAIN log = 1..Len(log)
  BY <1>1
<1>3. \A j \in 1..Len(log) : Append(log, row)[j] = log[j]
  OBVIOUS
<1>4. Append(log, row)[Len(log) + 1] = row
  OBVIOUS
<1> QED BY <1>2, <1>3, <1>4

LEMMA ApartStep == MemoryInv /\ [Next]_vars => Apart'
<1> SUFFICES ASSUME MemoryInv, [Next]_vars PROVE Apart'
  OBVIOUS
<1>0. /\ job' = job /\ \A r \in Requests : Tenant(r)' = Tenant(r)
      /\ \A o : ListTenant(o)' = ListTenant(o)
  BY DEF vars, Next, Finished, Permit, Refuse, Find, Miss, Create, Keep, Rank, ReadHead,
         AppendEvent, Size, Tenant, ListTenant
<1>1. CASE UNCHANGED <<bucket, held, documents, events>>
  BY <1>0, <1>1 DEF MemoryInv, Apart
<1>2. ASSUME NEW r \in Requests, NEW x \in Tables, Find(r, x) PROVE Apart'
  <2>1. held'[r] = bucket[x][Tenant(r)] /\ \A s \in Requests \ {r} : held'[s] = held[s]
    BY <1>2 DEF Find, MemoryInv, MemoryTypeOK
  <2>2. ListTenant(held'[r]) = Tenant(r)
    BY <1>2, <2>1, JobTypes DEF Find, MemoryInv, Apart
  <2>3. UNCHANGED <<bucket, documents, events>>
    BY <1>2 DEF Find
  <2> QED BY <1>0, <2>1, <2>2, <2>3 DEF MemoryInv, Apart
<1>3. ASSUME NEW r \in Requests, NEW x \in Tables, Create(r, x) PROVE Apart'
  <2>1. held'[r] = r /\ \A s \in Requests \ {r} : held'[s] = held[s]
    BY <1>3 DEF Create, MemoryInv, MemoryTypeOK
  <2>2. ListTenant(r) = Tenant(r) /\ Tenant(r) \in Tenants
    BY JobTypes DEF ListTenant, MemoryInv
  <2>3. \A y \in Tables, t \in Tenants :
          bucket'[y][t] = IF y = x /\ t = Tenant(r) THEN r ELSE bucket[y][t]
    BY <1>3 DEF Create, MemoryInv, MemoryTypeOK
  <2>4. UNCHANGED <<documents, events>>
    BY <1>3 DEF Create
  <2> QED BY <1>0, <2>1, <2>2, <2>3, <2>4 DEF MemoryInv, Apart
<1>4. ASSUME NEW r \in Requests, Keep(r) PROVE Apart'
  <2> DEFINE row == [id |-> r, tenant |-> Tenant(r), content |-> job[r].content]
  <2>1. \A o \in Lists : documents'[o] = IF o = held[r] THEN documents[o] \cup {row} ELSE documents[o]
    BY <1>4 DEF Keep, MemoryInv, MemoryTypeOK
  <2>2. row.tenant = ListTenant(held[r])
    BY DEF MemoryInv, Apart
  <2>3. UNCHANGED <<bucket, held, events>>
    BY <1>4 DEF Keep
  <2> HIDE DEF row
  <2>4. ASSUME NEW o \in Lists, NEW d \in documents'[o] PROVE d.tenant = ListTenant(o)
    <3>1. d \in documents[o] \/ (o = held[r] /\ d = row)
      BY <2>1, <2>4
    <3> QED BY <2>2, <3>1 DEF MemoryInv, Apart
  <2> QED BY <1>0, <2>3, <2>4 DEF MemoryInv, Apart
<1>5. ASSUME NEW r \in Requests, AppendEvent(r) PROVE Apart'
  <2> DEFINE row == [hash |-> r, tenant |-> Tenant(r), prev |-> prev[r]]
  <2>1. row.tenant = ListTenant(held[r])
    BY DEF MemoryInv, Apart
  <2>2. \A o \in Lists : events'[o] = IF o = held[r] THEN Append(events[o], row) ELSE events[o]
    BY <1>5 DEF AppendEvent, MemoryInv, MemoryTypeOK
  <2>3. UNCHANGED <<bucket, held, documents>>
    BY <1>5 DEF AppendEvent
  <2>0. row \in Event
    BY RowTypes DEF MemoryInv
  <2> HIDE DEF row
  <2>4. ASSUME NEW o \in Lists, NEW k \in DOMAIN events'[o] PROVE events'[o][k].tenant = ListTenant(o)
    <3>1. events[o] \in Seq(Event)
      BY DEF MemoryInv, MemoryTypeOK
    <3>2. \/ k \in DOMAIN events[o] /\ events'[o][k] = events[o][k]
          \/ o = held[r] /\ events'[o][k] = row
      BY <2>0, <2>2, <2>4, <3>1, AppendFacts
    <3> QED BY <2>1, <3>2 DEF MemoryInv, Apart
  <2> QED BY <1>0, <2>3, <2>4 DEF MemoryInv, Apart
<1> QED
  BY <1>1, <1>2, <1>3, <1>4, <1>5
     DEF vars, Next, Finished, Permit, Refuse, Miss, Rank, ReadHead, Size

\* Events stay where they are.
LEMMA EventsStay ==
  ASSUME MemoryTypeOK, [Next]_vars, NEW o \in Lists, NEW k \in DOMAIN events[o]
  PROVE  k \in DOMAIN events'[o] /\ events'[o][k] = events[o][k]
<1>1. CASE UNCHANGED events
  BY <1>1
<1>2. ASSUME NEW r \in Requests, AppendEvent(r)
      PROVE  k \in DOMAIN events'[o] /\ events'[o][k] = events[o][k]
  <2>1. PICK row : events' = [events EXCEPT ![held[r]] = Append(@, row)]
    BY <1>2 DEF AppendEvent
  <2>2. events[o] \in Seq(Event)
    BY DEF MemoryTypeOK
  <2>3. events'[o] = events[o] \/ events'[o] = Append(events[o], row)
    BY <2>1 DEF MemoryTypeOK
  <2> QED BY <2>2, <2>3
<1> QED
  BY <1>1, <1>2 DEF vars, Next, Finished, Permit, Refuse, Find, Miss, Create, Keep, Rank, ReadHead, Size

LEMMA KnownStays ==
  ASSUME MemoryTypeOK, [Next]_vars, NEW t, NEW h, Known(t, h)
  PROVE  Known(t, h)'
BY EventsStay DEF Known

LEMMA LinkedStep == MemoryInv /\ [Next]_vars => Linked'
<1> SUFFICES ASSUME MemoryInv, [Next]_vars PROVE Linked'
  OBVIOUS
<1>0. \A r \in Requests : Tenant(r)' = Tenant(r)
  BY DEF vars, Next, Finished, Permit, Refuse, Find, Miss, Create, Keep, Rank, ReadHead,
         AppendEvent, Size, Tenant
<1>1. \A t, h : Known(t, h) => Known(t, h)'
  BY KnownStays DEF MemoryInv
<1>2. CASE UNCHANGED <<prev, events>>
  <2>1. \A r \in Requests : Known(Tenant(r), prev[r])
    BY DEF MemoryInv, Linked
  <2>2. \A o \in Lists : \A k \in DOMAIN events[o] : Known(events[o][k].tenant, events[o][k].prev)
    BY DEF MemoryInv, Linked
  <2> QED BY <1>0, <1>2, <2>1, <2>2 DEF Linked, Known
<1>3. ASSUME NEW r \in Requests, ReadHead(r) PROVE Linked'
  <2> DEFINE log == events[held[r]]
  <2>1. prev' = [prev EXCEPT ![r] = IF log = <<>> THEN Genesis ELSE log[Len(log)].hash]
    BY <1>3 DEF ReadHead
  <2>2. held[r] \in Lists /\ (log # <<>> => Len(log) \in DOMAIN log)
    BY RowTypes, LastHash DEF MemoryInv
  <2>3. log # <<>> => log[Len(log)].tenant = Tenant(r)
    BY <2>2 DEF MemoryInv, Apart
  <2>4. Known(Tenant(r), IF log = <<>> THEN Genesis ELSE log[Len(log)].hash)
    BY <2>2, <2>3 DEF Known
  <2>5. \A s \in Requests : Known(Tenant(s), prev'[s])
    BY <2>1, <2>4 DEF MemoryInv, Linked, MemoryTypeOK
  <2>6. events' = events
    BY <1>3 DEF ReadHead
  <2> QED BY <1>0, <2>5, <2>6 DEF MemoryInv, Linked, Known
<1>4. ASSUME NEW r \in Requests, AppendEvent(r) PROVE Linked'
  <2> DEFINE row == [hash |-> r, tenant |-> Tenant(r), prev |-> prev[r]]
  <2>1. Known(row.tenant, row.prev)
    BY DEF MemoryInv, Linked
  <2>2. \A o \in Lists : events'[o] = IF o = held[r] THEN Append(events[o], row) ELSE events[o]
    BY <1>4 DEF AppendEvent, MemoryInv, MemoryTypeOK
  <2>3. prev' = prev
    BY <1>4 DEF AppendEvent
  <2>0. row \in Event
    BY RowTypes DEF MemoryInv
  <2> HIDE DEF row
  <2>4. ASSUME NEW o \in Lists, NEW k \in DOMAIN events'[o]
        PROVE  Known(events'[o][k].tenant, events'[o][k].prev)
    <3>1. events[o] \in Seq(Event)
      BY DEF MemoryInv, MemoryTypeOK
    <3>2. \/ k \in DOMAIN events[o] /\ events'[o][k] = events[o][k]
          \/ events'[o][k] = row
      BY <2>0, <2>2, <2>4, <3>1, AppendFacts
    <3> QED BY <2>1, <3>2 DEF MemoryInv, Linked
  <2>5. \A s \in Requests : Known(Tenant(s), prev[s])
    BY DEF MemoryInv, Linked
  <2>6. (\A s \in Requests : Known(Tenant(s), prev[s]))'
    BY <1>0, <1>1, <2>3, <2>5
  <2>7. (\A o \in Lists : \A k \in DOMAIN events[o] : Known(events[o][k].tenant, events[o][k].prev))'
    BY <1>1, <2>4
  <2> QED BY <2>6, <2>7 DEF Linked
<1> QED
  BY <1>2, <1>3, <1>4 DEF vars, Next, Finished, Permit, Refuse, Find, Miss, Create, Keep, Rank, Size


LEMMA BucketsKept ==
  MemoryInv /\ [Next]_vars => \A x \in Tables, t \in Seeded : bucket'[x][t] = t
<1> SUFFICES ASSUME MemoryInv, [Next]_vars, NEW x \in Tables, NEW t \in Seeded PROVE bucket'[x][t] = t
  OBVIOUS
<1>1. bucket[x][t] = t /\ t \in Tenants
  BY MemoryAssumption DEF MemoryInv, Kept
<1>2. ASSUME NEW r \in Requests, NEW y \in Tables, Create(r, y) PROVE bucket'[x][t] = t
  <2>1. Tenant(r) # t
    BY <1>2 DEF Create, MemoryInv, Kept, InPlace
  <2>2. bucket' = [bucket EXCEPT ![y][Tenant(r)] = r]
    BY <1>2 DEF Create
  <2> QED BY <1>1, <2>1, <2>2 DEF MemoryInv, MemoryTypeOK
<1>3. CASE bucket' = bucket
  BY <1>1, <1>3
<1> QED
  BY <1>2, <1>3 DEF vars, Next, Finished, Permit, Refuse, Find, Miss, Keep, Rank, ReadHead,
                    AppendEvent, Size

\* What others do takes nothing away from s.
LEMMA StaysInPlace ==
  ASSUME MemoryInv, [Next]_vars, NEW s \in Requests, InPlace(s),
         creating'[s] = creating[s], held'[s] = held[s], step'[s] = step[s]
  PROVE  InPlace(s)'
<1>1. job' = job /\ Tenant(s)' = Tenant(s)
  BY DEF vars, Next, Finished, Permit, Refuse, Find, Miss, Create, Keep, Rank, ReadHead,
         AppendEvent, Size, Tenant
<1>2. Tenant(s) \in Lists
  BY JobTypes DEF MemoryInv
<1>3. documents[Tenant(s)] \subseteq documents'[Tenant(s)]
  <2>1. CASE UNCHANGED documents
    BY <2>1
  <2>2. ASSUME NEW r \in Requests, Keep(r) PROVE documents[Tenant(s)] \subseteq documents'[Tenant(s)]
    BY <1>2, <2>2 DEF Keep, MemoryInv, MemoryTypeOK
  <2> QED
    BY <2>1, <2>2 DEF vars, Next, Finished, Permit, Refuse, Find, Miss, Create, Rank, ReadHead,
                      AppendEvent, Size
<1>4. Contains(events[Tenant(s)], s) => Contains(events'[Tenant(s)], s)
  BY <1>2, EventsStay DEF MemoryInv, Contains
<1> QED BY <1>1, <1>3, <1>4 DEF InPlace

LEMMA KeptStep == MemoryInv /\ [Next]_vars => Kept'
<1> SUFFICES ASSUME MemoryInv, [Next]_vars PROVE Kept'
  OBVIOUS
<1> USE DEF MemoryInv
<1>0. job' = job /\ \A s \in Requests : Tenant(s)' = Tenant(s)
  BY DEF vars, Next, Finished, Permit, Refuse, Find, Miss, Create, Keep, Rank, ReadHead,
         AppendEvent, Size, Tenant
<1>1. \A s \in Requests : Tenant(s) \in Seeded => InPlace(s)
  BY DEF Kept
<1>2. SUFFICES ASSUME NEW r \in Requests, Tenant(r) \in Seeded PROVE InPlace(r)'
  BY <1>0, BucketsKept DEF Kept
<1>3. InPlace(r) /\ Tenant(r) \in Lists /\ Tenant(r) \in Tenants /\ Tenant(r) # "missing"
  BY <1>1, <1>2, JobTypes
<1>4. CASE creating'[r] = creating[r] /\ held'[r] = held[r] /\ step'[r] = step[r]
  BY <1>3, <1>4, StaysInPlace
<1>5. ASSUME Permit(r) \/ Rank(r) \/ ReadHead(r) \/ Size(r) PROVE InPlace(r)'
  <2>1. /\ step'[r] = step[r] + 1 /\ step[r] \in {1, 3, 5, 9}
        /\ step[r] = 3 => job[r].kind = "query"
    BY <1>5, Moved DEF Permit, Rank, ReadHead, Size
  <2>2. UNCHANGED <<documents, events, held, creating>>
    BY <1>5 DEF Permit, Rank, ReadHead, Size
  <2> QED BY <1>0, <1>3, <2>1, <2>2 DEF InPlace
<1>6. ASSUME Refuse(r) PROVE InPlace(r)'
  <2>1. step'[r] = 0 /\ UNCHANGED creating
    BY <1>6 DEF Refuse, MemoryTypeOK
  <2> QED BY <1>3, <2>1 DEF InPlace
<1>7. ASSUME NEW x \in Tables, Find(r, x) PROVE InPlace(r)'
  <2>1. step'[r] = step[r] + 1 /\ step[r] \in {2, 4, 6, 8} /\ (step[r] = 8 => job[r].kind = "query")
    BY <1>7, Moved DEF Find, Tables
  <2>2. held'[r] = Tenant(r)
    BY <1>2, <1>7 DEF Find, Kept, MemoryTypeOK
  <2>3. UNCHANGED <<documents, events, creating>>
    BY <1>7 DEF Find
  <2> QED BY <1>0, <1>3, <2>1, <2>2, <2>3 DEF InPlace
<1>8. ASSUME NEW x \in Tables, Miss(r, x) \/ Create(r, x) PROVE FALSE
  BY <1>2, <1>3, <1>8 DEF Miss, Create, Kept, InPlace
<1>9. ASSUME Keep(r) PROVE InPlace(r)'
  <2> DEFINE row == [id |-> r, tenant |-> Tenant(r), content |-> job[r].content]
  <2>1. step'[r] = 4 /\ step[r] = 3
    BY <1>9, Moved DEF Keep
  <2>2. held[r] = Tenant(r) /\ ~creating[r]
    BY <1>3, <2>1 DEF InPlace
  <2>3. row \in documents'[Tenant(r)] /\ row.id = r
    BY <1>3, <1>9, <2>2 DEF Keep, MemoryTypeOK
  <2>4. UNCHANGED <<held, creating>>
    BY <1>9 DEF Keep
  <2> HIDE DEF row
  <2> QED BY <1>0, <2>1, <2>2, <2>3, <2>4 DEF InPlace
<1>10. ASSUME AppendEvent(r) PROVE InPlace(r)'
  <2> DEFINE row == [hash |-> r, tenant |-> Tenant(r), prev |-> prev[r]]
  <2>1. step'[r] = 8 /\ step[r] = 7
    BY <1>10, Moved DEF AppendEvent
  <2>2. held[r] = Tenant(r) /\ events[Tenant(r)] \in Seq(Event) /\ row \in Event /\ row.hash = r
    <3>1. held[r] = Tenant(r) /\ events[Tenant(r)] \in Seq(Event)
      BY <1>3, <2>1 DEF InPlace, MemoryTypeOK
    <3>2. row \in Event /\ row.hash = r
      BY RowTypes
    <3> QED BY <3>1, <3>2
  <2>3. events'[Tenant(r)] = Append(events[Tenant(r)], row)
    BY <1>3, <1>10, <2>2 DEF AppendEvent, MemoryTypeOK
  <2>4. UNCHANGED <<documents, held, creating>>
    BY <1>10 DEF AppendEvent
  <2> HIDE DEF row
  <2>5. /\ Len(events[Tenant(r)]) + 1 \in DOMAIN events'[Tenant(r)]
        /\ events'[Tenant(r)][Len(events[Tenant(r)]) + 1] = row
    BY <2>2, <2>3
  <2>6. Contains(events'[Tenant(r)], r)
    BY <2>2, <2>5 DEF Contains
  <2> QED BY <1>0, <1>3, <2>1, <2>4, <2>6 DEF InPlace
<1>11. ASSUME NEW s \in Requests \ {r}, NEW x \in Tables,
              \/ Permit(s) \/ Refuse(s) \/ Find(s, x) \/ Miss(s, x) \/ Create(s, x)
              \/ Keep(s) \/ Rank(s) \/ ReadHead(s) \/ AppendEvent(s) \/ Size(s)
       PROVE  creating'[r] = creating[r] /\ held'[r] = held[r] /\ step'[r] = step[r]
  BY <1>11 DEF Permit, Refuse, Find, Miss, Create, Keep, Rank, ReadHead, AppendEvent, Size, Advance,
               MemoryTypeOK
<1>12. "documents" \in Tables
  BY DEF Tables
<1> QED
  BY <1>4, <1>5, <1>6, <1>7, <1>8, <1>9, <1>10, <1>11, <1>12 DEF vars, Next, Finished

LEMMA MemoryInvariant == Spec => []MemoryInv
<1>1. MemoryInv /\ [Next]_vars => MemoryInv'
  BY TypesStep, ApartStep, LinkedStep, KeptStep DEF MemoryInv
<1> QED BY <1>1, MemoryInit, PTL DEF Spec

\* Types hold for any number of threads, tenants and calls.
THEOREM MemoryTypes == Spec => []MemoryTypeOK
<1>1. MemoryInv => MemoryTypeOK
  BY DEF MemoryInv
<1> QED BY <1>1, MemoryInvariant, PTL

\* Nothing acknowledged is lost for a tenant whose lists were there from the start.
THEOREM NothingLostTheorem == Spec => []NothingLost
<1>1. MemoryInv => NothingLost
  <2> SUFFICES ASSUME MemoryInv, NEW r \in Requests, Answered(r), Tenant(r) \in Seeded
               PROVE  /\ Contains(Log(Tenant(r)), r)
                      /\ job[r].kind = "ingest" => \E d \in Stored(Tenant(r)) : d.id = r
    BY DEF NothingLost
  <2>1. step[r] \in 0..10 /\ job[r].kind \in {"ingest", "query"} /\ Tenant(r) # "missing"
    BY JobTypes DEF MemoryInv, MemoryTypeOK
  <2>2. step[r] > 7
    BY <2>1, Places
  <2>3. InPlace(r) /\ bucket["documents"][Tenant(r)] = Tenant(r) /\ bucket["events"][Tenant(r)] = Tenant(r)
    BY DEF MemoryInv, Kept, Tables
  <2> QED BY <2>1, <2>2, <2>3 DEF InPlace, Log, Stored
<1> QED BY <1>1, MemoryInvariant, PTL

\* Every link of every list resolves within the tenant, however lists were created.
THEOREM LinksTheorem == Spec => []LinksResolve
<1>1. MemoryInv => LinksResolve
  <2> SUFFICES ASSUME MemoryInv, NEW o \in Lists, NEW k \in DOMAIN events[o]
               PROVE  /\ events[o][k].tenant = events[o][1].tenant
                      /\ Known(events[o][k].tenant, events[o][k].prev)
    BY DEF LinksResolve, Known
  <2>1. 1 \in DOMAIN events[o]
    <3>1. events[o] \in Seq(Event)
      BY DEF MemoryInv, MemoryTypeOK
    <3> QED BY <3>1
  <2> QED BY <2>1 DEF MemoryInv, Apart, Linked
<1> QED BY <1>1, MemoryInvariant, PTL

-----------------------------------------------------------------------------
\* The fence: Keep is an Ingest of TenantFence, Rank a Search, and the rest stutters.
Owners == [r \in Requests |-> Tenant(r)]

Held == UNION {documents[o] : o \in Lists}

Partitions == [t \in Tenants |-> {d.content : d \in {e \in Held : e.tenant = t}}]

Seen == [r \in Requests |-> {d.content : d \in hits[r]}]

LEMMA FenceInit == Init => Fence!Init
<1> SUFFICES ASSUME Init PROVE Fence!Init
  OBVIOUS
<1>1. Held = {} /\ \A r \in Requests : hits[r] = {}
  BY DEF Init, Held, Lists
<1>2. MemoryTypeOK
  BY MemoryInit DEF MemoryInv
<1>3. Owners \in [Requests -> Tenants]
  BY <1>2, JobTypes DEF Owners
<1>4. Partitions = [t \in Tenants |-> {}] /\ Seen = [r \in Requests |-> {}]
  BY <1>1 DEF Partitions, Seen
<1> QED BY <1>3, <1>4 DEF Fence!Init, Owners, Partitions, Seen, Held

LEMMA FenceKeeps ==
  ASSUME MemoryInv, NEW r \in Requests, Keep(r)
  PROVE  \E c \in Contents : Fence!Ingest(r, c)
<1> DEFINE row == [id |-> r, tenant |-> Tenant(r), content |-> job[r].content]
<1>1. \A o \in Lists : documents'[o] = IF o = held[r] THEN documents[o] \cup {row} ELSE documents[o]
  BY DEF Keep, MemoryInv, MemoryTypeOK
<1>2. held[r] \in Lists
  BY RowTypes DEF MemoryInv
<1>3. row.tenant = Tenant(r) /\ row.content = job[r].content
  OBVIOUS
<1> HIDE DEF row
<1>4. Held' = Held \cup {row}
  <2>1. ASSUME NEW d \in Held' PROVE d \in Held \cup {row}
    <3>1. PICK o \in Lists : d \in documents'[o]
      BY DEF Held
    <3> QED BY <1>1, <3>1 DEF Held
  <2>2. \A o \in Lists : documents[o] \subseteq documents'[o]
    BY <1>1
  <2>3. row \in documents'[held[r]]
    BY <1>1, <1>2
  <2> QED BY <1>2, <2>1, <2>2, <2>3 DEF Held
<1>5. \A t \in Tenants : Partitions'[t] = IF t = Tenant(r) THEN Partitions[t] \cup {job[r].content}
                                                            ELSE Partitions[t]
  BY <1>3, <1>4 DEF Partitions
<1>6. Partitions' = [Partitions EXCEPT ![Owners[r]] = @ \cup {job[r].content}]
  BY <1>5 DEF Partitions, Owners
<1>7. UNCHANGED <<Owners, Seen>>
  BY DEF Keep, Owners, Tenant, Seen
<1>8. PICK c \in Contents : c = job[r].content
  BY JobTypes DEF MemoryInv
<1>9. Fence!Ingest(r, c)
  BY <1>6, <1>7, <1>8 DEF Fence!Ingest, Owners, Partitions, Held, Seen
<1> QED BY <1>9

LEMMA FenceRanks ==
  ASSUME MemoryInv, NEW r \in Requests, Rank(r)
  PROVE  \E found \in SUBSET Contents : Fence!Search(r, found)
<1>1. PICK best \in SUBSET Qualifying(r) : hits' = [hits EXCEPT ![r] = best]
  BY DEF Rank
<1> DEFINE found == {d.content : d \in best}
<1>2. \A d \in best : d \in Held /\ d.tenant = Tenant(r) /\ d.content \in Contents
  <2>1. held[r] \in Lists /\ documents[held[r]] \in SUBSET Document
    BY RowTypes DEF MemoryInv
  <2>2. \A d \in documents[held[r]] : d.tenant = Tenant(r)
    BY <2>1 DEF MemoryInv, Apart
  <2> QED BY <2>1, <2>2 DEF Qualifying, Held, Document
<1>3. found \in SUBSET Contents
  BY <1>2
<1>4. found \subseteq Partitions[Owners[r]]
  BY <1>2, JobTypes DEF Partitions, Owners, MemoryInv
<1>5. Seen' = [Seen EXCEPT ![r] = found]
  BY <1>1 DEF Seen, MemoryInv, MemoryTypeOK
<1>6. UNCHANGED <<Owners, Partitions>>
  BY DEF Rank, Owners, Tenant, Partitions, Held
<1>7. Fence!Search(r, found)
  BY <1>4, <1>5, <1>6 DEF Fence!Search, Owners, Partitions, Held, Seen
<1> QED BY <1>3, <1>7

LEMMA FenceStep == MemoryInv /\ [Next]_vars => [Fence!Next]_(Fence!vars)
<1> SUFFICES ASSUME MemoryInv, [Next]_vars PROVE [Fence!Next]_(Fence!vars)
  OBVIOUS
<1>1. ASSUME NEW r \in Requests, Keep(r) \/ Rank(r) PROVE Fence!Next
  <2>1. CASE Keep(r)
    BY <2>1, FenceKeeps DEF Fence!Next
  <2>2. CASE Rank(r)
    BY <2>2, FenceRanks DEF Fence!Next
  <2> QED BY <1>1, <2>1, <2>2
<1>2. CASE UNCHANGED <<job, documents, hits>>
  BY <1>2 DEF Fence!vars, Tenant
<1> QED
  BY <1>1, <1>2 DEF vars, Next, Finished, Permit, Refuse, Find, Miss, Create, ReadHead, AppendEvent, Size

\* Even where threads create a tenant's lists beside each other, no search is given
\* another tenant's document.
THEOREM MemoryFence == Spec => RefinesFence
BY FenceInit, FenceStep, MemoryInvariant, PTL DEF Spec, RefinesFence, Fence!Spec
=============================================================================
