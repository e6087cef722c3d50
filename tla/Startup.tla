------------------------------ MODULE Startup ------------------------------
(***************************************************************************)
(* How a process comes to serve: build_engine and _seed_demo (api.py) over *)
(* PolicyCompiler and PostgresRagStore.  The module's import runs them to  *)
(* the end before the first request; an exception ends the process, and    *)
(* the platform starts it again.  Several processes may start at once,     *)
(* over an empty database or over one that earlier processes, stopped      *)
(* anywhere, left behind.                                                  *)
(*                                                                         *)
(* Every process compiles the policy file of the one image, alone, with    *)
(* the same result, and stores nothing before: the compile runs once here, *)
(* and a process starts with what it gave.                                 *)
(*                                                                         *)
(* Per tenant:  count - insert - head - append, or count and go on.  Only  *)
(* writes move the clock here: no stamp is taken between two of them.      *)
(***************************************************************************)
EXTENDS RagStore, PolicyCompiler

CONSTANTS
  Demo,        \* the demo tenants, in the order they are seeded
  Seed,        \* their documents
  MaxFaults    \* bound on crashes and database errors

ASSUME StartupAssumption ==
  /\ Demo \in Seq(Tenants) /\ Demo # <<>>
  /\ Seed \in [Tenants -> Contents]
  /\ MaxFaults \in Nat

VARIABLES
  stage,    \* where each process is
  turn,     \* the tenant it is seeding
  link,     \* the head it read
  faults    \* crashes and database errors so far

startVars == <<stage, turn, link, faults>>

vars == <<storeVars, policyVars, startVars>>

Stages == {"down", "count", "insert", "head", "append", "serving"}

Tenant(i) == Demo[turn[i]]

\* The contracts are compiled: nothing of the policy changes any more.
Compiled == phase = "accepted" /\ UNCHANGED policyVars

Init ==
  /\ StoreInit
  /\ CompileInit
  /\ stage = [i \in Instances |-> "down"]
  /\ turn = [i \in Instances |-> 1]
  /\ link = [i \in Instances |-> Genesis]
  /\ faults = 0

Goto(i, from, to) ==
  /\ stage[i] = from
  /\ stage' = [stage EXCEPT ![i] = to]

\* On to the next tenant, or to serving.
Advance(i, from) ==
  /\ Goto(i, from, IF turn[i] = Len(Demo) THEN "serving" ELSE "count")
  /\ turn' = [turn EXCEPT ![i] = IF @ = Len(Demo) THEN @ ELSE @ + 1]

Compile ==
  /\ CompileNext
  /\ UNCHANGED <<storeVars, startVars>>

Start(i) ==
  /\ Goto(i, "down", "count")
  /\ turn' = [turn EXCEPT ![i] = 1]
  /\ UNCHANGED <<storeVars, link, faults>>

\* authorize in a fresh process, for a principal with both scopes.
Admits(t) == t \in DOMAIN contracts /\ contracts[t].scopes \subseteq Scopes

\* Mutant: seeds without looking.
CountAlways(i) ==
  /\ Goto(i, "count", "insert") /\ UNCHANGED turn
  /\ Admits(Tenant(i))
  /\ UNCHANGED storeVars
  /\ UNCHANGED <<link, faults>>

\* Mutant: whoever finds a tenant seeded takes all of them to be.
CountOnce(i) ==
  /\ IF CountDocuments(Tenant(i)) = 0
       THEN Admits(Tenant(i)) /\ Goto(i, "count", "insert") /\ UNCHANGED turn
       ELSE Goto(i, "count", "serving") /\ UNCHANGED turn
  /\ UNCHANGED storeVars
  /\ UNCHANGED <<link, faults>>

\* count_for_tenant: any document of the tenant will do.  Without one the process
\* ingests the seed, if authorize admits that.
Count(i) ==
  /\ IF CountDocuments(Tenant(i)) = 0
       THEN Admits(Tenant(i)) /\ Goto(i, "count", "insert") /\ UNCHANGED turn
       ELSE Advance(i, "count")
  /\ UNCHANGED storeVars
  /\ UNCHANGED <<link, faults>>

\* ContractError, or a scope that the seeding principal does not have: the process
\* exits, and will the next time.
RefuseSeed(i) ==
  /\ Goto(i, "count", "down")
  /\ CountDocuments(Tenant(i)) = 0
  /\ ~Admits(Tenant(i))
  /\ UNCHANGED storeVars
  /\ UNCHANGED <<turn, link, faults>>

\* Mutant: the seed is stored without its audit event.
InsertUnlogged(i) ==
  /\ Advance(i, "insert")
  /\ InsertDocument(i, Tenant(i), Seed[Tenant(i)])
  /\ UNCHANGED <<link, faults>>

Insert(i) ==
  /\ Goto(i, "insert", "head")
  /\ InsertDocument(i, Tenant(i), Seed[Tenant(i)])
  /\ UNCHANGED <<turn, link, faults>>

\* Mutant: the violation is passed over and the ingest goes on.
LoseQuietly(i) ==
  /\ Goto(i, "insert", "head")
  /\ Duplicate(Tenant(i), Seed[Tenant(i)])
  /\ UNCHANGED storeVars
  /\ UNCHANGED <<turn, link, faults>>

\* UniqueViolation: another process was faster.  This one exits.
LoseRace(i) ==
  /\ Goto(i, "insert", "down")
  /\ Duplicate(Tenant(i), Seed[Tenant(i)])
  /\ UNCHANGED storeVars
  /\ UNCHANGED <<turn, link, faults>>

ReadHead(i) ==
  /\ Goto(i, "head", "append")
  /\ \E h \in Heads(Tenant(i)) : link' = [link EXCEPT ![i] = h]
  /\ UNCHANGED storeVars
  /\ UNCHANGED <<turn, faults>>

AppendEvent(i) ==
  /\ Advance(i, "append")
  /\ \E r \in Requests \ {events[k].hash : k \in DOMAIN events} :
       InsertEvent([hash |-> r, tenant |-> Tenant(i), action |-> "document.ingested",
                    count |-> 1, prev |-> link[i], at |-> Clock(i)])
  /\ UNCHANGED <<link, faults>>

\* A crash, or a database error, which no one catches.
Fail(i) ==
  /\ Compiled
  /\ faults < MaxFaults
  /\ stage[i] # "down"
  /\ stage' = [stage EXCEPT ![i] = "down"]
  /\ faults' = faults + 1
  /\ UNCHANGED <<storeVars, turn, link>>

\* A client's ingest; its audit event is TenantVault's affair.
ClientStores(i, t, c) ==
  /\ Compiled
  /\ stage[i] = "serving"
  /\ Admits(t)
  /\ InsertDocument(i, t, c)
  /\ UNCHANGED startVars

\* A process whose file is rejected never gets here.
Boot(i) ==
  /\ Compiled
  /\ \/ Start(i) \/ Count(i) \/ RefuseSeed(i) \/ Insert(i) \/ LoseRace(i)
     \/ ReadHead(i) \/ AppendEvent(i)

Next ==
  \/ Compile
  \/ \E i \in Instances :
          \/ Boot(i) \/ Fail(i)
          \/ \E t \in Tenants, c \in Contents : ClientStores(i, t, c)

\* The platform starts a stopped process, and a started one runs.
Spec == Init /\ [][Next]_vars /\ WF_vars(Compile) /\ \A i \in Instances : WF_vars(Boot(i))
-----------------------------------------------------------------------------
StartTypeOK ==
  /\ StoreTypeOK
  /\ stage \in [Instances -> Stages]
  /\ turn \in [Instances -> DOMAIN Demo]
  /\ link \in [Instances -> Hashes]
  /\ faults \in 0..MaxFaults

DemoTenants == {Demo[k] : k \in DOMAIN Demo}

\* As soon as any process serves, every demo tenant has its seed: that a tenant has
\* some document, which is all the check asks, means it has this one, because
\* clients are let in only after a process has seeded every tenant.
ServingSeeded ==
  (\E i \in Instances : stage[i] = "serving") =>
    \A t \in DemoTenants : \E d \in documents : d.tenant = t /\ d.content = Seed[t]

\* A seed without an audit event is being audited, or is left by a fault: each fault
\* leaves at most one.
Unaudited ==
  {t \in DemoTenants :
     /\ \E d \in documents : d.tenant = t /\ d.content = Seed[t]
     /\ \A k \in DOMAIN events : events[k].tenant # t
     /\ \A i \in Instances : ~(Tenant(i) = t /\ stage[i] \in {"head", "append"})}

UnauditedOnlyAfterFault == Cardinality(Unaudited) <= faults

\* A seed is audited at most once, however often the processes start.
SeedAuditedOnce ==
  \A j, k \in DOMAIN events : events[j].tenant = events[k].tenant => j = k

\* What from_file accepts may still keep the service from ever starting: a file must
\* also have a contract for each tenant that has to be seeded, and one that requires
\* no scope beyond the two a principal can have.
Servable ==
  /\ phase = "accepted"
  /\ \A t \in DemoTenants : t \in DOMAIN contracts /\ "other" \notin contracts[t].scopes

\* Whatever races and faults came first, in the end every process serves, if the
\* policy lets the demo tenants be seeded, and none serves if it does not: the loser
\* of a race exits, and finds the tenant seeded when it is started again.
EventuallyServes == \A i \in Instances : <>[](stage[i] = "serving" <=> Servable)
=============================================================================
