# TenantVault: models, model checking and proofs

TLA+ models of TenantVault, a multi-tenant retrieval service: API processes
(FastAPI, one thread per request) over one PostgreSQL database with row-level
security, a hash-chained audit ledger, per-tenant encryption, and an isolation
control plane that attests tenants and quarantines those that fail; and of what
surrounds it: startup, credentials, policy files, deployment, release gate and the
measuring scripts. TLC checks the models on small instances, TLAPS proves the main
invariants for every instance. `PROJECT.json` lists runs, mutants, findings, hazards, theorems and the
source lines each definition stands for.

## The system

| Component | State | Operations | Interacts with |
| --- | --- | --- | --- |
| `PostgresRagStore` (`store.py`) over `001_zero_trust.sql` | `rag.documents`, `audit.events` | `ingest`, `search`, `count_for_tenant`, `append_audit`, `audit_head`; each transaction sets `app.tenant_id` locally | called by the engine; shared by all processes |
| `MemoryRagStore` (`store.py`) | dictionaries of one process | the same methods | demo without a database |
| `TenantCipher` (`security.py`) | root secret | `encrypt`, `decrypt` per tenant | the stores |
| `TokenAuthority`, `authenticated_principal` | signing secret | `mint`, `verify` | every endpoint |
| `PolicyCompiler` (`control_plane.py`) | compiled contracts | `from_file`, `contract_for` | control plane |
| `IsolationControlPlane` (`control_plane.py`) | `_state`, `_attestations`, per process | `authorize`, `attest`, `record_attestation`, `status_for` | engine; endpoints |
| `TenantVaultEngine` (`engine.py`) | none of its own | `ingest`, `query`, `isolation_probe`, `attest` | store, control plane |
| Endpoints, startup (`api.py`) | the engine of the process | `/v1/documents`, `/v1/query`, `/v1/isolation/probe`, `/v1/attestations/run`, status; `build_engine`, `_seed_demo` | engine |
| Release verifier | none | `run_release_gate` over HTTP | any process of the service |
| Deployment (`infra/gcp`, `migrate.py`) | secrets, schema, revisions | `deploy.sh`, migration job | everything |
| `measure_live_isolation.py` | results of a pool of workers | `main` over HTTP | any process of the service |
| `fault_injection_benchmark.py` | an engine of its own | `run_benchmark` | engine over the in-memory store |
| Embedder, web page | none | pure or sequential | - |

What is hard here:

- **Concurrency.** Handlers are threads; no lock is held anywhere. `append_audit`
  reads the head in one transaction and inserts in another. The control plane's
  dictionaries are shared by threads and `record_attestation` writes, reads back
  and appends in three moments.
- **Several processes.** `deploy.sh` runs up to three, each with quarantine state
  and a ledger of attestations of its own and, across deployments, a root secret
  of its own. Audit events are ordered by the clock of the process that wrote them.
- **Partial failure.** A document and its audit event, a search and its event and
  its count, are separate transactions. Any of them may fail, a commit may succeed
  and be reported as an error, and the process may stop in between.
- **What must follow what.** A failed probe must quarantine, and a receipt must be
  backed by an event.
- **What outlives a process.** Startup, deployment and the gate each act on what
  others left: rows, secrets, passwords, quarantine. Any of them may stop halfway
  and be run again, or run beside another.

What makes each part correct:

- store: tenants see their own rows; a text is stored once per tenant; each
  tenant's events form one chain from the zero hash;
- engine: an answered retrieval is on the ledger, with the count of its hits;
  documents and ingest events correspond; the receipt describes what was searched;
- control plane: quarantined exactly if an attestation failed; a passed record
  rests on a finished probe; a leak that was seen takes effect;
- cipher: rows of other tenants or other roots never open;
- credentials: who is admitted is who a token was issued to, while it is fresh;
- policy: a process serves only under contracts that are bounded and say what the
  file says;
- startup: every tenant is seeded once before anyone is served;
- deployment: a rerun repairs what an earlier run left;
- gate and scripts: a passed report means what it says.

## Modules

| Module | Models |
| --- | --- |
| `Fleet` | the sorts all modules of the service share |
| `RagStore` | the tables, the policies and every store transaction, as operators |
| `ControlPlane` | contracts, quarantine and attestation ledger of each process, as operators |
| `TenantVault` | the handlers of engine and endpoints: the state machine that composes the two, its properties |
| `HashChain` | what the ledger promises: one chain per tenant, extended atomically |
| `TenantFence` | what both stores promise: a document goes to its owner's partition, a search stays in it |
| `MemoryStore` | the in-memory store under threads |
| `PgSession` | `_transaction` taken apart: connections, backends, tenant context |
| `ApiBoundary` | tokens and the credential dependency |
| `PolicyCompiler` | `from_file`, entry by entry |
| `Startup` | `build_engine` and `_seed_demo` of several processes, over `PolicyCompiler` and `RagStore` |
| `Deployment` | `deploy.sh` and the migration job, run again, in parallel, or aborted |
| `ReleaseGate` | the release gate as a client of `TenantVault` |
| `Measurement` | the live evaluator: pool, results, report |
| `Benchmark` | the fault-injection benchmark over an engine with broken fences |
| `MC...` | values for TLC |
| `TenantVaultProofs`, `EngineProofs` | proofs about the service: ledger and control plane; documents, attestations and the gate |
| `MemoryStoreProofs`, `PgSessionProofs`, `ApiBoundaryProofs`, `StartupProofs`, `DeploymentProofs` | proofs about the module of that name, `StartupProofs` with the policy compiler |
| `ScriptProofs` | proofs about `Measurement` and `Benchmark` |

What composes what: `TenantVault` is `RagStore` and `ControlPlane`; `ReleaseGate` is
`TenantVault` and one of its clients; `Startup` is `PolicyCompiler` and `RagStore`.
`TenantVault` implements `HashChain` (one handler at a time) and `TenantFence`,
`MemoryStore` implements `TenantFence`. What is proved of the result of `PolicyCompiler`
is what `ControlPlane` assumes of contracts. `PgSession` justifies that `RagStore`
takes a transaction as one step under the caller's context.

### RagStore

`documents` and `events` are the two tables, `events` in commit order. A
transaction is one step, because each method runs one statement and PostgreSQL
serializes what conflicts (the UNIQUE constraint). `Visible` and `VisibleEvents` are
the row-level policies. A document row carries the key that sealed it: the root
secret of the process and the tenant. `now` is real time counted in transactions;
`Clock(i)` adds the offset of process `i`. `Heads` is a set because equal stamps
leave `ORDER BY created_at DESC LIMIT 1` a choice.

Texts are compared by identity. What a question finds is data of the workload
(`question`, `Finds`): embeddings and the distance threshold are abstracted, and
`Ranked` lets a search return any at most `k` of the qualifying rows. That is
wider than the code with an exact index, and what the approximate HNSW index
under a row-level filter allows. A request id stands for the event hash, i.e.
SHA-256 is collision free. The zero hash is `Genesis`, which the table stores as
NULL and `audit_head` reports as 64 zeros.

### ControlPlane

`workspace` and `attestations` are `_state` and `_attestations`, indexed by process.
`Conclude`, `Quarantined` (read back) and `File` are the three moments of
`record_attestation`. `Reload` is what a new process starts with. A contract is a
cap and a scope set as `from_file` admits them (`ContractAssumption`): any strings, of
which `PolicyScopes` keeps the two a principal can have and `other` for the rest.

### TenantVault

One action per step of a handler; `pc[r]` names the step to come.

| Stages | Code |
| --- | --- |
| `attest`, `authorize` | `attest` authorizes, and the query of its probe does again; refusals by contract (500), quarantine (423 or 403 by endpoint), scope or cap (403) |
| `insert` | `store.ingest`: scope, then the INSERT; a duplicate is an unhandled 500 |
| `search` | `store.search` with decryption; a row under another key is an unhandled 500 |
| `head`, `stamp`, `append` | `append_audit` |
| `reply` | 201 of an ingest |
| `count` | `count_for_tenant`, the receipt, the answer |
| `judge`, `record`, `file` | verdict and state change, record read back and signed, append |

`Raise` is a database error: before the commit, or after it when the answer was lost
(the handler is then already at the next stage). `Restart` stops a process of
`CrashProne`: its handlers end as `lost`, its control plane starts anew, the
database stays. `call` and `inst` are fixed at the start: what the clients send and
where the load balancer sends it. The principal is taken as verified.
`found.corpus` is the one value the code never has: the number of rows the search
ranged over, kept to compare the receipt with.

### MemoryStore

`bucket` is the dictionary of each table, from tenant to the list it holds; lists are
objects, named after the thread that made them, because `defaultdict` stores a
new list under the key without looking again. `Program(r)` is the sequence of operations of a
call between which threads can switch; naming a table is one of them. Documents are
a set per list (search sorts them), events a sequence. `Fence` maps a tenant's
partition to the texts of all documents of the tenant, in whichever list they are:
a list that the dictionary has dropped may still be the one a thread searches.

### PgSession

One action per call of `_transaction`: `Connect`, `Begin`, `SetContext`, `Execute`, `Commit`,
`Close`, and what an error at each of them leads to. An error of `Begin` is outside
the try: the connection is closed only when its frame goes (`Drop`). A
backend keeps its session state from one connection to the next, as behind a
pooler; that is the case the comment at store.py:175 has in mind.

### ApiBoundary

A token is claims and a signature; HMAC is ideal. A request whose body is no JSON is left
out: FastAPI answers it 422 before it looks at the credential, and no state changes.
`Presentable` are all recombinations of what was issued. Time is in half seconds, since `mint` drops the
fraction of a second and `verify` does not. `last` is the answer just given.

### PolicyCompiler

`CheckGate`, `CompileEntry`, `RejectEntry` and `Finish` are the exits of `from_file`. Numbers are
counted in halves, because `int()` drops the fraction before the bounds are checked.
Scopes are not checked against a list, so an entry may carry `other`.
An entry with a missing or malformed key is one that is not `sound`. `SaysOf` is the
reference definition: what the entries say when read as a whole.

### Startup

The policy is compiled first. Every process compiles the same file of the same image,
alone and with the same result, and stores nothing before; so one compile stands for
all. Then, per process: count, insert, head, append for each demo tenant, then serving.
`LoseRace` is the UNIQUE violation, which ends the process; the platform starts it
again. `RefuseSeed` is the exit of a process whose policy does not let a demo tenant be
seeded; `Servable` says of the contracts alone which files let the service start.
`Fail` is a crash or database error anywhere. Clients are served only by processes that have finished.

### Deployment

A run of the script goes through the passwords, the secret versions, the job and
the revision one line at a time; what it generates is known by its number. `Abort`
stops it anywhere, and with it the migration job it was waiting for, which on Cloud Run
can go on to its end. Token and receipt secrets are left out: no database state
depends on their value. `Connects` says whether the serving revision can log in. `alone`
remembers which runs never ran beside another; the script has no such notion, the
property `NeverRefused` needs it.

### ReleaseGate

`step` and `turn` are where `run_release_gate` is; its attestations are requests of
`TenantVault`, served by whichever process the load balancer picks. The two override
attempts change nothing in the service, so their outcome is left open until the
`Report` asks for it. `GiveUp` is the 20 s timeout or any other exception of httpx.

`teller` remembers which process answered the status request of a turn. The gate never
learns that; `PassedMeansAttested` needs it to say how much a passed verdict knows of
quarantine. If the process that attested also told the status, a failed attestation
filed before the gate's own is seen and the gate does not pass (`Untroubled`), unless a
restart has wiped it out in between. If another process told it, the gate passes over a
quarantine of the process that attested; the property claims nothing there.

### Measurement, Benchmark

`Measurement` has one action for a worker taking a job, one for its request ending,
and `Collect` for `as_completed`; `PoolRaises` is the exception of a job that reaches
`main`. Latencies are small numbers. `Sorted` is some sequence that does what sorting
promises; `Rank` is exact, and the script's floating-point product has the same ceiling
for 0.95 and every number of latencies up to 200 000.
`Benchmark` gives the engine a set of broken fences and the corpus a similarity;
its assumption, that a tenant's canary is the closest of its own documents to
itself and above the threshold, was measured with the real embedder for 2 x 2,
12 x 48, 100 x 3 and 120 x 2 tenants and documents. With the filter broken and the keys
intact, the search itself raises, and the script ends without a report (`Abort`).

## Runs

The runs of `MCTenantVault` have the tenants northstar, acme and globex (the last has no
contract), contracts with caps 3 and 2, and texts of which "flight" and "rumor" show the
CONDOR canary and "ops" the ORCHID canary.

| Run | Bounds | Shows |
| --- | --- | --- |
| `serial` | 1 process, 1 handler at a time, 3 requests of 9 calls | `RefinesChain`: without concurrency the ledger is the promised chain, also past refusals, duplicates and errors; `RefinesFence`: the store keeps tenants apart; `CappedNeverAttested` |
| `mixed` | 2 processes with own roots, 1 handler each, one restarts, 3 requests of 4 calls | `TypeOK`, `ForkWidth`, `ChainWellFounded`, `ReceiptIsBacked`, `IngestLedgerAgrees`, `DistinctIngests`, `UndecryptableOnlyAfterRotation` |
| `gate` | 2 processes, 2 handlers each, one restarts; the gate's attestation and one other request of 3 calls | `GateTypeOK`, `PassedMeansAttested`, `QuarantineIffFailed`, `AttestationBackedByProbe`; with fairness `GateEnds`, `LeakLeadsToQuarantine` |
| `fork` | 1 process, 2 retrievals of one tenant | violation of `SingleChain` |
| `memory` | 3 threads, 5 calls, lists exist for one of two tenants | `MemoryTypeOK`, `NothingLost`, `LinksResolve`, `RefinesFence` |
| `sessions` | 3 threads, 2 backends, 2 operations each, 2 errors | `ContextIsTransactionLocal`, `StatementUnderOwnTenant`, `RefusedOnlyWhenBusy` |
| `boundary` | 3 processes, 2 secrets, a skewed clock, lifetime 2 s, 3 s of time, 2 tokens | `IdentityIsIssued`, `AdmittedWhileFresh` |
| `startup` | files of up to 3 entries, caps around both bounds, a scope that no principal has, each way a gate can be missing; 3 processes, 2 demo tenants, 2 faults | `ContractsBounded`, `CompilesToMeaning`, `StartTypeOK`, `ServingSeeded`, `UnauditedOnlyAfterFault`, `SeedAuditedOnce`; with fairness `EventuallyServes` |
| `deployment` | 3 runs of the script after the first, 2 at a time | `OutageIsARollout`, `NeverRefused` |
| `rekeyed` | 2 runs, 1 at a time | violation of `DocumentsReadable` |
| `measure` | 3 iterations of 1 tenant, 2 workers, latencies 1 and 2 | `PassedMeansAllValid`, `PercentileIsNearestRank`; with fairness `MeasurementEnds` |
| `benchmark` | 3 tenants, 2 documents each, 1024 corpora, all sets of broken fences | `PassedIffFencesStand`, `RatesAreOverAllPairs` |

Why the bounds are enough:

- `mixed`: three requests with two running are the fewest in which a head is forked as
  often as `ForkWidth` allows and then read by one more, and in which a tenant has a
  stored document, a duplicate and a reader. Two processes are the fewest that differ in
  root. `ForkWidth` is claimed for equal clocks, so no run has a skewed one. What holds
  under skew, `ChainWellFounded`, is proved for every skew; that a process whose clock is
  ahead makes later events read an older head breaks no property stated here, only the
  single chain of the docs, which `fork` already refutes. `Concurrency` stands for the
  number of handlers a process runs at once (deploy.sh sends at most 20; a request cut
  at 30 s keeps its thread, so the pool of 40 threads is the real limit).
- `gate`: two attestations on one process or on two, or one beside an ingest that changes
  what it finds. The loop over tokens has one turn here: with two the run leaves TLC's
  reach, and the turns share nothing but the accumulated conjunction in `Report`.
- `memory`: three threads are two that race and one that meets the result.
- `sessions`: fewer backends than threads, so that a backend changes hands and
  connections are refused.
- `boundary`: time passes two expiries, and two tokens are enough to recombine.
- `startup`: three processes are the most deploy.sh allows; two faults and two seeds let
  a race and a crash meet. Two entries of one tenant with a third before or after them
  are the ways in which a later entry replaces an earlier one. A demo tenant cannot be
  seeded for two reasons, and the files have both: no contract, and (`Locked`) one that
  requires a scope no principal has: `_seed_demo` then stores northstar's seed and ends at
  acme's `RefuseSeed`.
- `deployment`: a run depends on earlier runs only through the latest versions, the
  passwords and the job, so a third run meets whatever two can leave. Runs are numbered
  as they begin, which loses nothing: they are alike.
- `measure`: the fraction 3/5 stands for 0.95, which would be the maximum of so few
  latencies; three latencies have a rank below 3 for it, and a product that is not whole. The
  rank is 2 of 3 throughout; `PercentileTheorem` has every other. Errors of the service
  come as `error`; `unsound` and `exposed` answers are counted like it and are left out
  of the run.

Requests are symmetric in `mixed` and `fork`; runs with a temporal property use no
symmetry. Deadlock is checked where the system has to go on: a run may stop only when
every request is over (`Finished`, `Over`). It is not checked in `benchmark` (it
terminates), `startup` (processes that serve wait for clients), `deployment` and
`rekeyed` (a bounded number of runs).

Fairness: `FairSpec` asks weak fairness of each handler's own steps (`Proceed`): a
thread that can run eventually runs. Nothing is assumed of arrivals, errors and
restarts. Weak fairness is enough because no handler waits for another: each step
stays enabled until it is taken or fails. `GateSpec` asks it of the gate's own steps
and, for the handlers, of `Proceed`. `Startup` asks it of the compiler and of each
process's boot (Cloud Run restarts a process that exits, and nothing in a boot waits),
`Measurement` of main, of the pool and of each request, since httpx ends it within its
timeout. Faults are bounded in `Startup` (`MaxFaults`): a process that crashes forever
never serves.

### What the violations show

- `fork`: the audit ledger forks. The docs call it a hash chain; two concurrent
  retrievals suffice. `ForkWidth` says how wide it can get with equal clocks,
  `ChainWellFounded` what remains true: links always lead back to the start.
- `rekeyed`: running the deployment again, which the script calls idempotent, orphans
  every stored document.

### Where the code and its docs part without a run

These follow from one or two lines each, so no run is spent on them; the properties
above are stated so as to be true of the code as it is.

- `search_space_count` is read after the search, in a transaction of its own. It is not
  the corpus the search saw (docs/demo_walkthrough.md:33), only no less than it
  (`ReceiptIsBacked`).
- Quarantine stops one process, not the service (docs/control_plane.md:28); a restart
  lifts it. A passed gate has had one process attest each tenant (README.md:101) and,
  behind the load balancer, perhaps another one tell that the workspace is active.
- A quarantined tenant's probe or ingest gets 403, its query and attestation the
  documented 423 (api.py:132): `TenantQuarantinedError` is a `PermissionError`.
- An attestation that cannot finish leaves the workspace active (control_plane.py:142):
  only a verdict quarantines. `LeakLeadsToQuarantine` excludes the handler that failed.
- Two first calls of a tenant can lose a document of the in-memory store (store.py:78).
  The demo is not exposed: `_seed_demo` makes the lists before requests arrive, and
  `NothingLost` is claimed for such tenants. That store also accepts a text twice, which
  PostgreSQL refuses.
- A policy file that compiles but has no contract for a demo tenant, or one that requires
  a scope the seeding principal lacks, keeps every process from starting (`Servable`).
- The live evaluator counts every canary probe that is not valid as an exposure
  (measure_live_isolation.py:144), a 500 among them.

## Proofs

Every theorem is about arbitrary sets of tenants, processes, threads, requests and calls,
and arbitrary key roots, clock offsets, contracts, files and numbers of errors. The
assumptions are the named `ASSUME`s of the modules; each run of a module evaluates them.
`FleetAssumption` (finitely many processes and requests; `Genesis` is no event hash),
`StoreAssumption`, `ContractAssumption` and `WorkloadAssumption` are those of the service;
`GateAssumption` says that the gate has at least one token (release_verifier.py:19 has
read one before the loop) and a request of its own for each. Two hypotheses are no
assumptions of a module and stand in the theorems that need them: `EqualClocks` (all
processes have the same offset) and `Serial` (one process, one handler at a time).

`TenantVaultProofs`, over `Spec` of `TenantVault`:

- `TypeCorrect`: `Spec => []TypeOK`. `TypeOK` alone is not inductive: sizes are
  numbers only of finite sets and a record needs a verdict, so `TypeInv` adds
  `FiniteRows` and `DraftOK`.
- `ChainReachesGenesis`: `Spec => []ChainWellFounded`. The strengthening `LinkOK` speaks
  of the handler between its two transactions: the `previous_hash` it holds is
  `Genesis` or the hash of a stored event of its tenant, and stays so because
  events are only added. No property of clocks is needed.
- `QuarantineExact`: `Spec => []QuarantineIffFailed`. `AdmittedOK` (who is past
  authorization has a contract) makes the state change reach the map, and
  `ReadBackOK` covers the draft between reading the state back and filing it.
- `ReceiptsAreBacked`: `Spec => []ReceiptIsBacked`. `ReceiptInv` says what a handler has
  established at each stage (cap before the search, hits after it, event after the
  append, count last); a step adds one piece, and `Growth` (tables only grow) keeps
  the others. That hits belong to the caller comes from the row-level policy in
  `Ranked`; the cap needs `AdmittedOK`; that the count is no less than the corpus needs
  `CountGrows`.
- `ForksAreBounded`: `EqualClocks` gives `Spec => []ForkWidth`. Counting events is not
  inductive: a fork is made long before it is stored. `WidthOK` counts, for each hash, the
  events that carry it and the handlers that hold it as the head they read. While the
  hash is a head, all of these run or ran beside each other, and `CapacityOK` bounds them;
  once an event with a later stamp is stored nobody reads the hash again, and the
  count grows no more. Where a stamp comes from is `StampOK`; that a handler has stored at
  most one event, `LoggedOnce`. With skewed clocks a stored event need not become the
  head, the old head is read again and again, and there is no bound.
- `OneAtATimeOneChain` and `OneAtATimeNoFork`: `Serial` gives `Spec => RefinesChain` and
  `[]SingleChain`. `OneRuns` says that two requests that run are one (from `CapacityOK`),
  so nobody appends between the read of a head and the append. `SerialInv` adds
  `StampsGrow` (events are stored in the order of their stamps), which makes the head
  that is read the tail of the chain, and `HeldIsTail`, which keeps it the tail until the
  append; that step is then an `Extend` of `HashChain`, and all others stutter. That
  no head is forked is `ForkWidth` for one handler. `fork` shows that with a second
  handler, `SingleChain` fails.

`EngineProofs`, over the same specification:

- `TenantsStayApart`: `Spec => RefinesFence`. `StoreDocument` is an `Ingest` of
  `TenantFence`, `Search` a `Search` and everything else a stutter; the step needs only
  the types.
- `LedgerAgrees` and `IngestsDiffer`: `[]IngestLedgerAgrees` and `[]DistinctIngests`. Neither is
  inductive: both follow from who `Holds` a row. `HeldOK` says that a handler between its
  INSERT and its 201 has a stored document and that no two of them hold the same one;
  `PathOK` says which stages a kind of call passes through. An error or restart leaves
  the reply that `IngestLedgerAgrees` names as the excuse.
- `OnlyRotationHidesRows`: `[]UndecryptableOnlyAfterRotation`. `SealedOK` says that every row is
  sealed under its own tenant and a root of some process; a row that does not open, and
  that the policy shows, is then of another root.
- `AttestationsAreBacked` and `CapsExcludeAttestation`: `[]AttestationBackedByProbe` and
  `[]CappedNeverAttested`. `ProbeOK` carries the verdict from `Judge` to `File`; `FiledOK` says the
  same of the records filed, whose probes are over and therefore keep their hits. The
  event of the probe comes from `ReceiptInv`.
- `GateChangesNothing`: `GateSpec` implies `Spec`: the gate never takes a step the
  service would not, so what is proved of the service holds beside the gate.
- `GateTypes` and `PassRestsOnAttestations`: `GateSpec => []GateTypeOK` and
  `[]PassedMeansAttested`, for any number of tokens, where the run has one. `GateInv` says
  that a 200 the gate has noted was given by a request that is over and whose draft still
  has the status the gate heard; `DraftBacked` that a passed draft means no canary was
  found. The stored event follows from `ReceiptInv`, as for attestations. What the gate
  knows of quarantine is `Heard`. It rests on `KnownOK`: but for a restart, which takes
  the records along, a record signed as quarantined means that the process still is. So a
  process that tells "active" has none, and `QuarantineIffFailed` no failed one; that it
  stays so up to the gate's own record is `UntroubledStays`.

The modules around the service:

- `MemoryStoreProofs`: `MemoryTypes`, `NothingLostTheorem`, `LinksTheorem` and
  `MemoryFence` (`Spec => RefinesFence`). `Apart` says that every list serves one tenant,
  also those that the dictionaries have dropped, and that a thread holds a list of its
  own tenant; `Linked` that a hash once read can be found; `Kept` that for a tenant with
  lists from the start no thread ever misses, which is what the loss of a document needs.
- `PgSessionProofs`: `ContextTheorem`, `StatementTheorem`, `RefusalTheorem`. `SessionInv` ties
  the stage of a handler to the connection it holds (`Exclusive`, `OpenIsHeld`), a context
  to the transaction it was set in (`Owned`) and a stage to what it set (`Established`).
  The refusal is a bijection between connections and the handlers that hold them.
- `StartupProofs`: `StartTypes`, `ServingTheorem`, `AuditTheorem` and `FaultTheorem`.
  The invariant says why it is safe to take any document for the seed (`SeedsFirst`:
  until all tenants are seeded, nothing else is stored), what each process has behind it
  (`Behind`), that one process audits a seed, the one that stored it (`OneAuditor`), and
  that faults pay for the seeds without an event (`FaultsCover`).
  `BoundedTheorem` and `MeaningTheorem`, for files of any length: the invariant is what
  the entries before the current one say (`SaysOf` of a prefix). They are proved of
  `CompileSpec` and hold of `Startup` because it implements that (`StartupCompiles`).
- `DeploymentProofs`: `OutageTheorem`, `RepairTheorem`. The first invariant is inductive given the
  types. The second follows from `Own`: beside no other run, the password, the secrets
  added so far, the versions read back and the job are all this run's.
- `ApiBoundaryProofs`: `IdentityTheorem`, `FreshnessTheorem`: the invariant is that the last answer was
  given to a token that can be put together from those issued; freshness is then
  arithmetic on half seconds.
- `ScriptProofs`, the measurement: `ReportsAreComplete` (`[]PassedMeansAllValid`). Results are
  of answered jobs only and an answer is never taken back, so a report, which needs
  all results, says what all answers say; that equal counts mean equal sets is `AllPassed`.
- `ScriptProofs`, the percentile: `PercentileTheorem` (`[]PercentileIsNearestRank`), for any
  latencies and fraction. `SortExists` gives the sorted sequence (a smallest set without
  one would have one without its largest job); `Positions` says how many latencies are at
  most the one at rank r, and how many at most any smaller one; `RankIsLeast` that the
  rank is the least whose share reaches the fraction; `NearestRank` puts them together.
  The proof attempt corrected the property: that the percentile is no less than the
  median was claimed for fractions of one half and above, and is false at exactly one
  half when the number of latencies is even. It is now claimed above one half.
- `ScriptProofs`, the benchmark: `RatesTheorem` and `VerdictTheorem` (`[]RatesAreOverAllPairs`,
  `[]PassedIffFencesStand`), for any number of tenants and documents and any corpus. Counters
  are not compared as numbers: `BenchInv` says that each is the size of a set of the pairs
  attacked so far (`Loop` is one step of the nested loops), so at the end the verdict
  compares sets. `FilterHolds` and `CanaryReturned` are the two halves of the search: the
  filter never returns a victim's canary, and without it whatever fools the naive search
  fools this one. `FirstOfTheLargest` gives `Closest` its document; it is an induction on
  finite sets, stated as a smallest counterexample because the library's well-founded
  minimum (`WFMin`) takes no operator.

Each preservation proof has one lemma per action that disturbs the invariant and one
(`OffLedger`, `OffControlPlane`, `ReceiptKept`, `FenceKept`, `QuietStep`, `StaysInPlace`) for all
that do not.

Only model-checked is liveness (`LeakLeadsToQuarantine`, `GateEnds`, `EventuallyServes`,
`MeasurementEnds`): the prover has no ENABLED. Every invariant and every safety property of
the passing runs is proved.

`SingleChain` (but for `Serial`) and `DocumentsReadable` are not claimed: the code violates both
(runs `fork` and `rekeyed`).

## Not modelled

- The embedder and the distance threshold: floating-point arithmetic without state.
  Which texts a question finds is a constant of the models (`question`, `Finds`,
  `Similarities`).
- The web page: it sends the modelled requests one at a time.
- Of the API: `home`, `health` and `isolation_status` return constants; formatting of
  answers and headers.
- Of the deployment: creation of service accounts, database and image, the token and
  receipt secrets (no state depends on their value), `cleanup.sh`, and the SQL of the
  schema apart from keys, constraints, policies and roles.
- Hashes, signatures and AES-GCM are ideal throughout.

## Plan

Modelled in full are the service, its stores, startup, credentials, policy, release gate
and scripts, and every safety property is proved. What is left is the gate over two tenants
in a run, if the state space of the service under it can be cut; the theorem covers them.
