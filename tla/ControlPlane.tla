--------------------------- MODULE ControlPlane ----------------------------
(***************************************************************************)
(* IsolationControlPlane (control_plane.py): the compiled contracts, the   *)
(* quarantine state and the attestation ledger.  All three live in the     *)
(* memory of one API process, so the state is indexed by instance, is not  *)
(* shared between instances and does not survive a restart.                *)
(*                                                                         *)
(* Handler threads share that memory without a lock.  record_attestation   *)
(* therefore is three steps: it changes the state, later reads the state   *)
(* back into the record it signs, and later appends the record.            *)
(***************************************************************************)
EXTENDS Fleet, Sequences

CONSTANT Contracts   \* compiled contracts, a function on the contracted tenants

Contracted == DOMAIN Contracts

\* What PolicyCompiler.from_file lets through, for tenants the database knows.
ASSUME ContractAssumption ==
  /\ Contracted \subseteq Tenants
  /\ Contracts \in [Contracted -> [maxResults : 1..10,
                                   scopes : {s \in SUBSET PolicyScopes : "rag:read" \in s}]]

VARIABLES
  workspace,      \* _state, per instance and contracted tenant
  attestations    \* _attestations, likewise

controlVars == <<workspace, attestations>>

Verdict == {"passed", "failed"}

Record == [probe : Requests, status : Verdict, quarantined : BOOLEAN]

ControlTypeOK ==
  /\ workspace \in [Instances -> [Contracted -> {"active", "quarantined"}]]
  /\ attestations \in [Instances -> [Contracted -> Seq(Record)]]

FreshWorkspace == [t \in Contracted |-> "active"]

FreshLedger == [t \in Contracted |-> <<>>]

ControlInit ==
  /\ workspace = [i \in Instances |-> FreshWorkspace]
  /\ attestations = [i \in Instances |-> FreshLedger]
-----------------------------------------------------------------------------
\* authorize, check by check, in the order the code makes them.
HasContract(t) == t \in Contracted

Quarantined(i, t) == workspace[i][t] = "quarantined"

Satisfies(t, scopes, topk) ==
  /\ Contracts[t].scopes \subseteq scopes
  /\ topk <= Contracts[t].maxResults

\* Mutant: a passed attestation makes the workspace active again.
ConcludeAndReactivate(i, t, verdict) ==
  /\ workspace' = [workspace EXCEPT ![i][t] = IF verdict = "failed" THEN "quarantined" ELSE "active"]
  /\ UNCHANGED attestations

\* Mutant: the verdict is recorded but changes no state.
ConcludeWithoutQuarantine(i, t, verdict) == UNCHANGED controlVars

\* record_attestation: the state change ...
Conclude(i, t, verdict) ==
  /\ workspace' = IF verdict = "failed"
                    THEN [workspace EXCEPT ![i][t] = "quarantined"]
                    ELSE workspace
  /\ UNCHANGED attestations

\* ... and the append.
File(i, t, record) ==
  /\ attestations' = [attestations EXCEPT ![i][t] = Append(@, record)]
  /\ UNCHANGED workspace

\* A new process compiles the contracts again and starts with every workspace
\* active and an empty ledger.
Reload(i) ==
  /\ workspace' = [workspace EXCEPT ![i] = FreshWorkspace]
  /\ attestations' = [attestations EXCEPT ![i] = FreshLedger]
=============================================================================
