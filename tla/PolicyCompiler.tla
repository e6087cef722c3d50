--------------------------- MODULE PolicyCompiler ---------------------------
(***************************************************************************)
(* PolicyCompiler.from_file (control_plane.py): from the reviewed policy   *)
(* file to the contracts of one process.  It runs once, before the process *)
(* serves; a process whose file is rejected does not start.                *)
(*                                                                         *)
(* Numbers of the file are JSON numbers, counted here in halves, because   *)
(* int() drops their fraction before they are checked.                     *)
(***************************************************************************)
EXTENDS Fleet, Sequences

CONSTANTS
  Controls,   \* the controls a file may list
  Files       \* the files an image may hold

REQUIRED_CONTROLS == {"signed_tenant_claim", "postgres_force_rls",
                      "tenant_bound_aes_gcm", "signed_isolation_receipt"}

\* sound: every key is there and converts.
Entry == [sound : BOOLEAN, tenant : Tenants, maxResults : Int, scopes : SUBSET PolicyScopes, slo : Int]

File == [schema : Nat, controls : SUBSET Controls, quarantine : BOOLEAN, contracts : Seq(Entry)]

TenantContract == [maxResults : 1..10, scopes : {s \in SUBSET PolicyScopes : "rag:read" \in s}, slo : Int]

ASSUME FilesAssumption == Files \subseteq File

VARIABLES
  source,      \* the parsed file
  phase,       \* gate, contracts, accepted or rejected
  at,          \* the entry the loop is at
  contracts    \* compiled so far: a function on the tenants named so far

policyVars == <<source, phase, at, contracts>>

\* int(): towards zero.
Whole(halves) == IF halves >= 0 THEN halves \div 2 ELSE -((-halves) \div 2)

Terms(raw) == [maxResults |-> Whole(raw.maxResults), scopes |-> raw.scopes, slo |-> Whole(raw.slo)]

GateSound(file) ==
  /\ file.schema = 1
  /\ REQUIRED_CONTROLS \subseteq file.controls
  /\ file.quarantine

\* Mutant: a cap of zero is let through.
ValidZero(raw) ==
  /\ raw.sound
  /\ Whole(raw.maxResults) \in 0..10
  /\ "rag:read" \in raw.scopes

Valid(raw) ==
  /\ raw.sound
  /\ Whole(raw.maxResults) \in 1..10
  /\ "rag:read" \in raw.scopes

\* Mutant: the first entry of a tenant stays.
BindOnce(c, raw) ==
  [t \in DOMAIN c \cup {raw.tenant} |-> IF t \in DOMAIN c THEN c[t] ELSE Terms(raw)]

\* A second entry of a tenant replaces the first.
Bind(c, raw) ==
  [t \in DOMAIN c \cup {raw.tenant} |-> IF t = raw.tenant THEN Terms(raw) ELSE c[t]]
-----------------------------------------------------------------------------
CompileInit ==
  /\ source \in Files
  /\ phase = "gate"
  /\ at = 1
  /\ contracts = [t \in {} |-> Terms(t)]

CheckGate ==
  /\ phase = "gate"
  /\ phase' = IF GateSound(source) THEN "contracts" ELSE "rejected"
  /\ UNCHANGED <<source, at, contracts>>

CompileEntry ==
  /\ phase = "contracts"
  /\ at <= Len(source.contracts)
  /\ Valid(source.contracts[at])
  /\ contracts' = Bind(contracts, source.contracts[at])
  /\ at' = at + 1
  /\ UNCHANGED <<source, phase>>

RejectEntry ==
  /\ phase = "contracts"
  /\ at <= Len(source.contracts)
  /\ ~Valid(source.contracts[at])
  /\ phase' = "rejected"
  /\ UNCHANGED <<source, at, contracts>>

Finish ==
  /\ phase = "contracts"
  /\ at > Len(source.contracts)
  /\ phase' = IF DOMAIN contracts = {} THEN "rejected" ELSE "accepted"
  /\ UNCHANGED <<source, at, contracts>>

CompileNext == CheckGate \/ CompileEntry \/ RejectEntry \/ Finish

CompileSpec == CompileInit /\ [][CompileNext]_policyVars
-----------------------------------------------------------------------------
\* Every contract of a process admits between 1 and 10 results and requires
\* rag:read, whatever the file says: what authorize and the endpoints rely on, and
\* what ControlPlane assumes of its contracts.
ContractsBounded ==
  phase = "accepted" =>
    /\ DOMAIN contracts # {} /\ DOMAIN contracts \subseteq Tenants
    /\ \A t \in DOMAIN contracts : contracts[t] \in TenantContract

\* What the first n entries say: for each tenant they name, the terms of the last
\* entry that names it.
SaysOf(file, n, c) ==
  /\ DOMAIN c = {file.contracts[j].tenant : j \in 1..n}
  /\ \A j \in 1..n :
       (\A m \in (j + 1)..n : file.contracts[m].tenant # file.contracts[j].tenant)
         => c[file.contracts[j].tenant] = Terms(file.contracts[j])

\* The loop, which stops at the first bad entry, decides and yields what the file
\* says as a whole: accepted exactly if the gate is intact, some tenant is named and
\* every entry is valid; then each tenant has the terms of its last entry.
CompilesToMeaning ==
  LET entries == source.contracts
      acceptable == /\ GateSound(source) /\ Len(entries) > 0
                    /\ \A j \in 1..Len(entries) : Valid(entries[j])
  IN  /\ phase = "accepted" => acceptable /\ SaysOf(source, Len(entries), contracts)
      /\ phase = "rejected" => ~acceptable
=============================================================================
