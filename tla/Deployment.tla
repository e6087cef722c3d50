----------------------------- MODULE Deployment -----------------------------
(***************************************************************************)
(* deploy.sh and the migration job it runs (migrate.py, the role part of   *)
(* 001_zero_trust.sql), over a service that an earlier run deployed.       *)
(*                                                                         *)
(* A run generates its passwords and its key root anew and reads back the  *)
(* latest secret versions by name.  It can stop at any line (set -e, or an *)
(* operator), it can be run again, and nothing keeps two operators from    *)
(* running it side by side.  What a run generated is known by its number.  *)
(***************************************************************************)
EXTENDS Integers, Sequences, FiniteSets

CONSTANTS MaxRuns, MaxParallel   \* runs after the first, and runs at a time

ASSUME DeploymentAssumption == MaxRuns \in Nat \ {0} /\ MaxParallel \in Nat \ {0}

Runs == 1..MaxRuns

\* The secrets that must agree with the database, in the order they are added.
Secrets == <<"database-url", "admin-database-url", "api-database-password", "tenant-key-root">>

Names == {Secrets[k] : k \in DOMAIN Secrets}

Versions == [Names -> 0..MaxRuns]

VARIABLES
  pc,          \* where each run is
  line,        \* the secret it is at
  adminPassword, apiPassword,   \* of the database roles
  latest,      \* latest version of each secret
  picked,      \* the versions each run read back
  job,         \* the migration job's definition, one for all runs
  serving,     \* versions of the serving revision
  migrator,    \* the run that last executed the job
  roots,       \* key roots documents were stored under
  alone        \* whether no other run was active while it was

vars == <<pc, line, adminPassword, apiPassword, latest, picked, job, serving, migrator, roots, alone>>

First == [n \in Names |-> 0]

Active == {"add", "pick", "update", "execute", "deploy"}

Init ==
  /\ pc = [r \in Runs |-> "idle"]
  /\ line = [r \in Runs |-> 1]
  /\ adminPassword = 0 /\ apiPassword = 0
  /\ latest = First
  /\ picked = [r \in Runs |-> First]
  /\ job = First
  /\ serving = First
  /\ migrator = 0
  /\ roots = {}
  /\ alone = [r \in Runs |-> TRUE]

Goto(r, from, to) == pc[r] = from /\ pc' = [pc EXCEPT ![r] = to]

\* One secret on, or to the next stage.
Step(r, from, to) ==
  /\ Goto(r, from, IF line[r] = Len(Secrets) THEN to ELSE from)
  /\ line' = [line EXCEPT ![r] = IF @ = Len(Secrets) THEN 1 ELSE @ + 1]

Beside(r) == {s \in Runs \ {r} : pc[s] \in Active}

\* gcloud sql users set-password postgres.  Runs are numbered as they begin.
Begin(r) ==
  /\ \A s \in 1..(r - 1) : pc[s] # "idle"
  /\ Cardinality(Beside(r)) < MaxParallel
  /\ Goto(r, "idle", "add")
  /\ adminPassword' = r
  /\ alone' = [s \in Runs |-> IF s = r THEN Beside(r) = {} ELSE alone[s] /\ s \notin Beside(r)]
  /\ UNCHANGED <<line, apiPassword, latest, picked, job, serving, migrator, roots>>

\* Mutant: a secret that exists gets no new version.
AddMissing(r) ==
  /\ Step(r, "add", "pick")
  /\ UNCHANGED <<adminPassword, apiPassword, latest, picked, job, serving, migrator, roots, alone>>

\* ensure_secret.
Add(r) ==
  /\ Step(r, "add", "pick")
  /\ latest' = [latest EXCEPT ![Secrets[line[r]]] = r]
  /\ UNCHANGED <<adminPassword, apiPassword, picked, job, serving, migrator, roots, alone>>

\* latest_secret_version.
Pick(r) ==
  /\ Step(r, "pick", "update")
  /\ picked' = [picked EXCEPT ![r][Secrets[line[r]]] = latest[Secrets[line[r]]]]
  /\ UNCHANGED <<adminPassword, apiPassword, latest, job, serving, migrator, roots, alone>>

UpdateJob(r) ==
  /\ Goto(r, "update", "execute")
  /\ job' = picked[r]
  /\ UNCHANGED <<line, adminPassword, apiPassword, latest, picked, serving, migrator, roots, alone>>

\* migrate.py connects as postgres; ALTER ROLE sets the API role's password.
ExecuteJob(r) ==
  /\ job["admin-database-url"] = adminPassword
  /\ Goto(r, "execute", "deploy")
  /\ apiPassword' = job["api-database-password"]
  /\ migrator' = r
  /\ UNCHANGED <<line, adminPassword, latest, picked, job, serving, roots, alone>>

JobFails(r) ==
  /\ job["admin-database-url"] # adminPassword
  /\ Goto(r, "execute", "refused")
  /\ UNCHANGED <<line, adminPassword, apiPassword, latest, picked, job, serving, migrator, roots, alone>>

\* Mutant: the revision gets the traffic whether or not it starts.
DeployUnchecked(r) ==
  /\ Goto(r, "deploy", "finished")
  /\ serving' = picked[r]
  /\ UNCHANGED <<line, adminPassword, apiPassword, latest, picked, job, migrator, roots, alone>>

\* The revision gets the traffic if it starts, and it seeds as it starts.
DeployRevision(r) ==
  /\ picked[r]["database-url"] = apiPassword
  /\ Goto(r, "deploy", "finished")
  /\ serving' = picked[r]
  /\ UNCHANGED <<line, adminPassword, apiPassword, latest, picked, job, migrator, roots, alone>>

RevisionFails(r) ==
  /\ picked[r]["database-url"] # apiPassword
  /\ Goto(r, "deploy", "refused")
  /\ UNCHANGED <<line, adminPassword, apiPassword, latest, picked, job, serving, migrator, roots, alone>>

Abort(r) ==
  /\ pc[r] \in Active
  /\ pc' = [pc EXCEPT ![r] = "aborted"]
  /\ UNCHANGED <<line, adminPassword, apiPassword, latest, picked, job, serving, migrator, roots, alone>>

\* The service holds no connection between operations: each logs in anew.
Connects == serving["database-url"] = apiPassword

StoreDocument ==
  /\ Connects
  /\ roots' = roots \cup {serving["tenant-key-root"]}
  /\ UNCHANGED <<pc, line, adminPassword, apiPassword, latest, picked, job, serving, migrator, alone>>

Next ==
  \/ \E r \in Runs : \/ Begin(r) \/ Add(r) \/ Pick(r) \/ UpdateJob(r) \/ ExecuteJob(r) \/ JobFails(r)
                     \/ DeployRevision(r) \/ RevisionFails(r) \/ Abort(r)
  \/ StoreDocument

Spec == Init /\ [][Next]_vars
-----------------------------------------------------------------------------
\* The serving revision can reach its database, but for the window of the last
\* migration: from the job's ALTER ROLE until that run's own revision is deployed.
\* A run that stops there leaves the service down until a later run finishes.
OutageIsARollout == Connects \/ (migrator # 0 /\ pc[migrator] # "finished")

\* A run beside no other is never refused by the database, wherever the runs before
\* it stopped or crossed: what it generated, what it reads back and what it set are
\* one.  Of two runs side by side, one may be refused.
NeverRefused == \A r \in Runs : alone[r] => pc[r] # "refused"

\* The script may be run again and the service is as before: its documents can
\* still be opened.  The second run gives the tenants new keys.
DocumentsReadable == \A k \in roots : k = serving["tenant-key-root"]
=============================================================================
