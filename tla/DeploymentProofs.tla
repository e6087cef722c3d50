-------------------------- MODULE DeploymentProofs --------------------------
(***************************************************************************)
(* deploy.sh for any number of runs, any number of them side by side, each *)
(* stopped at any line.                                                    *)
(***************************************************************************)
EXTENDS Deployment, TLAPS

Stages == Active \cup {"idle", "finished", "refused", "aborted"}

Types ==
  /\ pc \in [Runs -> Stages]
  /\ line \in [Runs -> DOMAIN Secrets]
  /\ latest \in Versions /\ job \in Versions /\ serving \in Versions
  /\ picked \in [Runs -> Versions]
  /\ migrator \in Runs \cup {0}
  /\ alone \in [Runs -> BOOLEAN]
  /\ \A r \in Runs : pc[r] = "idle" => line[r] = 1

\* Version r of the secrets before place k.
UpTo(versions, r, k) == \A j \in 1..(k - 1) : versions[Secrets[j]] = r

Throughout(versions, r) == \A n \in Names : versions[n] = r

\* A run beside no other finds everything as it made it: the password of postgres,
\* the secrets it added, the versions it read back, the job and the API's password.
Own(r) ==
  /\ \A s \in Runs \ {r} : pc[s] \notin Active
  /\ adminPassword = r
  /\ pc[r] = "add" => UpTo(latest, r, line[r])
  /\ pc[r] # "add" => Throughout(latest, r)
  /\ pc[r] = "pick" => UpTo(picked[r], r, line[r])
  /\ pc[r] \in {"update", "execute", "deploy"} => Throughout(picked[r], r)
  /\ pc[r] = "execute" => Throughout(job, r)
  /\ pc[r] = "deploy" => apiPassword = r

OwnInv == \A r \in Runs : alone[r] /\ pc[r] \in Active => Own(r)

DeployInv == Types /\ OwnInv /\ OutageIsARollout /\ NeverRefused

LEMMA SecretsFacts ==
  /\ Len(Secrets) \in Nat \ {0} /\ DOMAIN Secrets = 1..Len(Secrets)
  /\ "database-url" \in Names /\ "admin-database-url" \in Names
  /\ "api-database-password" \in Names
  /\ \A k \in 1..Len(Secrets) : Secrets[k] \in Names
<1>1. Len(Secrets) = 4
  BY DEF Secrets
<1>2. DOMAIN Secrets = 1..Len(Secrets)
  BY DEF Secrets
<1>3. /\ Secrets[1] = "database-url" /\ Secrets[2] = "admin-database-url"
      /\ Secrets[3] = "api-database-password"
  BY DEF Secrets
<1> QED BY <1>1, <1>2, <1>3 DEF Names

LEMMA UpToAll ==
  ASSUME NEW versions, NEW r
  PROVE  UpTo(versions, r, Len(Secrets) + 1) <=> Throughout(versions, r)
<1>1. 1..((Len(Secrets) + 1) - 1) = DOMAIN Secrets
  BY SecretsFacts
<1> QED BY <1>1 DEF UpTo, Throughout, Names

LEMMA UpToNext ==
  ASSUME NEW versions \in Versions, NEW r, NEW k \in DOMAIN Secrets, UpTo(versions, r, k)
  PROVE  UpTo([versions EXCEPT ![Secrets[k]] = r], r, k + 1)
<1> SUFFICES ASSUME NEW j \in 1..((k + 1) - 1)
             PROVE  [versions EXCEPT ![Secrets[k]] = r][Secrets[j]] = r
  BY DEF UpTo
<1>1. j \in 1..Len(Secrets) /\ (j = k \/ j \in 1..(k - 1))
  BY SecretsFacts
<1>2. Secrets[j] \in Names /\ Secrets[k] \in Names /\ DOMAIN versions = Names
  BY <1>1, SecretsFacts DEF Versions
<1> QED BY <1>1, <1>2 DEF UpTo

LEMMA InitDeploy == Init => DeployInv
<1> SUFFICES ASSUME Init PROVE DeployInv
  OBVIOUS
<1>1. First \in Versions /\ First["database-url"] = 0
  BY SecretsFacts, DeploymentAssumption DEF First, Versions
<1>2. Types
  BY <1>1, SecretsFacts DEF Init, Types, Stages
<1>3. OwnInv /\ OutageIsARollout /\ NeverRefused
  BY <1>1 DEF Init, OwnInv, Active, OutageIsARollout, Connects, NeverRefused
<1> QED BY <1>2, <1>3 DEF DeployInv

LEMMA SetVersion ==
  ASSUME NEW versions \in Versions, NEW n \in Names, NEW v \in 0..MaxRuns
  PROVE  [versions EXCEPT ![n] = v] \in Versions
BY DEF Versions

LEMMA TypesStep == Types /\ [Next]_vars => Types'
<1> SUFFICES ASSUME Types, [Next]_vars PROVE Types'
  OBVIOUS
<1> USE SecretsFacts DEF Types, Goto, Step
<1>1. CASE UNCHANGED vars
  BY <1>1 DEF vars
<1>2. ASSUME NEW r \in Runs, Begin(r) PROVE Types'
  BY <1>2 DEF Begin, Stages, Active
<1>3. ASSUME NEW r \in Runs, Add(r) PROVE Types'
  <2>1. r \in 0..MaxRuns
    BY DeploymentAssumption DEF Runs
  <2>2. latest' \in Versions
    BY <1>3, <2>1, SetVersion DEF Add
  <2>3. pc' \in [Runs -> Stages] /\ line' \in [Runs -> DOMAIN Secrets]
    BY <1>3 DEF Add, Stages, Active
  <2> QED BY <1>3, <2>2, <2>3 DEF Add
<1>4. ASSUME NEW r \in Runs, Pick(r) PROVE Types'
  <2>1. latest[Secrets[line[r]]] \in 0..MaxRuns
    BY DEF Versions
  <2>2. [picked[r] EXCEPT ![Secrets[line[r]]] = latest[Secrets[line[r]]]] \in Versions
    BY <2>1, SetVersion
  <2>3. picked' \in [Runs -> Versions]
    BY <1>4, <2>2 DEF Pick
  <2>4. pc' \in [Runs -> Stages] /\ line' \in [Runs -> DOMAIN Secrets]
    BY <1>4 DEF Pick, Stages, Active
  <2> QED BY <1>4, <2>3, <2>4 DEF Pick
<1>5. ASSUME NEW r \in Runs, UpdateJob(r) \/ ExecuteJob(r) \/ JobFails(r) PROVE Types'
  BY <1>5 DEF UpdateJob, ExecuteJob, JobFails, Stages, Active
<1>6. ASSUME NEW r \in Runs, DeployRevision(r) \/ RevisionFails(r) \/ Abort(r) PROVE Types'
  BY <1>6 DEF DeployRevision, RevisionFails, Abort, Stages, Active
<1>7. CASE StoreDocument
  BY <1>7 DEF StoreDocument
<1> QED BY <1>1, <1>2, <1>3, <1>4, <1>5, <1>6, <1>7 DEF Next

\* No run becomes finished but by deploying a revision that can connect, and only
\* the job changes the password under the serving one.
LEMMA OutageStep == Types /\ OutageIsARollout /\ [Next]_vars => OutageIsARollout'
<1> SUFFICES ASSUME Types, OutageIsARollout, [Next]_vars PROVE OutageIsARollout'
  OBVIOUS
<1> USE DEF Types, OutageIsARollout, Connects, Goto, Step
<1>1. CASE UNCHANGED vars
  BY <1>1 DEF vars
<1>2. ASSUME NEW r \in Runs, ExecuteJob(r) PROVE OutageIsARollout'
  BY <1>2, DeploymentAssumption DEF ExecuteJob, Runs
<1>3. ASSUME NEW r \in Runs, DeployRevision(r) PROVE OutageIsARollout'
  BY <1>3 DEF DeployRevision
<1>4. ASSUME NEW r \in Runs, Begin(r) \/ UpdateJob(r) \/ JobFails(r) \/ RevisionFails(r) \/ Abort(r)
      PROVE  OutageIsARollout'
  BY <1>4 DEF Begin, UpdateJob, JobFails, RevisionFails, Abort
<1>5. ASSUME NEW r \in Runs, Add(r) \/ Pick(r) PROVE OutageIsARollout'
  BY <1>5 DEF Add, Pick
<1>6. CASE StoreDocument
  BY <1>6 DEF StoreDocument
<1> QED BY <1>1, <1>2, <1>3, <1>4, <1>5, <1>6 DEF Next

\* The other runs take no step beside one that stays alone.
LEMMA OwnStep ==
  ASSUME Types, Types', OwnInv, NeverRefused, NEW r \in Runs,
         \/ Begin(r) \/ Add(r) \/ Pick(r) \/ UpdateJob(r) \/ ExecuteJob(r) \/ JobFails(r)
         \/ DeployRevision(r) \/ RevisionFails(r) \/ Abort(r)
  PROVE  OwnInv' /\ NeverRefused'
<1> USE DEF Goto, Step, Active, Types
<1>1. ASSUME NEW s \in Runs \ {r} PROVE pc'[s] = pc[s]
  BY DEF Begin, Add, Pick, UpdateJob, ExecuteJob, JobFails, DeployRevision, RevisionFails, Abort
<1>2. ASSUME NEW s \in Runs \ {r}, pc[s] \in Active PROVE ~alone'[s]
  <2>1. CASE Begin(r)
    BY <1>2, <2>1 DEF Begin, Beside
  <2>2. CASE ~Begin(r)
    <3>1. pc[r] \in Active /\ alone' = alone
      BY <2>2 DEF Add, Pick, UpdateJob, ExecuteJob, JobFails, DeployRevision, RevisionFails, Abort
    <3> QED BY <1>2, <3>1 DEF OwnInv, Own
  <2> QED BY <2>1, <2>2
<1>3. ASSUME NEW s \in Runs \ {r}, alone'[s] PROVE pc'[s] # "refused"
  <2>1. alone[s]
    BY <1>3 DEF Begin, Add, Pick, UpdateJob, ExecuteJob, JobFails, DeployRevision, RevisionFails, Abort
  <2> QED BY <1>1, <2>1 DEF NeverRefused
<1>4. ASSUME alone'[r] PROVE pc'[r] # "refused" /\ (pc'[r] \in Active => Own(r)')
  <2>1. CASE Begin(r)
    BY <1>1, <1>4, <2>1 DEF Begin, Beside, Own, UpTo
  <2>2. CASE ~Begin(r)
    <3>1. pc[r] \in Active /\ alone' = alone
      BY <2>2 DEF Add, Pick, UpdateJob, ExecuteJob, JobFails, DeployRevision, RevisionFails, Abort
    <3>2. Own(r)
      BY <1>4, <3>1 DEF OwnInv
    <3>3. \A s \in Runs \ {r} : pc'[s] \notin Active
      BY <1>1, <3>2 DEF Own
    <3>4. CASE Add(r)
      <4>1. UpTo(latest', r, line[r] + 1)
        BY <3>2, <3>4, UpToNext DEF Add, Own
      <4>2. CASE line[r] = Len(Secrets)
        <5>1. Throughout(latest', r)
          BY <4>1, <4>2, UpToAll
        <5>2. pc' = [pc EXCEPT ![r] = "pick"] /\ line'[r] = 1
          BY <3>4, <4>2 DEF Add
        <5> QED BY <3>2, <3>3, <3>4, <5>1, <5>2 DEF Add, Own, UpTo
      <4>3. CASE line[r] # Len(Secrets)
        <5>1. pc' = [pc EXCEPT ![r] = "add"] /\ line'[r] = line[r] + 1
          BY <3>4, <4>3 DEF Add
        <5> QED BY <3>2, <3>3, <3>4, <4>1, <5>1 DEF Add, Own
      <4> QED BY <4>2, <4>3
    <3>5. CASE Pick(r)
      <4>0. latest[Secrets[line[r]]] = r
        BY <3>2, <3>5, SecretsFacts DEF Pick, Own, Throughout
      <4>1. UpTo(picked'[r], r, line[r] + 1)
        <5>1. picked'[r] = [picked[r] EXCEPT ![Secrets[line[r]]] = r]
          BY <3>5, <4>0 DEF Pick
        <5>2. UpTo(picked[r], r, line[r])
          BY <3>2, <3>5 DEF Pick, Own
        <5>3. picked[r] \in Versions /\ line[r] \in DOMAIN Secrets
          OBVIOUS
        <5>4. UpTo([picked[r] EXCEPT ![Secrets[line[r]]] = r], r, line[r] + 1)
          BY <5>2, <5>3, UpToNext
        <5> QED BY <5>1, <5>4
      <4>2. CASE line[r] = Len(Secrets)
        <5>1. Throughout(picked'[r], r)
          BY <4>1, <4>2, UpToAll
        <5>2. pc' = [pc EXCEPT ![r] = "update"]
          BY <3>5, <4>2 DEF Pick
        <5> QED BY <3>2, <3>3, <3>5, <5>1, <5>2 DEF Pick, Own, Throughout
      <4>3. CASE line[r] # Len(Secrets)
        <5>1. pc' = [pc EXCEPT ![r] = "pick"] /\ line'[r] = line[r] + 1
          BY <3>5, <4>3 DEF Pick
        <5> QED BY <3>2, <3>3, <3>5, <4>1, <5>1 DEF Pick, Own, Throughout
      <4> QED BY <4>2, <4>3
    <3>6. CASE UpdateJob(r)
      BY <3>2, <3>3, <3>6 DEF UpdateJob, Own
    <3>7. CASE ExecuteJob(r) \/ JobFails(r)
      BY <3>2, <3>3, <3>7, SecretsFacts DEF ExecuteJob, JobFails, Own, Throughout
    <3>8. CASE DeployRevision(r) \/ RevisionFails(r) \/ Abort(r)
      BY <3>2, <3>8, SecretsFacts DEF DeployRevision, RevisionFails, Abort, Own, Throughout
    <3> QED BY <2>2, <3>4, <3>5, <3>6, <3>7, <3>8
  <2> QED BY <2>1, <2>2
<1> QED BY <1>1, <1>2, <1>3, <1>4 DEF OwnInv, NeverRefused

LEMMA StepDeploy == DeployInv /\ [Next]_vars => DeployInv'
<1> SUFFICES ASSUME DeployInv, [Next]_vars PROVE DeployInv'
  OBVIOUS
<1>1. Types' /\ OutageIsARollout'
  BY TypesStep, OutageStep DEF DeployInv
<1>2. OwnInv' /\ NeverRefused'
  <2>1. CASE UNCHANGED vars
    BY <2>1 DEF DeployInv, vars, OwnInv, NeverRefused, Own, UpTo, Throughout
  <2>2. CASE StoreDocument
    BY <2>2 DEF StoreDocument, DeployInv, OwnInv, NeverRefused, Own, UpTo, Throughout
  <2>3. CASE Next /\ ~StoreDocument
    BY <1>1, <2>3, OwnStep DEF Next, DeployInv
  <2> QED BY <2>1, <2>2, <2>3
<1> QED BY <1>1, <1>2 DEF DeployInv

LEMMA DeployInvariant == Spec => []DeployInv
BY InitDeploy, StepDeploy, PTL DEF Spec

\* However the runs of the script cross and wherever they stop, the serving revision
\* loses its database only from a migration to the end of the run that migrated.
THEOREM OutageTheorem == Spec => []OutageIsARollout
<1>1. DeployInv => OutageIsARollout
  BY DEF DeployInv
<1> QED BY <1>1, DeployInvariant, PTL

\* A run beside no other is not refused, whatever the runs before it left behind.
THEOREM RepairTheorem == Spec => []NeverRefused
<1>1. DeployInv => NeverRefused
  BY DEF DeployInv
<1> QED BY <1>1, DeployInvariant, PTL
=============================================================================
