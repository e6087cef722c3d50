---------------------------- MODULE ReleaseGate ----------------------------
(***************************************************************************)
(* run_release_gate (release_verifier.py) against the running service: the *)
(* gate is one client of TenantVault among others.  Each of its requests   *)
(* goes to whichever process the load balancer picks.                      *)
(*                                                                         *)
(*   fences, then per tenant: attest - wait - status, then the report      *)
(***************************************************************************)
EXTENDS TenantVault

CONSTANTS
  Tokens,   \* the tenants of demo_tokens, in its order
  Gate      \* the gate's attestation requests, one per token

\* tokens['northstar'] has been read before the loop: there is at least one token.
ASSUME GateAssumption ==
  /\ Tokens \in Seq(Tenants) /\ Len(Tokens) > 0
  /\ Gate \in Seq(Requests) /\ Len(Gate) = Len(Tokens)
  /\ \A j, k \in DOMAIN Gate : Gate[j] = Gate[k] => j = k

VARIABLES
  step,       \* where the gate is
  turn,       \* the tenant it is at
  noted,      \* per tenant, what the report will say
  teller,     \* per tenant, the process that told its status; the gate never learns which
  verdict     \* passed, or failed, or error when the gate itself raised

gateVars == <<step, turn, noted, teller, verdict>>

allVars == <<vars, gateVars>>

Own == {Gate[k] : k \in DOMAIN Gate}

G == Gate[turn]

Note == [code : {0, 200, 403, 423, 500, 503}, status : Verdict \cup {"none"},
         state : {"active", "quarantined", "none"}]

Blank == [code |-> 0, status |-> "none", state |-> "none"]

\* demo_tokens grants both scopes.
GateInit ==
  /\ Init
  /\ \A k \in DOMAIN Gate : /\ Kind(Gate[k]) = "attest" /\ Tenant(Gate[k]) = Tokens[k]
                            /\ call[Gate[k]].scopes = Scopes
  /\ step = "fences"
  /\ turn = 1
  /\ noted = [k \in DOMAIN Gate |-> Blank]
  /\ teller = [k \in DOMAIN Gate |-> inst[Gate[k]]]
  /\ verdict = "none"

\* The two overrides; whether they were answered 400 and 422 is open until Report.
TryFences ==
  /\ step = "fences"
  /\ step' = "attest"
  /\ UNCHANGED <<vars, turn, noted, teller, verdict>>

Send ==
  /\ step = "attest"
  /\ Receive(G)
  /\ step' = "wait"
  /\ UNCHANGED <<turn, noted, teller, verdict>>

Hear ==
  /\ step = "wait"
  /\ pc[G] = "done"
  /\ noted' = [noted EXCEPT ![turn].code = reply[G].status,
                            ![turn].status = IF reply[G].status = 200 THEN draft[G].status ELSE "none"]
  /\ step' = "status"
  /\ UNCHANGED <<vars, turn, teller, verdict>>

\* Mutant: the gate waits on for a process that stopped.
WaitOn ==
  /\ step = "wait"
  /\ pc[G] = "lost"
  /\ UNCHANGED allVars

\* The process stopped: the load balancer answers for it.
HearNothing ==
  /\ step = "wait"
  /\ pc[G] = "lost"
  /\ noted' = [noted EXCEPT ![turn].code = 503]
  /\ step' = "status"
  /\ UNCHANGED <<vars, turn, teller, verdict>>

\* The gate ends, and what it has noted goes with it.
Leave(outcome) ==
  /\ step' = "end"
  /\ verdict' = outcome
  /\ turn' = 1
  /\ noted' = [k \in DOMAIN Gate |-> Blank]
  /\ UNCHANGED <<vars, teller>>

\* A refused connection, an error page of demo_tokens, or the timeout of 20 s while
\* the handler runs on: httpx raises and the job fails without a report.
GiveUp ==
  /\ step \in {"fences", "attest", "wait", "status"}
  /\ Leave("error")

\* Mutant: the loop over the tokens goes one too far.
OneTooFar == turn > Len(Gate)

LastToken == turn = Len(Gate)

\* GET /v1/control-plane/status, on any process; a tenant without a contract: 500.
ReadStatus(i) ==
  /\ step = "status"
  /\ LET t == Tenant(G)
     IN  noted' = [noted EXCEPT ![turn].state = IF HasContract(t) THEN workspace[i][t] ELSE "none"]
  /\ teller' = [teller EXCEPT ![turn] = i]
  /\ turn' = IF LastToken THEN turn ELSE turn + 1
  /\ step' = IF LastToken THEN "report" ELSE "attest"
  /\ UNCHANGED <<vars, verdict>>

\* Mutant: an attestation that passed is enough, whatever the status says.
AcceptsQuarantined(n) == n.code = 200 /\ n.status = "passed"

\* Every record is signed and every contract has a version: those checks never fail.
Accepts(n) == n.code = 200 /\ n.status = "passed" /\ n.state = "active"

Report ==
  /\ step = "report"
  /\ \E fenced \in BOOLEAN :
       Leave(IF fenced /\ \A k \in DOMAIN Gate : Accepts(noted[k]) THEN "passed" ELSE "failed")

GateStep == \/ TryFences \/ Send \/ Hear \/ HearNothing \/ Report
            \/ \E i \in Instances : ReadStatus(i)

Over ==
  /\ step = "end"
  /\ \A r \in Requests : pc[r] \in {"done", "lost"} \/ (r \in Own /\ pc[r] = "idle")
  /\ UNCHANGED allVars

Service ==
  /\ \/ \E r \in Requests : (r \notin Own /\ Receive(r)) \/ Proceed(r) \/ Raise(r)
     \/ \E i \in Instances : Restart(i)
  /\ UNCHANGED gateVars

GateNext == GateStep \/ GiveUp \/ Service \/ Over

GateSpec ==
  /\ GateInit /\ [][GateNext]_allVars
  /\ WF_allVars(GateStep) /\ \A r \in Requests : WF_allVars(Proceed(r) /\ UNCHANGED gateVars)
-----------------------------------------------------------------------------
GateTypeOK ==
  /\ TypeOK
  /\ step \in {"fences", "attest", "wait", "status", "report", "end"}
  /\ turn \in DOMAIN Gate /\ noted \in [DOMAIN Gate -> Note]
  /\ teller \in [DOMAIN Gate -> Instances]
  /\ verdict \in {"none", "passed", "failed", "error"}

\* What process i knows of the probe g by its own records: the record of g, and those
\* filed before it, tell of no quarantine.  A process restarted since has none of g.
Untroubled(i, g) ==
  LET log == attestations[i][Tenant(g)]
  IN  \A j \in DOMAIN log : log[j].probe = g =>
        ~log[j].quarantined /\ \A h \in 1..j : log[h].status = "passed"

\* A gate that passed has made, for every tenant, an attestation of its own that ran
\* to its end on one process, found no canary and left its audit event in the
\* database: an error, a timeout, a refusal or a lost process never passes.  And if
\* the process that attested told the status too, no attestation of the tenant had
\* failed there by the time that one was filed, unless a restart has wiped it out: a
\* quarantine from beside the gate's own passed attestation is seen.  Of a quarantine
\* on another process the gate knows nothing, and passes.
PassedMeansAttested ==
  verdict = "passed" => \A k \in DOMAIN Gate :
    LET g == Gate[k] IN
    /\ pc[g] = "done" /\ reply[g].status = 200 /\ draft[g].status = "passed" /\ ~Leaked(g)
    /\ \E e \in DOMAIN events : events[e].hash = g /\ events[e].tenant = Tenant(g)
    /\ teller[k] = inst[g] => Untroubled(inst[g], g)

\* The gate's verdict does not wait on its timeout: the service answers or dies.
GateEnds == <>(step = "end")
=============================================================================
