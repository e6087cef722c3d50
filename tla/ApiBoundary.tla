---------------------------- MODULE ApiBoundary ----------------------------
(***************************************************************************)
(* TokenAuthority (security.py) and authenticated_principal (api.py):      *)
(* who a request is taken to be, and the status it gets when it is taken   *)
(* to be nobody.  Every endpoint under /v1 depends on it.                  *)
(*                                                                         *)
(* HMAC is ideal: a signature is the secret and the claims it was made     *)
(* of.  A caller may put any claims and any signature it has seen          *)
(* together.  Time is counted in half seconds, because mint drops the      *)
(* fraction of time.time() and verify does not.                            *)
(***************************************************************************)
EXTENDS Integers, FiniteSets

CONSTANTS
  Tenants,
  Processes,
  Secret,       \* TOKEN_SIGNING_SECRET of each process
  Skew,         \* how far its clock is ahead, in half seconds
  Lifetime,     \* ttl_seconds
  Horizon,      \* bound on real time
  MaxTokens     \* bound on the tokens in circulation

ASSUME BoundaryAssumption ==
  /\ Skew \in [Processes -> Nat]
  /\ Lifetime \in Nat /\ Horizon \in Nat /\ MaxTokens \in Nat

VARIABLES
  now,      \* real time
  issued,   \* tokens in circulation, with who made them and when
  last      \* the answer just given

vars == <<now, issued, last>>

\* ours: issuer and audience are those of this API.
Claims == [ours : BOOLEAN, tenant : Tenants, exp : Nat]

Nobody == [status |-> 0]

Clock(p) == now + Skew[p]

Sign(p, claims) == [secret |-> Secret[p], claims |-> claims]

\* Mutant: the signature is checked to be one of ours, not to be of this payload.
SignedByUs(p, token) == token.signature.secret = Secret[p]

\* compare_digest over header and payload.
Genuine(p, token) == token.signature = Sign(p, token.claims)

\* Mutant: a token is still good at the moment it expires.
ExpiredAfter(p, token) == 2 * token.claims.exp < Clock(p)

\* int(claims["exp"]) <= time.time()
Expired(p, token) == 2 * token.claims.exp <= Clock(p)

Verifies(p, token) == Genuine(p, token) /\ token.claims.ours /\ ~Expired(p, token)

\* presented is {} for a missing or malformed credential, else the one token.  The
\* framework reports a body that fails its model after the dependencies have run.
Status(p, override, presented, wellFormed) ==
  IF override THEN 400
  ELSE IF \A token \in presented : ~Verifies(p, token) THEN 401
  ELSE IF wellFormed THEN 200
  ELSE 422
-----------------------------------------------------------------------------
Init ==
  /\ now = 0
  /\ issued = {}
  /\ last = Nobody

Tick ==
  /\ now < Horizon
  /\ now' = now + 1
  /\ last' = Nobody
  /\ UNCHANGED issued

\* mint: from demo_tokens for this API, or elsewhere under the same secret for another.
Mint(p, t, ours) ==
  /\ Cardinality(issued) < MaxTokens
  /\ LET claims == [ours |-> ours, tenant |-> t, exp |-> Clock(p) \div 2 + Lifetime]
     IN  issued' = issued \cup {[claims |-> claims, by |-> p, at |-> now]}
  /\ last' = Nobody
  /\ UNCHANGED now

\* A token put together from what was issued.
Presentable == {[claims |-> c.claims, signature |-> Sign(s.by, s.claims)] : c, s \in issued}

Handle(p, override, presented, wellFormed) ==
  /\ last' = [status |-> Status(p, override, presented, wellFormed), process |-> p,
              presented |-> presented, override |-> override]
  /\ UNCHANGED <<now, issued>>

Next ==
  \/ Tick
  \/ \E p \in Processes, t \in Tenants, ours \in BOOLEAN : Mint(p, t, ours)
  \/ \E p \in Processes, override, wellFormed \in BOOLEAN :
       \/ Handle(p, override, {}, wellFormed)
       \/ \E token \in Presentable : Handle(p, override, {token}, wellFormed)

Spec == Init /\ [][Next]_vars
-----------------------------------------------------------------------------
\* The tokens issued with these claims under the secret of process p.
Origins(p, claims) == {m \in issued : m.claims = claims /\ Secret[m.by] = Secret[p]}

\* Who is admitted is who a process with the same secret issued a token to, for
\* this API: no recombination of claims and signatures adds a tenant.
IdentityIsIssued ==
  last.status \in {200, 422} =>
    \E token \in last.presented : token.claims.ours /\ Origins(last.process, token.claims) # {}

\* An unaltered token is good for its lifetime, less the fraction of a second mint
\* dropped, plus or minus the clocks' difference, and not a half second longer.
AdmittedWhileFresh ==
  last.status \in {200, 401} /\ ~last.override =>
    \A token \in last.presented :
      token.claims.ours /\ Genuine(last.process, token) =>
        \A m \in Origins(last.process, token.claims) :
          LET dropped == (m.at + Skew[m.by]) % 2
              age == now - m.at + Skew[last.process] - Skew[m.by]
          IN  (last.status = 200) <=> (age < 2 * Lifetime - dropped)
=============================================================================
