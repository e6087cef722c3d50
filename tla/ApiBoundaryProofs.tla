------------------------- MODULE ApiBoundaryProofs -------------------------
(***************************************************************************)
(* The identity boundary for any number of tenants, processes, secrets,    *)
(* clocks and tokens.                                                      *)
(***************************************************************************)
EXTENDS ApiBoundary, TLAPS

\* What mint leaves in every token in circulation.
Minted(m) ==
  /\ m.by \in Processes /\ m.at \in Nat
  /\ m.claims.exp = (m.at + Skew[m.by]) \div 2 + Lifetime

TokensMinted == now \in Nat /\ \A m \in issued : Minted(m)

\* The last answer was given to a token that can be put together from those issued.
LastAnswer ==
  \/ last = Nobody
  \/ /\ last.process \in Processes
     /\ last.override \in BOOLEAN
     /\ last.presented \subseteq Presentable
     /\ \A j, k \in last.presented : j = k
     /\ \E wellFormed \in BOOLEAN :
          last.status = Status(last.process, last.override, last.presented, wellFormed)

IInv == TokensMinted /\ LastAnswer

\* The status, check by check.
LEMMA StatusCases ==
  ASSUME NEW p, NEW override \in BOOLEAN, NEW presented, NEW wellFormed \in BOOLEAN
  PROVE  /\ override <=> Status(p, override, presented, wellFormed) = 400
         /\ ~override =>
              ((\A token \in presented : ~Verifies(p, token))
                 <=> Status(p, override, presented, wellFormed) = 401)
         /\ Status(p, override, presented, wellFormed) \in {200, 400, 401, 422}
BY DEF Status

LEMMA IInvInit == Init => IInv
BY DEF Init, IInv, TokensMinted, LastAnswer

LEMMA IInvStep == IInv /\ [Next]_vars => IInv'
<1> SUFFICES ASSUME IInv, [Next]_vars PROVE IInv'
  OBVIOUS
<1> USE DEF IInv
<1>1. CASE Tick
  BY <1>1 DEF Tick, TokensMinted, LastAnswer, Minted
<1>2. ASSUME NEW p \in Processes, NEW t \in Tenants, NEW ours \in BOOLEAN, Mint(p, t, ours)
      PROVE  IInv'
  <2>1. now' = now /\ last' = Nobody
    BY <1>2 DEF Mint
  <2>2. \A m \in issued' : Minted(m)
    <3> DEFINE claims == [ours |-> ours, tenant |-> t, exp |-> Clock(p) \div 2 + Lifetime]
    <3> DEFINE new == [claims |-> claims, by |-> p, at |-> now]
    <3>1. issued' = issued \cup {new}
      BY <1>2 DEF Mint
    <3>2. Minted(new)
      BY DEF Minted, Clock, TokensMinted
    <3> QED  BY <3>1, <3>2 DEF TokensMinted
  <2> QED  BY <2>1, <2>2 DEF TokensMinted, LastAnswer, Minted
<1>3. ASSUME NEW p \in Processes, NEW override \in BOOLEAN, NEW wellFormed \in BOOLEAN,
             NEW presented, presented \subseteq Presentable, \A j, k \in presented : j = k,
             Handle(p, override, presented, wellFormed)
      PROVE  IInv'
  <2>1. now' = now /\ issued' = issued
    BY <1>3 DEF Handle
  <2>2. Presentable' = Presentable
    BY <2>1 DEF Presentable
  <2>3. last' = [status |-> Status(p, override, presented, wellFormed), process |-> p,
                 presented |-> presented, override |-> override]
    BY <1>3 DEF Handle
  <2>4. Status(p, override, presented, wellFormed)' = Status(p, override, presented, wellFormed)
    BY <2>1 DEF Status, Verifies, Genuine, Sign, Expired, Clock
  <2>5. LastAnswer'
    <3>1. /\ last'.process = p /\ last'.presented = presented /\ last'.override = override
          /\ last'.status = Status(p, override, presented, wellFormed)
      BY <2>3
    <3> QED  BY <1>3, <2>1, <2>2, <2>4, <3>1 DEF LastAnswer, Status, Verifies, Genuine, Sign, Expired, Clock
  <2> QED  BY <2>1, <2>5 DEF TokensMinted, Minted
<1>4. CASE UNCHANGED vars
  BY <1>4 DEF vars, TokensMinted, LastAnswer, Minted, Presentable, Status, Verifies, Genuine,
              Sign, Expired, Clock
<1>5. ASSUME NEW p \in Processes, NEW override \in BOOLEAN, NEW wellFormed \in BOOLEAN,
             \/ Handle(p, override, {}, wellFormed)
             \/ \E token \in Presentable : Handle(p, override, {token}, wellFormed)
      PROVE  IInv'
  <2>1. CASE Handle(p, override, {}, wellFormed)
    BY <1>3, <2>1
  <2>2. ASSUME NEW token \in Presentable, Handle(p, override, {token}, wellFormed)
        PROVE  IInv'
    <3>1. {token} \subseteq Presentable /\ \A j, k \in {token} : j = k
      OBVIOUS
    <3> HIDE DEF IInv
    <3> QED  BY <1>3, <2>2, <3>1
  <2> QED  BY <1>5, <2>1, <2>2
<1> HIDE DEF IInv
<1> QED  BY <1>1, <1>2, <1>4, <1>5 DEF Next

\* A genuine token has an origin under the same secret.
LEMMA GenuineHasOrigin ==
  ASSUME NEW p \in Processes, NEW token \in Presentable, Genuine(p, token)
  PROVE  Origins(p, token.claims) # {}
<1>1. PICK c \in issued, s \in issued :
        token = [claims |-> c.claims, signature |-> Sign(s.by, s.claims)]
  BY DEF Presentable
<1>2. Sign(s.by, s.claims) = Sign(p, c.claims)
  BY <1>1 DEF Genuine
<1>3. Secret[s.by] = Secret[p] /\ s.claims = c.claims
  BY <1>2 DEF Sign
<1> QED  BY <1>1, <1>3 DEF Origins

\* authenticated_principal: whoever is admitted was issued that identity, on every
\* deployment, however issued tokens are taken apart and put together.
THEOREM IdentityTheorem == Spec => []IdentityIsIssued
<1>1. IInv => IdentityIsIssued
  <2> SUFFICES ASSUME IInv, last.status \in {200, 422}
               PROVE  \E token \in last.presented :
                        token.claims.ours /\ Origins(last.process, token.claims) # {}
    BY DEF IdentityIsIssued
  <2>1. LastAnswer /\ last # Nobody
    BY DEF IInv, Nobody
  <2>2. PICK token \in last.presented : Verifies(last.process, token)
    BY <2>1, StatusCases DEF LastAnswer
  <2> QED  BY <2>1, <2>2, GenuineHasOrigin DEF LastAnswer, Verifies
<1> QED  BY <1>1, IInvInit, IInvStep, PTL DEF Spec

\* verify: the exact window of half seconds in which an unaltered token is good.
THEOREM FreshnessTheorem == Spec => []AdmittedWhileFresh
<1>1. IInv => AdmittedWhileFresh
  <2> SUFFICES ASSUME IInv, last.status \in {200, 401}, ~last.override,
                      NEW token \in last.presented,
                      token.claims.ours, Genuine(last.process, token),
                      NEW m \in Origins(last.process, token.claims)
               PROVE  (last.status = 200) <=>
                        (now - m.at + Skew[last.process] - Skew[m.by]
                           < 2 * Lifetime - ((m.at + Skew[m.by]) % 2))
    BY DEF AdmittedWhileFresh
  <2> DEFINE p == last.process
  <2>1. LastAnswer /\ last # Nobody
    BY DEF IInv, Nobody
  <2>2. p \in Processes /\ m \in issued /\ m.claims = token.claims
    BY <2>1 DEF LastAnswer, Origins
  <2>3. Minted(m) /\ now \in Nat
    BY <2>2 DEF IInv, TokensMinted
  <2>4. last.status = 200 => \E k \in last.presented : Verifies(p, k)
    BY <2>1, StatusCases DEF LastAnswer
  <2>5. last.status = 401 => ~Verifies(p, token)
    BY <2>1, StatusCases DEF LastAnswer
  <2>6. Verifies(p, token) <=> ~Expired(p, token)
    BY DEF Verifies
  <2>7. ~Expired(p, token) <=> (now - m.at + Skew[p] - Skew[m.by]
                                  < 2 * Lifetime - ((m.at + Skew[m.by]) % 2))
    <3> DEFINE a == m.at + Skew[m.by]
    <3>1. a \in Nat /\ Skew[p] \in Nat /\ Skew[m.by] \in Nat /\ Lifetime \in Nat /\ m.at \in Nat
      BY <2>2, <2>3, BoundaryAssumption DEF Minted
    <3>2. token.claims.exp = a \div 2 + Lifetime
      BY <2>2, <2>3 DEF Minted
    <3>3. 2 * (a \div 2) = a - (a % 2) /\ a % 2 \in 0..1 /\ a \div 2 \in Nat
      BY <3>1
    <3> HIDE DEF a
    <3>4. Expired(p, token) <=> 2 * (a \div 2) + 2 * Lifetime <= now + Skew[p]
      BY <2>3, <3>1, <3>2, <3>3 DEF Expired, Clock
    <3>5. Expired(p, token) <=> a - (a % 2) + 2 * Lifetime <= now + Skew[p]
      BY <3>3, <3>4
    <3> QED  BY <2>3, <3>1, <3>3, <3>5 DEF a
  <2>8. \A k \in last.presented : k = token
    BY <2>1 DEF LastAnswer
  <2> QED  BY <2>4, <2>5, <2>6, <2>7, <2>8
<1> QED  BY <1>1, IInvInit, IInvStep, PTL DEF Spec
=============================================================================
