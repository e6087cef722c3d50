-------------------------- MODULE PgSessionProofs --------------------------
(***************************************************************************)
(* Transactions and their tenant context for any number of handlers,       *)
(* tenants and connections, and any number of errors.                      *)
(***************************************************************************)
EXTENDS PgSession, FiniteSetTheorems, TLAPS

Stages == {"connect", "begin", "context", "statement", "commit", "close",
           "rollback", "raised", "done", "failed"}

Types ==
  /\ pc \in [Handlers -> Stages]
  /\ left \in [Handlers -> Int]
  /\ held \in [Handlers -> Backends \cup {None}]
  /\ open \subseteq Backends
  /\ inside \in [Backends -> BOOLEAN]
  /\ context \in [Backends -> {TenantOf[h] : h \in Handlers} \cup {None}]

\* A handler holds a backend of its own from connect to the end of its operation.
Exclusive ==
  /\ \A h \in Handlers : Connected(h) <=> held[h] # None
  /\ \A g, h \in Handlers : held[g] = held[h] /\ held[g] # None => g = h

\* The open connections are the held ones.
OpenIsHeld == \A b \in Backends : b \in open <=> \E h \in Handlers : held[h] = b

\* A context belongs to a handler that is about to end the transaction it is in.
Owned(b) ==
  context[b] # None =>
    /\ inside[b]
    /\ \E h \in Handlers : /\ held[h] = b
                           /\ pc[h] \in {"statement", "commit", "rollback"}
                           /\ context[b] = TenantOf[h]

\* What each stage has established on the backend it holds.
Established(h) ==
  /\ pc[h] \in {"context", "statement", "commit"} => inside[held[h]]
  /\ pc[h] \in {"statement", "commit"} => context[held[h]] = TenantOf[h]

SessionInv ==
  /\ Types /\ Exclusive /\ OpenIsHeld
  /\ \A b \in Backends : Owned(b)
  /\ \A h \in Handlers : Established(h)

LEMMA InitInv == Init => SessionInv
BY SessionAssumption
   DEF Init, SessionInv, Types, Stages, Exclusive, Connected, OpenIsHeld, Owned, Established

LEMMA StepInv == SessionInv /\ [Next]_vars => SessionInv'
<1> SUFFICES ASSUME SessionInv, [Next]_vars PROVE SessionInv'
  OBVIOUS
<1> USE SessionAssumption DEF SessionInv, Types, Stages, Exclusive, Connected, OpenIsHeld, Goto
<1>0. CASE UNCHANGED vars
  BY <1>0 DEF vars, Owned, Established
<1> SUFFICES ASSUME NEW h \in Handlers,
                    \/ Connect(h) \/ Refused(h) \/ Begin(h) \/ SetContext(h) \/ Execute(h) \/ Commit(h)
                    \/ Close(h) \/ RollBackAndClose(h) \/ Drop(h) \/ ConnectError(h) \/ Error(h) \/ Serve(h)
             PROVE  SessionInv'
  BY <1>0 DEF Next
<1>1. CASE Connect(h)
  <2>1. PICK b \in Free : held' = [held EXCEPT ![h] = b] /\ open' = open \cup {b}
    BY <1>1 DEF Connect
  <2>2. held[h] = None
    BY <1>1 DEF Connect
  <2>3. \A g \in Handlers : held[g] # b
    BY <2>1 DEF Free
  <2>4. Types' /\ Exclusive' /\ OpenIsHeld'
    BY <1>1, <2>1, <2>2, <2>3 DEF Connect, Free
  <2>5. \A c \in Backends : Owned(c)'
    BY <1>1, <2>1, <2>2 DEF Connect, Owned
  <2>6. \A g \in Handlers : Established(g)'
    BY <1>1, <2>1, <2>2 DEF Connect, Established
  <2> QED BY <2>4, <2>5, <2>6
<1>2. CASE Refused(h) \/ ConnectError(h) \/ Serve(h)
  <2>1. Types' /\ Exclusive' /\ OpenIsHeld'
    BY <1>2 DEF Refused, ConnectError, Serve
  <2>2. \A c \in Backends : Owned(c)'
    BY <1>2 DEF Refused, ConnectError, Serve, Owned
  <2>3. \A g \in Handlers : Established(g)'
    BY <1>2 DEF Refused, ConnectError, Serve, Established
  <2> QED BY <2>1, <2>2, <2>3
<1>3. CASE Begin(h) \/ SetContext(h) \/ Execute(h)
  <2>1. held[h] \in Backends /\ \A g \in Handlers : held[g] = held[h] => g = h
    BY <1>3 DEF Begin, SetContext, Execute
  <2>2. Types' /\ Exclusive' /\ OpenIsHeld'
    <3>1. Types'
      <4>1. CASE Begin(h) \/ Execute(h)
        BY <4>1, <2>1 DEF Begin, Execute
      <4>2. CASE SetContext(h)
        BY <4>2, <2>1 DEF SetContext
      <4> QED BY <1>3, <4>1, <4>2
    <3>2. Exclusive'
      BY <1>3, <2>1 DEF Begin, SetContext, Execute
    <3>3. OpenIsHeld'
      BY <1>3, <2>1 DEF Begin, SetContext, Execute
    <3> QED BY <3>1, <3>2, <3>3
  <2>3. \A c \in Backends : Owned(c)'
    BY <1>3, <2>1 DEF Begin, SetContext, Execute, Owned, Established
  <2>4. \A g \in Handlers : Established(g)'
    BY <1>3, <2>1 DEF Begin, SetContext, Execute, Established
  <2> QED BY <2>2, <2>3, <2>4
<1>4. CASE Commit(h) \/ RollBackAndClose(h)
  <2>1. held[h] \in Backends /\ \A g \in Handlers : held[g] = held[h] => g = h
    BY <1>4 DEF Commit, RollBackAndClose
  <2>2. Types' /\ Exclusive' /\ OpenIsHeld'
    <3>1. Types'
      BY <1>4, <2>1 DEF Commit, RollBackAndClose, Release, End
    <3>2. Exclusive'
      BY <1>4, <2>1 DEF Commit, RollBackAndClose, Release, End
    <3>3. OpenIsHeld'
      BY <1>4, <2>1 DEF Commit, RollBackAndClose, Release, End
    <3> QED BY <3>1, <3>2, <3>3
  <2>3. \A c \in Backends : Owned(c)'
    BY <1>4, <2>1 DEF Commit, RollBackAndClose, Release, End, Owned
  <2>4. \A g \in Handlers : Established(g)'
    BY <1>4, <2>1 DEF Commit, RollBackAndClose, Release, End, Established
  <2> QED BY <2>2, <2>3, <2>4
<1>5. CASE Close(h) \/ Drop(h)
  <2>1. held[h] \in Backends /\ \A g \in Handlers : held[g] = held[h] => g = h
    BY <1>5 DEF Close, Drop
  <2>2. Types' /\ Exclusive' /\ OpenIsHeld'
    BY <1>5, <2>1 DEF Close, Drop, Release
  <2>3. \A c \in Backends : Owned(c)'
    BY <1>5, <2>1 DEF Close, Drop, Release, Owned
  <2>4. \A g \in Handlers : Established(g)'
    BY <1>5, <2>1 DEF Close, Drop, Release, Established
  <2> QED BY <2>2, <2>3, <2>4
<1>6. CASE Error(h)
  <2>1. held[h] \in Backends /\ \A g \in Handlers : held[g] = held[h] => g = h
    BY <1>6 DEF Error
  <2>2. Types' /\ Exclusive' /\ OpenIsHeld'
    BY <1>6, <2>1 DEF Error, End
  <2>3. \A c \in Backends : Owned(c)'
    BY <1>6, <2>1 DEF Error, End, Owned
  <2>4. \A g \in Handlers : Established(g)'
    BY <1>6, <2>1 DEF Error, End, Established
  <2> QED BY <2>2, <2>3, <2>4
<1> QED BY <1>1, <1>2, <1>3, <1>4, <1>5, <1>6

LEMMA SessionInvariant == Spec => []SessionInv
BY InitInv, StepInv, PTL DEF Spec

\* Whatever fails and whoever comes next, the context a transaction sets is gone when
\* the transaction is, and until then it is that of the one handler on the connection.
THEOREM ContextTheorem == Spec => []ContextIsTransactionLocal
<1>1. SessionInv => ContextIsTransactionLocal
  BY DEF SessionInv, Owned, ContextIsTransactionLocal
<1> QED BY <1>1, SessionInvariant, PTL

\* Every statement runs under the tenant context of its own handler, on a connection
\* that no other handler uses.
THEOREM StatementTheorem == Spec => []StatementUnderOwnTenant
<1>1. SessionInv => StatementUnderOwnTenant
  BY DEF SessionInv, Types, Exclusive, Established, StatementUnderOwnTenant
<1> QED BY <1>1, SessionInvariant, PTL

\* No error path keeps a connection: connect is refused only while as many other
\* handlers are connected as the database has connections.
THEOREM RefusalTheorem == Spec => []RefusedOnlyWhenBusy
<1>1. SessionInv => RefusedOnlyWhenBusy
  <2> SUFFICES ASSUME SessionInv, NEW h \in Handlers, pc[h] = "connect", Free = {}
               PROVE  Cardinality({g \in Handlers \ {h} : Connected(g)}) = Cardinality(Backends)
    BY DEF RefusedOnlyWhenBusy
  <2> DEFINE Busy == {g \in Handlers \ {h} : Connected(g)}
             Holder == [b \in Backends |-> CHOOSE g \in Busy : held[g] = b]
  <2>1. ASSUME NEW b \in Backends PROVE \E g \in Busy : held[g] = b
    BY SessionAssumption DEF SessionInv, Types, Exclusive, OpenIsHeld, Free, Connected
  <2>2. \A b \in Backends : Holder[b] \in Busy /\ held[Holder[b]] = b
    BY <2>1
  <2>3. \A g \in Busy : held[g] \in Backends /\ Holder[held[g]] = g
    BY <2>2 DEF SessionInv, Types, Exclusive
  <2> HIDE DEF Holder
  <2>4. Holder \in Bijection(Backends, Busy)
    <3>1. Holder \in [Backends -> Busy]
      BY <2>2 DEF Holder
    <3> QED BY <2>2, <2>3, <3>1 DEF Bijection, Injection, IsInjective, Surjection
  <2>5. ExistsBijection(Backends, Busy)
    BY <2>4 DEF ExistsBijection
  <2> QED BY <2>5, SessionAssumption, FS_Bijection
<1> QED BY <1>1, SessionInvariant, PTL
=============================================================================
