--------------------------- MODULE SessionProofs ----------------------------
(***************************************************************************)
(* Proofs about SessionLease, for any number of sessions and holders, any  *)
(* lease term and any bounds, and about SessionRecovery, for any number of *)
(* coordinators and reapers and any page size too.                         *)
(***************************************************************************)
EXTENDS SessionRecovery, TLAPS

-----------------------------------------------------------------------------
(***************************************************************************)
(* The lease store.                                                        *)
(***************************************************************************)

\* Every generation handed out was drawn from the counter.
GrantsIssued == \A g \in granted : g.gen \in 1..lastGen

\* The lease row of a session carries the newest generation granted for it.
RowIsNewest ==
    \A s \in Session : lease[s] # NoLease =>
        /\ lease[s].gen \in 1..lastGen
        /\ \A g \in granted : g.session = s => g.gen <= lease[s].gen

\* What the opening assertion of a transaction established still holds while the
\* transaction keeps the row locks.
TxKeepsItsGround ==
    \A s \in Session : tx[s] # NoTx =>
        /\ tx[s].kind = "fenced" => lease[s] # NoLease /\ lease[s].gen = tx[s].gen
        /\ tx[s].kind = "unfenced" => ~Live(s)
        /\ tx[s].op = "delete" => tx[s].kind = "retention"

LeaseInv == TypeOK /\ GrantsIssued /\ RowIsNewest /\ TxKeepsItsGround

-----------------------------------------------------------------------------

\* The absent row and the absent transaction are not rows or transactions.
LEMMA NullsDistinct == NoLease \notin LeaseRow /\ NoTx \notin Tx
<1>1. NoLease \notin LeaseRow
  <2>1. \A r \in LeaseRow : r.fence # 0
    BY DEF LeaseRow
  <2>2. NoLease.fence = 0
    BY DEF NoLease
  <2> QED
    BY <2>1, <2>2
<1>2. NoTx \notin Tx
  <2>1. \A r \in Tx : r.kind # "none"
    BY DEF Tx
  <2>2. NoTx.kind = "none"
    BY DEF NoTx
  <2> QED
    BY <2>1, <2>2
<1> QED
  BY <1>1, <1>2

\* Types: every variable keeps its type under every action of the store.
LEMMA TypeStep == TypeOK /\ [Next]_vars => TypeOK'
<1> SUFFICES ASSUME TypeOK, [Next]_vars PROVE TypeOK'
  OBVIOUS
<1> USE TtlAssumption, BoundAssumption
<1>1. CASE Tick
  BY <1>1 DEF Tick, TypeOK
<1>2. ASSUME NEW s \in Session, NEW h \in Holder, TakeLease(s, h)
      PROVE  /\ lease' \in [Session -> LeaseRow \cup {NoLease}]
             /\ lastGen' \in Nat
             /\ granted' \in SUBSET Grant
  <2>1. lease[s].fence + 1 \in Nat \ {0}
    BY DEF TypeOK, LeaseRow, NoLease
  <2>2. /\ now \in Nat /\ now + Ttl \in Nat /\ lastGen' \in Nat /\ NoGen \in Nat
    BY <1>2 DEF TakeLease, TypeOK, NoGen
  <2> QED
    BY <1>2, <2>1, <2>2 DEF TakeLease, TypeOK, LeaseRow, Grant
<1>3. ASSUME NEW s \in Session, NEW h \in Holder, Acquire(s, h)
      PROVE  TypeOK'
  BY <1>2, <1>3 DEF Acquire, TypeOK
<1>4. ASSUME NEW s \in Session, NEW h \in Holder, CreateSessionWithLease(s, h)
      PROVE  TypeOK'
  BY <1>2, <1>4 DEF CreateSessionWithLease, TypeOK
<1>5. ASSUME NEW g \in granted, Renew(g)
      PROVE  TypeOK'
  BY <1>5 DEF Renew, Holds, TypeOK, LeaseRow, Grant, NoLease
<1>6. ASSUME NEW g \in granted, NEW at \in g.since..now, Release(g, at)
      PROVE  TypeOK'
  <2>1. at \in Nat
    BY DEF TypeOK, Grant
  <2> QED
    BY <1>6, <2>1 DEF Release, Holds, TypeOK, LeaseRow, Grant, NoLease
<1>7. ASSUME NEW g \in granted, NEW op \in {"write", "end"}, BeginFenced(g, op)
      PROVE  TypeOK'
  BY <1>7 DEF BeginFenced, TypeOK, Grant, Tx
<1>8. ASSUME NEW s \in Session, NEW op \in {"write", "end"}, BeginUnfenced(s, op)
      PROVE  TypeOK'
  BY <1>8 DEF BeginUnfenced, TypeOK, Tx, NoGen
<1>9. ASSUME NEW s \in Session, CreateSessionUnattached(s)
      PROVE  TypeOK'
  BY <1>9 DEF CreateSessionUnattached, TypeOK
<1>10. ASSUME NEW s \in Session, BeginRetention(s)
       PROVE  TypeOK'
  BY <1>10 DEF BeginRetention, TypeOK, Tx, NoGen
<1>11. ASSUME NEW s \in Session, Recheck(s)
       PROVE  TypeOK'
  BY <1>11, NullsDistinct DEF Recheck, TypeOK, Tx
<1>12. ASSUME NEW s \in Session, Commit(s)
       PROVE  TypeOK'
  <2>1. tx[s] \in Tx
    BY <1>12 DEF Commit, TypeOK
  <2>2. session' \in [Session -> {"absent", "active", "terminal"}]
    BY <1>12, <2>1 DEF Commit, TypeOK, Tx
  <2> QED
    BY <1>12, <2>1, <2>2 DEF Commit, TypeOK, Tx
<1>13. ASSUME NEW s \in Session, Abort(s)
       PROVE  TypeOK'
  BY <1>13 DEF Abort, TypeOK
<1>14. CASE UNCHANGED vars
  BY <1>14 DEF vars, TypeOK
<1> QED
  BY <1>1, <1>3, <1>4, <1>5, <1>6, <1>7, <1>8, <1>9, <1>10, <1>11, <1>12, <1>13, <1>14
     DEF Next, LeaseStep, TxStep

\* The initial state of the store satisfies the whole invariant.
LEMMA InitInv == Init => LeaseInv
<1> SUFFICES ASSUME Init PROVE LeaseInv
  OBVIOUS
<1>1. TypeOK
  BY DEF Init, TypeOK, NoGen
<1>2. GrantsIssued /\ RowIsNewest /\ TxKeepsItsGround
  BY DEF Init, GrantsIssued, RowIsNewest, TxKeepsItsGround
<1> QED
  BY <1>1, <1>2 DEF LeaseInv

\* A fresh lease keeps every generation issued and the row the newest.
LEMMA TakeLeaseStep ==
    ASSUME NEW s \in Session, NEW h \in Holder, LeaseInv, TypeOK', TakeLease(s, h)
    PROVE  /\ GrantsIssued' /\ RowIsNewest'
           /\ \A r \in Session \ {s} : lease'[r] = lease[r]
           /\ lease[s] # NoLease => lease'[s].gen # lease[s].gen
           /\ lease'[s] # NoLease /\ lease'[s].gen = lastGen + 1
           /\ lease'[s].expiresAt = now + Ttl
           /\ lastGen' = lastGen + 1
           /\ ~Live(s)
<1> DEFINE fence == lease[s].fence + 1
           row == [holder |-> h, fence |-> fence, gen |-> lastGen', expiresAt |-> now + Ttl,
                   ackGen |-> NoGen, ackFence |-> NoGen]
           new == [session |-> s, holder |-> h, fence |-> fence, gen |-> lastGen', since |-> now]
<1>1. lastGen' = lastGen + 1 /\ lastGen \in Nat
  BY DEF TakeLease, LeaseInv, TypeOK
<1>2. lease' = [lease EXCEPT ![s] = row] /\ granted' = granted \cup {new} /\ ~Live(s)
  BY DEF TakeLease
<1>3. lease'[s] = row /\ \A r \in Session \ {s} : lease'[r] = lease[r]
  BY <1>2 DEF LeaseInv, TypeOK
<1>4. row # NoLease
  <2>1. row.fence # 0
    BY DEF LeaseInv, TypeOK, LeaseRow, NoLease
  <2> QED
    BY <2>1 DEF NoLease
<1>5. GrantsIssued'
  BY <1>1, <1>2 DEF GrantsIssued, LeaseInv
<1>6. RowIsNewest'
  <2> SUFFICES ASSUME NEW r \in Session, lease'[r] # NoLease
               PROVE  /\ lease'[r].gen \in 1..lastGen'
                      /\ \A g \in granted' : g.session = r => g.gen <= lease'[r].gen
    BY DEF RowIsNewest
  <2>1. CASE r = s
    BY <2>1, <1>1, <1>3, <1>5 DEF GrantsIssued
  <2>2. CASE r # s
    BY <2>2, <1>1, <1>2, <1>3 DEF LeaseInv, RowIsNewest
  <2> QED
    BY <2>1, <2>2
<1>7. lease[s] # NoLease => lease'[s].gen # lease[s].gen
  BY <1>1, <1>3 DEF LeaseInv, RowIsNewest
<1> QED
  BY <1>1, <1>2, <1>3, <1>4, <1>5, <1>6, <1>7

\* Rewriting the expiry of one row leaves its generation and the other rows alone.
LEMMA ExpiryUpdate ==
    ASSUME NEW s \in Session, TypeOK, lease[s] # NoLease, NEW e \in Nat,
           lease' = [lease EXCEPT ![s].expiresAt = e]
    PROVE  /\ lease'[s] # NoLease /\ lease'[s].gen = lease[s].gen /\ lease'[s].expiresAt = e
           /\ \A r \in Session \ {s} : lease'[r] = lease[r]
           /\ \A r \in Session : lease'[r] # NoLease <=> lease[r] # NoLease
           /\ \A r \in Session : lease[r] # NoLease => lease'[r].gen = lease[r].gen
<1>1. lease[s] \in LeaseRow
  BY DEF TypeOK
<1>2. lease'[s] = [lease[s] EXCEPT !.expiresAt = e]
  BY DEF TypeOK
<1>3. lease'[s].gen = lease[s].gen /\ lease'[s].expiresAt = e /\ lease'[s] \in LeaseRow
  BY <1>1, <1>2 DEF LeaseRow
<1>4. \A r \in Session \ {s} : lease'[r] = lease[r]
  BY DEF TypeOK
<1> QED
  BY <1>3, <1>4, NullsDistinct

\* The inductive step, one case per action.
LEMMA InvStep == LeaseInv /\ [Next]_vars => LeaseInv'
<1> SUFFICES ASSUME LeaseInv, [Next]_vars PROVE LeaseInv'
  OBVIOUS
<1> USE TtlAssumption
<1>0. TypeOK /\ TypeOK'
  BY TypeStep DEF LeaseInv
<1> SUFFICES GrantsIssued' /\ RowIsNewest' /\ TxKeepsItsGround'
  BY <1>0 DEF LeaseInv
<1>1. CASE Tick
  <2>1. TxKeepsItsGround'
    <3> SUFFICES ASSUME NEW s \in Session, ~Live(s) PROVE ~Live(s)'
      BY <1>1 DEF Tick, LeaseInv, TxKeepsItsGround
    <3>1. lease[s] # NoLease => lease[s].expiresAt \in Nat
      BY <1>0 DEF TypeOK, LeaseRow
    <3> QED
      BY <1>1, <1>0, <3>1 DEF Tick, TypeOK, Live
  <2> QED
    BY <1>1, <2>1 DEF Tick, LeaseInv, GrantsIssued, RowIsNewest
<1>2. ASSUME NEW s \in Session, NEW h \in Holder, TakeLease(s, h), Unlocked(s),
             tx' = tx, now' = now
      PROVE  GrantsIssued' /\ RowIsNewest' /\ TxKeepsItsGround'
  BY <1>0, <1>2, TakeLeaseStep DEF LeaseInv, TxKeepsItsGround, Unlocked, Live
<1>3. ASSUME NEW s \in Session, NEW h \in Holder,
             Acquire(s, h) \/ CreateSessionWithLease(s, h)
      PROVE  GrantsIssued' /\ RowIsNewest' /\ TxKeepsItsGround'
  BY <1>2, <1>3 DEF Acquire, CreateSessionWithLease
<1>4. ASSUME NEW g \in granted, NEW e \in Nat, Unlocked(g.session), Holds(g.session, g),
             lease' = [lease EXCEPT ![g.session].expiresAt = e],
             UNCHANGED <<now, session, lastGen, granted, tx, written>>
      PROVE  GrantsIssued' /\ RowIsNewest' /\ TxKeepsItsGround'
  <2>1. g.session \in Session
    BY <1>0 DEF TypeOK, Grant
  <2>2. /\ \A r \in Session \ {g.session} : lease'[r] = lease[r]
        /\ \A r \in Session : lease'[r] # NoLease <=> lease[r] # NoLease
        /\ \A r \in Session : lease[r] # NoLease => lease'[r].gen = lease[r].gen
    BY <1>0, <1>4, <2>1, ExpiryUpdate DEF Holds
  <2> QED
    BY <1>4, <2>1, <2>2 DEF LeaseInv, GrantsIssued, RowIsNewest, TxKeepsItsGround, Unlocked, Live
<1>5. ASSUME NEW g \in granted, Renew(g)
      PROVE  GrantsIssued' /\ RowIsNewest' /\ TxKeepsItsGround'
  <2>1. now + Ttl \in Nat
    BY <1>0 DEF TypeOK
  <2> QED
    BY <1>4, <1>5, <2>1 DEF Renew
<1>6. ASSUME NEW g \in granted, NEW at \in g.since..now, Release(g, at)
      PROVE  GrantsIssued' /\ RowIsNewest' /\ TxKeepsItsGround'
  <2>1. at \in Nat
    BY <1>0 DEF TypeOK, Grant
  <2> QED
    BY <1>4, <1>6, <2>1 DEF Release
<1>7. ASSUME NEW g \in granted, NEW op \in {"write", "end"}, BeginFenced(g, op)
      PROVE  GrantsIssued' /\ RowIsNewest' /\ TxKeepsItsGround'
  <2>1. g.session \in Session
    BY <1>0 DEF TypeOK, Grant
  <2> QED
    BY <1>0, <1>7, <2>1
       DEF BeginFenced, Holds, TypeOK, LeaseInv, GrantsIssued, RowIsNewest, TxKeepsItsGround, Live
<1>8. ASSUME NEW s \in Session, NEW op \in {"write", "end"}, BeginUnfenced(s, op)
      PROVE  GrantsIssued' /\ RowIsNewest' /\ TxKeepsItsGround'
  BY <1>0, <1>8
     DEF BeginUnfenced, TypeOK, LeaseInv, GrantsIssued, RowIsNewest, TxKeepsItsGround, Live
<1>9. ASSUME NEW s \in Session, CreateSessionUnattached(s)
      PROVE  GrantsIssued' /\ RowIsNewest' /\ TxKeepsItsGround'
  BY <1>9 DEF CreateSessionUnattached, LeaseInv, GrantsIssued, RowIsNewest, TxKeepsItsGround, Live
<1>10. ASSUME NEW s \in Session, BeginRetention(s)
       PROVE  GrantsIssued' /\ RowIsNewest' /\ TxKeepsItsGround'
  BY <1>0, <1>10
     DEF BeginRetention, TypeOK, LeaseInv, GrantsIssued, RowIsNewest, TxKeepsItsGround, Live
<1>11. ASSUME NEW s \in Session, Recheck(s)
       PROVE  GrantsIssued' /\ RowIsNewest' /\ TxKeepsItsGround'
  <2>1. /\ UNCHANGED <<now, lease, lastGen, granted>>
        /\ tx[s] \in Tx
        /\ tx'[s].kind = tx[s].kind /\ tx'[s].gen = tx[s].gen /\ tx'[s].op = tx[s].op
        /\ \A r \in Session \ {s} : tx'[r] = tx[r]
    BY <1>0, <1>11 DEF Recheck, TypeOK, Tx
  <2> QED
    BY <1>11, <2>1, NullsDistinct
       DEF Recheck, LeaseInv, GrantsIssued, RowIsNewest, TxKeepsItsGround, Live
<1>12. ASSUME NEW s \in Session, Commit(s)
       PROVE  GrantsIssued' /\ RowIsNewest' /\ TxKeepsItsGround'
  <2>1. /\ UNCHANGED <<now, lastGen, granted>>
        /\ tx'[s] = NoTx
        /\ \A r \in Session \ {s} : tx'[r] = tx[r] /\ lease'[r] = lease[r]
        /\ lease'[s] \in {lease[s], NoLease}
    BY <1>0, <1>12 DEF Commit, TypeOK
  <2> QED
    BY <2>1 DEF LeaseInv, GrantsIssued, RowIsNewest, TxKeepsItsGround, Live
<1>13. ASSUME NEW s \in Session, Abort(s)
       PROVE  GrantsIssued' /\ RowIsNewest' /\ TxKeepsItsGround'
  BY <1>0, <1>13
     DEF Abort, TypeOK, LeaseInv, GrantsIssued, RowIsNewest, TxKeepsItsGround, Live
<1>14. CASE UNCHANGED vars
  BY <1>14 DEF vars, LeaseInv, GrantsIssued, RowIsNewest, TxKeepsItsGround, Live
<1> QED
  BY <1>1, <1>3, <1>5, <1>6, <1>7, <1>8, <1>9, <1>10, <1>11, <1>12, <1>13, <1>14
     DEF Next, LeaseStep, TxStep

\* The inductive invariant holds in every reachable state of the store.
THEOREM LeaseInvariance == Spec => []LeaseInv
BY InitInv, InvStep, PTL DEF Spec

\* Every variable of the lease store always has its type.
THEOREM TypeCorrect == Spec => []TypeOK
<1>1. LeaseInv => TypeOK
  BY DEF LeaseInv
<1> QED
  BY <1>1, LeaseInvariance, PTL

\* A transaction that passed assertLease belongs to the newest lease granted for its
\* session, so nothing a replaced runtime started can commit (runSessionTransaction).
THEOREM Fencing == Spec => []NoZombieTransaction
<1>1. LeaseInv => NoZombieTransaction
  BY DEF LeaseInv, RowIsNewest, TxKeepsItsGround, NoZombieTransaction
<1> QED
  BY <1>1, LeaseInvariance, PTL

\* A write made without a lease never runs while some runtime holds a live lease
\* (runUnfencedSessionTransaction).
THEOREM UnfencedExclusion == Spec => []UnfencedExcludesOwner
<1>1. LeaseInv => UnfencedExcludesOwner
  BY DEF LeaseInv, TxKeepsItsGround, UnfencedExcludesOwner
<1> QED
  BY <1>1, LeaseInvariance, PTL

-----------------------------------------------------------------------------

\* What one step of the store does to liveness and ownership, per action kind: a lease is
\* taken, an expiry is rewritten, a transaction commits, or rows stay as they are.
LEMMA StepKinds ==
    ASSUME LeaseInv, Next
    PROVE  \/ Tick
           \/ \E s \in Session, h \in Holder :
                 TakeLease(s, h) /\ UNCHANGED <<now, written>>
           \/ \E s \in Session, e \in Nat :
                 /\ lease[s] # NoLease
                 /\ e <= now \/ Live(s)
                 /\ lease' = [lease EXCEPT ![s].expiresAt = e]
                 /\ UNCHANGED <<now, lastGen, written>>
           \/ \E s \in Session : Commit(s)
           \/ UNCHANGED <<now, lease, lastGen, written>>
<1> USE TtlAssumption
<1>1. CASE Tick
  BY <1>1
<1>2. ASSUME NEW s \in Session, NEW h \in Holder,
             Acquire(s, h) \/ CreateSessionWithLease(s, h)
      PROVE  TakeLease(s, h) /\ UNCHANGED <<now, written>>
  BY <1>2 DEF Acquire, CreateSessionWithLease
<1>3. ASSUME NEW g \in granted, Renew(g)
      PROVE  \E s \in Session, e \in Nat :
                 /\ lease[s] # NoLease
                 /\ e <= now \/ Live(s)
                 /\ lease' = [lease EXCEPT ![s].expiresAt = e]
                 /\ UNCHANGED <<now, lastGen, written>>
  <2>1. g.session \in Session /\ now + Ttl \in Nat
    BY DEF LeaseInv, TypeOK, Grant
  <2> QED
    BY <1>3, <2>1 DEF Renew, Live
<1>4. ASSUME NEW g \in granted, NEW at \in g.since..now, Release(g, at)
      PROVE  \E s \in Session, e \in Nat :
                 /\ lease[s] # NoLease
                 /\ e <= now \/ Live(s)
                 /\ lease' = [lease EXCEPT ![s].expiresAt = e]
                 /\ UNCHANGED <<now, lastGen, written>>
  <2>1. g.session \in Session /\ at \in Nat /\ at <= now
    BY DEF LeaseInv, TypeOK, Grant
  <2> QED
    BY <1>4, <2>1 DEF Release, Holds
<1>5. ASSUME NEW g \in granted, NEW op \in {"write", "end"}, BeginFenced(g, op)
      PROVE  UNCHANGED <<now, lease, lastGen, written>>
  BY <1>5 DEF BeginFenced
<1>6. ASSUME NEW s \in Session, NEW op \in {"write", "end"}, BeginUnfenced(s, op)
      PROVE  UNCHANGED <<now, lease, lastGen, written>>
  BY <1>6 DEF BeginUnfenced
<1>7. ASSUME NEW s \in Session,
             CreateSessionUnattached(s) \/ BeginRetention(s) \/ Recheck(s) \/ Abort(s)
      PROVE  UNCHANGED <<now, lease, lastGen, written>>
  BY <1>7 DEF CreateSessionUnattached, BeginRetention, Recheck, Abort
<1> QED
  BY <1>1, <1>2, <1>3, <1>4, <1>5, <1>6, <1>7 DEF Next, LeaseStep, TxStep

\* A lease that expired or was released never becomes live again, whatever delayed renew
\* and release calls still arrive.
THEOREM NoRevival == Spec => DeadGenerationStaysDead
<1> DEFINE A == \A s \in Session :
          lease[s] # NoLease /\ ~Live(s) /\ lease'[s] # NoLease /\ lease'[s].expiresAt > now'
             => lease'[s].gen # lease[s].gen
<1>1. LeaseInv /\ LeaseInv' /\ [Next]_vars => [A]_vars
  <2> SUFFICES ASSUME LeaseInv, TypeOK', Next, NEW s \in Session,
                      lease[s] # NoLease, ~Live(s),
                      lease'[s] # NoLease, lease'[s].expiresAt > now'
               PROVE  lease'[s].gen # lease[s].gen
    BY DEF LeaseInv
  <2>0. now \in Nat /\ lease[s].expiresAt \in Nat /\ lease[s].expiresAt <= now
    BY DEF LeaseInv, TypeOK, LeaseRow, Live
  <2>1. CASE Tick
    BY <2>1, <2>0 DEF Tick
  <2>2. CASE \E r \in Session, h \in Holder : TakeLease(r, h) /\ UNCHANGED <<now, written>>
    <3> PICK r \in Session, h \in Holder : TakeLease(r, h) /\ UNCHANGED <<now, written>>
      BY <2>2
    <3> QED
      BY <2>0, TakeLeaseStep
  <2>3. CASE \E r \in Session, e \in Nat :
                 /\ lease[r] # NoLease
                 /\ e <= now \/ Live(r)
                 /\ lease' = [lease EXCEPT ![r].expiresAt = e]
                 /\ UNCHANGED <<now, lastGen, written>>
    <3> PICK r \in Session, e \in Nat :
                 /\ lease[r] # NoLease
                 /\ e <= now \/ Live(r)
                 /\ lease' = [lease EXCEPT ![r].expiresAt = e]
                 /\ UNCHANGED <<now, lastGen, written>>
      BY <2>3
    <3> QED
      BY <2>0, ExpiryUpdate DEF LeaseInv
  <2>4. CASE \E r \in Session : Commit(r)
    <3> PICK r \in Session : Commit(r)
      BY <2>4
    <3>1. lease'[s] \in {lease[s], NoLease} /\ now' = now
      BY DEF Commit, LeaseInv, TypeOK
    <3> QED
      BY <2>0, <3>1
  <2>5. CASE UNCHANGED <<now, lease, lastGen, written>>
    BY <2>5, <2>0
  <2> QED
    BY <2>1, <2>2, <2>3, <2>4, <2>5, StepKinds
<1> QED
  BY <1>1, LeaseInvariance, PTL DEF Spec, DeadGenerationStaysDead

-----------------------------------------------------------------------------

\* The abstract owner of a session: the generation of its lease row.
Owner == [s \in Session |-> IF lease[s] = NoLease THEN 0 ELSE lease[s].gen]
Liveness == [s \in Session |-> Live(s)]

\* Time only makes grants lapse.
LEMMA TickLapses ==
    ASSUME TypeOK, Tick
    PROVE  Ownership!Lapse
<1> USE DEF Owner, Liveness
<1>1. \A s \in Session : Live(s)' => Live(s)
  BY DEF Tick, Live, TypeOK, LeaseRow
<1>2. Liveness' = [s \in Session |-> Liveness[s] /\ s \notin {r \in Session : ~Live(r)'}]
  BY <1>1 DEF Live
<1>3. UNCHANGED <<Owner, lastGen, written>>
  BY DEF Tick
<1> QED
  BY <1>2, <1>3 DEF Ownership!Lapse

\* A lease that is taken is a grant under a fresh generation.
LEMMA TakingGrants ==
    ASSUME TypeOK, NEW r \in Session, NEW h \in Holder, TakeLease(r, h),
           UNCHANGED <<now, written>>
    PROVE  Ownership!Grant(r)
<1> USE DEF Owner, Liveness
<1> DEFINE row == [holder |-> h, fence |-> lease[r].fence + 1, gen |-> lastGen + 1,
                   expiresAt |-> now + Ttl, ackGen |-> NoGen, ackFence |-> NoGen]
<1>1. lease' = [lease EXCEPT ![r] = row] /\ lastGen' = lastGen + 1 /\ ~Live(r)
  BY DEF TakeLease
<1>2. row # NoLease
  <2>1. row.fence # 0
    BY DEF TypeOK, LeaseRow, NoLease
  <2> QED
    BY <2>1 DEF NoLease
<1>3. lease'[r] = row /\ \A s \in Session \ {r} : lease'[s] = lease[s]
  BY <1>1 DEF TypeOK
<1>4. Live(r)' /\ \A s \in Session \ {r} : Live(s)' = Live(s)
  BY <1>2, <1>3, TtlAssumption DEF Live, TypeOK
<1>5. Liveness' = [Liveness EXCEPT ![r] = TRUE]
  BY <1>4 DEF Live
<1>6. Owner' = [Owner EXCEPT ![r] = lastGen']
  <2>1. row.gen = lastGen'
    BY <1>1
  <2> HIDE DEF row
  <2> QED
    BY <1>2, <1>3, <2>1
<1> QED
  BY <1>1, <1>5, <1>6 DEF Ownership!Grant

\* Rewriting the expiry of a live lease, or with an expiry that has passed, at most lets a
\* grant lapse.
LEMMA ExpiryLapses ==
    ASSUME TypeOK, NEW r \in Session, NEW e \in Nat, lease[r] # NoLease, e <= now \/ Live(r),
           lease' = [lease EXCEPT ![r].expiresAt = e], UNCHANGED <<now, lastGen, written>>
    PROVE  Ownership!Lapse
<1> USE DEF Owner, Liveness
<1>1. /\ \A s \in Session \ {r} : lease'[s] = lease[s]
      /\ lease'[r].expiresAt = e
      /\ \A s \in Session : lease'[s] # NoLease <=> lease[s] # NoLease
      /\ \A s \in Session : lease[s] # NoLease => lease'[s].gen = lease[s].gen
  BY ExpiryUpdate
<1>2. \A s \in Session : Live(s)' => Live(s)
  BY <1>1 DEF Live, TypeOK
<1>3. Liveness' = [s \in Session |-> Liveness[s] /\ s \notin {q \in Session : ~Live(q)'}]
  BY <1>2 DEF Live
<1>4. UNCHANGED <<Owner, lastGen, written>>
  BY <1>1
<1> QED
  BY <1>3, <1>4 DEF Ownership!Lapse

\* Deleting a lease row forgets the session's grants.
LEMMA DeletingForgets ==
    ASSUME TypeOK, NEW r \in Session, lease' = [lease EXCEPT ![r] = NoLease],
           UNCHANGED <<now, lastGen, written>>
    PROVE  Ownership!Forget(r)
<1> USE DEF Owner, Liveness
<1>1. Owner' = [Owner EXCEPT ![r] = 0]
  BY DEF TypeOK
<1>2. ~Live(r)' /\ \A s \in Session \ {r} : Live(s)' = Live(s)
  BY DEF Live, TypeOK
<1>3. Liveness' = [Liveness EXCEPT ![r] = FALSE]
  BY <1>2 DEF Live
<1> QED
  BY <1>1, <1>3 DEF Ownership!Forget

\* Every step of the store is a step of SessionOwnership or leaves it alone.
LEMMA OwnershipStep ==
    ASSUME LeaseInv, LeaseInv', Next
    PROVE  Ownership!Next \/ UNCHANGED Ownership!vars
<1> USE DEF Owner, Liveness
<1>0. TypeOK /\ TypeOK'
  BY DEF LeaseInv
<1>1. CASE Tick
  BY <1>0, <1>1, TickLapses DEF Ownership!Next
<1>2. CASE \E s \in Session, h \in Holder : TakeLease(s, h) /\ UNCHANGED <<now, written>>
  BY <1>0, <1>2, TakingGrants DEF Ownership!Next
<1>3. CASE \E s \in Session, e \in Nat :
                 /\ lease[s] # NoLease
                 /\ e <= now \/ Live(s)
                 /\ lease' = [lease EXCEPT ![s].expiresAt = e]
                 /\ UNCHANGED <<now, lastGen, written>>
  BY <1>0, <1>3, ExpiryLapses DEF Ownership!Next
<1>4. ASSUME NEW r \in Session, Commit(r)
      PROVE  \/ Ownership!Write(r) \/ Ownership!Forget(r) \/ UNCHANGED Ownership!vars
  <2>0. tx[r] \in Tx /\ UNCHANGED <<now, lastGen>>
    BY <1>0, <1>4 DEF Commit, TypeOK
  <2>1. CASE tx[r].op = "delete"
    <3>1. tx[r].kind = "retention"
      BY <1>4, <2>1 DEF Commit, LeaseInv, TxKeepsItsGround
    <3>2. written' = written /\ lease' = [lease EXCEPT ![r] = NoLease]
      BY <1>4, <2>1, <3>1 DEF Commit
    <3> QED
      BY <1>0, <2>0, <3>2, DeletingForgets
  <2>2. CASE tx[r].op # "delete" /\ tx[r].kind = "fenced"
    <3>1. lease' = lease /\ written' = [written EXCEPT ![r] = tx[r].gen]
      BY <1>4, <2>2 DEF Commit
    <3>2. lease[r] # NoLease /\ lease[r].gen = tx[r].gen /\ lease[r].gen # 0
      BY <1>4, <2>2 DEF Commit, LeaseInv, TxKeepsItsGround, RowIsNewest
    <3>3. UNCHANGED <<Owner, Liveness, lastGen>>
      BY <2>0, <3>1 DEF Live
    <3>4. Owner[r] = tx[r].gen /\ Owner[r] # 0
      BY <3>2
    <3> QED
      BY <3>1, <3>3, <3>4 DEF Ownership!Write
  <2>3. CASE tx[r].op # "delete" /\ tx[r].kind # "fenced"
    <3>1. lease' = lease /\ written' = written
      BY <1>4, <2>3 DEF Commit
    <3> QED
      BY <2>0, <3>1 DEF Ownership!vars, Live
  <2> QED
    BY <2>1, <2>2, <2>3
<1>5. CASE UNCHANGED <<now, lease, lastGen, written>>
  BY <1>5 DEF Ownership!vars, Live
<1> QED
  BY <1>1, <1>2, <1>3, <1>4, <1>5, StepKinds DEF Ownership!Next

\* The PostgreSQL store implements the ownership promise: every behaviour of its rows,
\* locks and clock is a behaviour of SessionOwnership.
THEOREM ImplementsOwnership == Spec => OwnershipSpec
<1>1. Init => Ownership!Init
  BY DEF Init, Ownership!Init, Live, NoGen
<1>2. LeaseInv /\ LeaseInv' /\ [Next]_vars => [Ownership!Next]_(Ownership!vars)
  <2>1. CASE Next
    BY <2>1, OwnershipStep
  <2>2. CASE UNCHANGED vars
    BY <2>2 DEF vars, Ownership!vars, Live
  <2> QED
    BY <2>1, <2>2
<1> QED
  BY <1>1, <1>2, LeaseInvariance, PTL DEF Spec, OwnershipSpec, Ownership!Spec

-----------------------------------------------------------------------------
(***************************************************************************)
(* The recovery workers on top of the store.                               *)
(***************************************************************************)

\* Generations are drawn from the counter, and a session that is absent has no lease row.
Issued ==
    /\ \A g \in granted : g.gen \in 1..lastGen
    /\ \A s \in Session : lease[s] # NoLease => lease[s].gen \in 1..lastGen
    /\ \A s \in Session : session[s] = "absent" => lease[s] = NoLease

\* The generation n of session s is over: if the lease row still carries it, the session
\* has ended.
Over(s, n) == lease[s] # NoLease /\ lease[s].gen = n => session[s] # "active"

\* What a worker holds was issued, and what it is about to acknowledge is over.
Holding(t) ==
    /\ \A i \in 1..Len(t.page) : t.page[i].gen <= lastGen
    /\ t.pc \in {"transport", "grace", "attach", "ack"} =>
          t.cand \in Candidate /\ t.cand.gen <= lastGen
    /\ t.pc \in {"recover", "renew", "attached", "ended", "detach"} =>
          t.grant \in Grant /\ t.grant.gen <= lastGen
    /\ t.pc = "ack" => Over(t.cand.session, t.cand.gen)
    /\ t.pc = "ended" => Over(t.grant.session, t.grant.gen)

RecoveryInv ==
    RecoveryTypeOK /\ Issued /\ NoLostSession /\ \A w \in Worker : Holding(worker[w])

-----------------------------------------------------------------------------
(***************************************************************************)
(* What the operations of the store keep.                                  *)
(***************************************************************************)

\* A step of the store that is safe for everybody who holds something.
StoreKeeps ==
    /\ TypeOK' /\ Issued' /\ NoLostSession' /\ lastGen <= lastGen'
    /\ \A s \in Session, n \in Nat : n <= lastGen /\ Over(s, n) => Over(s, n)'

LEMMA StoreTypes ==
    ASSUME RecoveryInv
    PROVE  /\ TypeOK /\ lastGen \in Nat /\ now \in Nat
           /\ session \in [Session -> {"absent", "active", "terminal"}]
           /\ lease \in [Session -> LeaseRow \cup {NoLease}]
           /\ worker \in [Worker -> WorkerState] /\ granted \subseteq Grant
BY DEF RecoveryInv, RecoveryTypeOK, TypeOK

LEMMA SameStore ==
    ASSUME RecoveryInv, StoreUnchanged
    PROVE  StoreKeeps
<1>1. UNCHANGED <<now, session, lease, lastGen, granted, tx, written>>
  BY DEF StoreUnchanged
<1>2. TypeOK'
  BY <1>1 DEF RecoveryInv, RecoveryTypeOK, TypeOK
<1>3. Issued' /\ NoLostSession'
  BY <1>1 DEF RecoveryInv, Issued, NoLostSession
<1> QED
  BY <1>1, <1>2, <1>3, StoreTypes DEF StoreKeeps, Over

\* A fresh lease: its generation is one nobody has heard of, and it is not acknowledged.
LEMMA TakeLeaseKeeps ==
    ASSUME RecoveryInv, NEW s \in Session, NEW h \in Holder, TakeLease(s, h),
           UNCHANGED <<now, tx, written>>,
           \/ session[s] # "absent" /\ session' = session
           \/ session' = [session EXCEPT ![s] = "active"]
    PROVE  StoreKeeps /\ \E g \in granted' : g.gen = lastGen' /\ lastGen' \in Nat
<1> DEFINE fence == lease[s].fence + 1
           new == [holder |-> h, fence |-> fence, gen |-> lastGen + 1, expiresAt |-> now + Ttl,
                   ackGen |-> NoGen, ackFence |-> NoGen]
           g == [session |-> s, holder |-> h, fence |-> fence, gen |-> lastGen + 1, since |-> now]
<1>1. /\ lastGen' = lastGen + 1 /\ lease' = [lease EXCEPT ![s] = new]
      /\ granted' = granted \cup {g}
  BY DEF TakeLease
<1>2. fence \in Nat \ {0}
  BY StoreTypes DEF LeaseRow, NoLease
<1>3. now + Ttl \in Nat /\ lastGen + 1 \in Nat /\ now \in Nat /\ lastGen \in Nat
  BY StoreTypes, TtlAssumption
<1>4. new \in LeaseRow /\ new.gen = lastGen + 1 /\ new.fence # 0 /\ new.ackGen = 0 /\ new.ackFence = 0
  BY <1>2, <1>3 DEF LeaseRow, NoGen
<1>5. g \in Grant /\ g.gen = lastGen + 1
  BY <1>2, <1>3 DEF Grant
<1> HIDE DEF fence, new, g
<1>6. lease'[s] = new /\ \A r \in Session \ {s} : lease'[r] = lease[r]
  BY <1>1, StoreTypes
<1>7. session' \in [Session -> {"absent", "active", "terminal"}]
      /\ session'[s] # "absent" /\ \A r \in Session \ {s} : session'[r] = session[r]
  BY StoreTypes
<1>8. TypeOK'
  <2>1. lease' \in [Session -> LeaseRow \cup {NoLease}]
    BY <1>1, <1>4, StoreTypes
  <2>2. granted' \in SUBSET Grant
    BY <1>1, <1>5, StoreTypes
  <2> QED
    BY <1>1, <1>3, <1>7, <2>1, <2>2 DEF RecoveryInv, RecoveryTypeOK, TypeOK
<1>9. Issued'
  <2>1. \A d \in granted' : d.gen \in 1..lastGen'
    BY <1>1, <1>3, <1>5 DEF RecoveryInv, Issued
  <2>2. \A r \in Session : lease'[r] # NoLease => lease'[r].gen \in 1..lastGen'
    BY <1>1, <1>3, <1>4, <1>6 DEF RecoveryInv, Issued
  <2>3. \A r \in Session : session'[r] = "absent" => lease'[r] = NoLease
    BY <1>6, <1>7 DEF RecoveryInv, Issued
  <2> QED
    BY <2>1, <2>2, <2>3 DEF Issued
<1>10. NoLostSession'
  <2>1. new.gen # 0
    BY <1>3, <1>4
  <2> QED
    BY <1>4, <1>6, <1>7, <2>1 DEF RecoveryInv, NoLostSession
<1>11. ASSUME NEW r \in Session, NEW n \in Nat, n <= lastGen, Over(r, n) PROVE Over(r, n)'
  <2>1. CASE r = s
    BY <1>3, <1>4, <1>6, <1>11, <2>1 DEF Over
  <2>2. CASE r # s
    BY <1>6, <1>7, <1>11, <2>2 DEF Over
  <2> QED
    BY <2>1, <2>2
<1> QED
  BY <1>1, <1>3, <1>5, <1>8, <1>9, <1>10, <1>11 DEF StoreKeeps

\* A renewal, a release: only the expiry of the row changes.
LEMMA ExpiryKeeps ==
    ASSUME RecoveryInv, NEW s \in Session, NEW at \in Nat, lease[s] # NoLease,
           lease' = [lease EXCEPT ![s].expiresAt = at],
           UNCHANGED <<now, session, lastGen, granted, tx, written>>
    PROVE  StoreKeeps
<1>1. lease[s] \in LeaseRow /\ lease'[s] = [lease[s] EXCEPT !.expiresAt = at]
      /\ \A r \in Session \ {s} : lease'[r] = lease[r]
  BY StoreTypes
<1>2. /\ lease'[s] \in LeaseRow /\ lease'[s].gen = lease[s].gen /\ lease'[s].fence = lease[s].fence
      /\ lease'[s].ackGen = lease[s].ackGen /\ lease'[s].ackFence = lease[s].ackFence
  BY <1>1 DEF LeaseRow
<1>3. \A r \in Session : /\ lease'[r].gen = lease[r].gen /\ lease'[r].fence = lease[r].fence
                         /\ lease'[r].ackGen = lease[r].ackGen
                         /\ lease'[r].ackFence = lease[r].ackFence
                         /\ lease'[r] = NoLease <=> lease[r] = NoLease
  BY <1>1, <1>2, NullsDistinct
<1>4. TypeOK'
  <2>1. lease' \in [Session -> LeaseRow \cup {NoLease}]
    BY <1>1, <1>2, StoreTypes
  <2> QED
    BY <2>1 DEF RecoveryInv, RecoveryTypeOK, TypeOK
<1>5. Issued' /\ NoLostSession'
  BY <1>3 DEF RecoveryInv, Issued, NoLostSession
<1> QED
  BY <1>3, <1>4, <1>5, StoreTypes DEF StoreKeeps, Over

\* A fenced transaction, which may end the session.
LEMMA FencedKeeps ==
    ASSUME RecoveryInv, NEW g \in Grant, NEW op \in {"write", "end"}, FencedTransaction(g, op)
    PROVE  /\ StoreKeeps
           /\ recent' = [recent EXCEPT ![g.session] = TRUE]
           /\ op = "end" => Over(g.session, g.gen)'
<1>1. /\ session[g.session] # "absent" /\ UNCHANGED <<now, lease, lastGen, granted, tx, written>>
      /\ session' = IF op = "end" THEN [session EXCEPT ![g.session] = "terminal"] ELSE session
      /\ g.session \in Session
  BY DEF FencedTransaction, CanWrite, Grant
<1>2. /\ session' \in [Session -> {"absent", "active", "terminal"}]
      /\ \A s \in Session : /\ session'[s] = "active" => session[s] = "active"
                            /\ session'[s] = "absent" => session[s] = "absent"
  BY <1>1, StoreTypes
<1>3. TypeOK'
  BY <1>1, <1>2 DEF RecoveryInv, RecoveryTypeOK, TypeOK
<1>4. Issued' /\ NoLostSession'
  BY <1>1, <1>2 DEF RecoveryInv, Issued, NoLostSession
<1>5. op = "end" => Over(g.session, g.gen)'
  BY <1>1, StoreTypes DEF Over
<1> QED
  BY <1>1, <1>2, <1>3, <1>4, <1>5, StoreTypes DEF StoreKeeps, Over, FencedTransaction

\* An acknowledgement of a generation that is over.
LEMMA AcknowledgeKeeps ==
    ASSUME RecoveryInv, NEW c \in Candidate, AcknowledgeRow(c), Over(c.session, c.gen),
           UNCHANGED <<now, session, lastGen, granted, tx, written>>
    PROVE  StoreKeeps
<1>1. CASE ~Acknowledges(c)
  BY <1>1, SameStore DEF AcknowledgeRow, StoreUnchanged
<1>2. CASE Acknowledges(c)
  <2> DEFINE s == c.session
  <2>1. /\ s \in Session /\ c.gen \in Nat /\ lease[s] # NoLease /\ lease[s].gen = c.gen
    BY <1>2 DEF Acknowledges, Candidate
  <2>2. session[s] # "active"
    BY <2>1 DEF Over
  <2>3. lease' = [lease EXCEPT ![s].ackGen = c.gen, ![s].ackFence = lease[s].fence]
    BY <1>2 DEF AcknowledgeRow
  <2> HIDE DEF s
  <2>4. lease[s] \in LeaseRow
    BY <2>1, StoreTypes
  <2>5. /\ lease'[s] = [lease[s] EXCEPT !.ackGen = c.gen, !.ackFence = lease[s].fence]
        /\ \A r \in Session \ {s} : lease'[r] = lease[r]
    BY <2>1, <2>3, StoreTypes
  <2>6. lease'[s].gen = lease[s].gen /\ lease'[s] \in LeaseRow
    BY <2>1, <2>4, <2>5 DEF LeaseRow
  <2>7. TypeOK'
    <3>1. lease' \in [Session -> LeaseRow \cup {NoLease}]
      BY <2>3, <2>5, <2>6, StoreTypes
    <3> QED
      BY <3>1 DEF RecoveryInv, RecoveryTypeOK, TypeOK
  <2>8. Issued'
    <3>1. \A r \in Session : lease'[r] # NoLease => lease'[r].gen \in 1..lastGen'
      BY <2>1, <2>5, <2>6 DEF RecoveryInv, Issued
    <3>2. \A r \in Session : session'[r] = "absent" => lease'[r] = NoLease
      BY <2>1, <2>5 DEF RecoveryInv, Issued
    <3> QED
      BY <3>1, <3>2 DEF RecoveryInv, Issued
  <2>9. NoLostSession'
    BY <2>2, <2>5 DEF RecoveryInv, NoLostSession
  <2>10. \A r \in Session, n \in Nat : Over(r, n) => Over(r, n)'
    BY <2>2, <2>5 DEF Over
  <2> QED
    BY <2>7, <2>8, <2>9, <2>10, StoreTypes DEF StoreKeeps
<1> QED
  BY <1>1, <1>2

-----------------------------------------------------------------------------
(***************************************************************************)
(* The steps.                                                              *)
(***************************************************************************)

LEMMA StateShape ==
    ASSUME NEW t \in WorkerState
    PROVE  /\ t.page \in Seq(Candidate) /\ t.cursor \in Nat \X Nat
           /\ t.cand \in Candidate \cup {NoCandidate} /\ t.grant \in Grant \cup {NoGrant}
           /\ \A i \in 1..Len(t.page) : t.page[i] \in Candidate
BY DEF WorkerState

\* What a worker holds stays good while the store moves.
LEMMA Carried ==
    ASSUME RecoveryInv, StoreKeeps, NEW t \in WorkerState, Holding(t)
    PROVE  Holding(t)'
<1>1. lastGen \in Nat /\ lastGen' \in Nat /\ lastGen <= lastGen'
  BY StoreTypes DEF StoreKeeps, TypeOK
<1>2. \A i \in 1..Len(t.page) : t.page[i].gen <= lastGen'
  <2>1. \A i \in 1..Len(t.page) : t.page[i].gen \in Nat /\ t.page[i].gen <= lastGen
    BY StateShape DEF Holding, Candidate
  <2> QED
    BY <1>1, <2>1
<1>3. t.pc \in {"transport", "grace", "attach", "ack"} =>
         t.cand \in Candidate /\ t.cand.gen <= lastGen'
  BY <1>1 DEF Holding, Candidate
<1>4. t.pc \in {"recover", "renew", "attached", "ended", "detach"} =>
         t.grant \in Grant /\ t.grant.gen <= lastGen'
  BY <1>1 DEF Holding, Grant
<1>5. t.pc = "ack" => Over(t.cand.session, t.cand.gen)'
  <2>1. SUFFICES ASSUME t.pc = "ack" PROVE Over(t.cand.session, t.cand.gen)'
    OBVIOUS
  <2>2. /\ t.cand.session \in Session /\ t.cand.gen \in Nat /\ t.cand.gen <= lastGen
        /\ Over(t.cand.session, t.cand.gen)
    BY <2>1 DEF Holding, Candidate
  <2> QED
    BY <2>2 DEF StoreKeeps
<1>6. t.pc = "ended" => Over(t.grant.session, t.grant.gen)'
  <2>1. SUFFICES ASSUME t.pc = "ended" PROVE Over(t.grant.session, t.grant.gen)'
    OBVIOUS
  <2>2. /\ t.grant.session \in Session /\ t.grant.gen \in Nat /\ t.grant.gen <= lastGen
        /\ Over(t.grant.session, t.grant.gen)
    BY <2>1 DEF Holding, Grant
  <2> QED
    BY <2>2 DEF StoreKeeps
<1> QED
  BY <1>2, <1>3, <1>4, <1>5, <1>6 DEF Holding

\* The rest of the recovery state keeps its types.
RestTypes ==
    /\ transport' \in [Session -> BOOLEAN] /\ recent' \in [Session -> BOOLEAN]
    /\ released' \in SUBSET Nat /\ faults' \in 0..MaxFaults

\* A step that moves no worker.
LEMMA NobodyMoves ==
    ASSUME RecoveryInv, StoreKeeps, RestTypes, worker' = worker
    PROVE  RecoveryInv'
<1>1. RecoveryTypeOK'
  BY StoreTypes DEF RecoveryTypeOK, StoreKeeps, RestTypes
<1>2. ASSUME NEW w \in Worker PROVE Holding(worker[w])'
  <2>1. PICK t \in WorkerState : t = worker[w]
    BY StoreTypes
  <2>2. Holding(t)'
    BY <2>1, Carried DEF RecoveryInv
  <2> QED
    BY <2>1, <2>2 DEF Holding, Over
<1> QED
  BY <1>1, <1>2 DEF RecoveryInv, StoreKeeps

\* A step that moves one.
LEMMA OneMoves ==
    ASSUME RecoveryInv, StoreKeeps, RestTypes, NEW w \in Worker, NEW r \in WorkerState,
           worker' = [worker EXCEPT ![w] = r], Holding(r) \/ Holding(r)'
    PROVE  RecoveryInv'
<1>1. worker'[w] = r /\ (\A v \in Worker \ {w} : worker'[v] = worker[v])
      /\ worker' \in [Worker -> WorkerState]
  BY StoreTypes
<1>2. RecoveryTypeOK'
  BY <1>1 DEF RecoveryTypeOK, StoreKeeps, RestTypes
<1>3. Holding(r)'
  BY Carried
<1>4. ASSUME NEW v \in Worker PROVE Holding(worker[v])'
  <2>1. CASE v = w
    BY <1>1, <1>3, <2>1 DEF Holding, Over
  <2>2. CASE v # w
    <3>1. PICK t \in WorkerState : t = worker[v]
      BY StoreTypes
    <3>2. Holding(t)'
      BY <3>1, Carried DEF RecoveryInv
    <3> QED
      BY <1>1, <2>2, <3>1, <3>2 DEF Holding, Over
  <2> QED
    BY <2>1, <2>2
<1> QED
  BY <1>2, <1>4 DEF RecoveryInv, StoreKeeps

\* A worker goes on to another await with what it holds.
LEMMA GoToShape ==
    ASSUME NEW t \in WorkerState, NEW pc, NEW r, r = [t EXCEPT !.pc = pc]
    PROVE  /\ r.pc = pc /\ r.page = t.page /\ r.cursor = t.cursor /\ r.cand = t.cand
           /\ r.grant = t.grant
           /\ pc \in {"idle", "next", "transport", "grace", "attach", "recover", "renew",
                      "attached", "ended", "detach", "ack"} => r \in WorkerState
BY DEF WorkerState

\* The types of what a step does not touch.
LEMMA RestKept ==
    ASSUME RecoveryInv, UNCHANGED <<transport, released>>,
           recent' = recent \/ \E s \in Session : recent' = [recent EXCEPT ![s] = TRUE],
           faults' = faults \/ (faults < MaxFaults /\ faults' = faults + 1)
    PROVE  RestTypes
<1>1. /\ transport \in [Session -> BOOLEAN] /\ recent \in [Session -> BOOLEAN]
      /\ released \in SUBSET Nat /\ faults \in 0..MaxFaults
  BY DEF RecoveryInv, RecoveryTypeOK
<1>2. faults' \in 0..MaxFaults
  BY <1>1, WorkerAssumption
<1>3. recent' \in [Session -> BOOLEAN]
  BY <1>1
<1> QED
  BY <1>1, <1>2, <1>3 DEF RestTypes

LEMMA IdleHolds == Idle \in WorkerState /\ Holding(Idle)
<1>1. Idle \in WorkerState /\ Idle.pc = "idle" /\ Idle.page = <<>>
  BY DEF Idle, WorkerState, NoCursor
<1> QED
  BY <1>1 DEF Holding

\* A page is read: every candidate is a lease row as it is now.
LEMMA ListCandidatesKeeps ==
    ASSUME RecoveryInv, NEW w \in Worker, ListCandidates(w)
    PROVE  RecoveryInv'
<1>1. StoreKeeps /\ RestTypes
  BY SameStore, RestKept DEF ListCandidates
<1>2. PICK rows \in RecoveryPages(worker[w].cursor) :
         worker' = [worker EXCEPT ![w] =
             [Idle EXCEPT !.pc = IF rows = <<>> THEN "idle" ELSE "next",
                          !.page = Candidates(rows),
                          !.cursor = IF Len(rows) = PageSize THEN Key(Last(rows))
                                     ELSE NoCursor]]
  BY DEF ListCandidates, Become
<1>3. PICK n \in 0..PageSize : /\ rows \in [1..n -> Session]
                               /\ \A i \in 1..n : lease[rows[i]] # NoLease
  BY DEF RecoveryPages, NeedsRecovery
<1>4. PICK pc, page, cursor :
         /\ pc = IF rows = <<>> THEN "idle" ELSE "next"
         /\ page = Candidates(rows)
         /\ cursor = IF Len(rows) = PageSize THEN Key(Last(rows)) ELSE NoCursor
  OBVIOUS
<1>4a. pc \in {"idle", "next"}
  BY <1>4, Zenon
<1>4b. worker' = [worker EXCEPT ![w] =
                    [Idle EXCEPT !.pc = pc, !.page = page, !.cursor = cursor]]
  BY <1>2, <1>4, Zenon
<1>5. n \in Nat /\ rows \in Seq(Session) /\ Len(rows) = n /\ DOMAIN rows = 1..n
  BY <1>3, WorkerAssumption
<1>6. \A i \in 1..n : /\ lease[rows[i]] \in LeaseRow /\ rows[i] \in Session
                      /\ lease[rows[i]].gen \in 1..lastGen
  BY <1>3, StoreTypes DEF RecoveryInv, Issued
<1>7. page \in Seq(Candidate) /\ Len(page) = n /\ \A i \in 1..n : page[i].gen <= lastGen
  <2>1. page = [i \in 1..n |-> [session |-> rows[i], fence |-> lease[rows[i]].fence,
                                gen |-> lease[rows[i]].gen]]
    BY <1>4, <1>5 DEF Candidates
  <2>2. \A i \in 1..n : [session |-> rows[i], fence |-> lease[rows[i]].fence,
                         gen |-> lease[rows[i]].gen] \in Candidate
    BY <1>6 DEF Candidate, LeaseRow
  <2>3. page \in [1..n -> Candidate]
    BY <2>1, <2>2
  <2>4. \A i \in 1..n : page[i].gen <= lastGen
    BY <1>6, <2>1, StoreTypes
  <2> QED
    BY <1>5, <2>3, <2>4
<1>8. cursor \in Nat \X Nat
  <2>1. CASE Len(rows) = PageSize
    <3>1. n >= 1 /\ n \in 1..n /\ Last(rows) = rows[n]
      BY <1>5, <2>1, WorkerAssumption DEF Last
    <3>2. rows[n] \in Nat /\ lease[rows[n]].expiresAt \in Nat
      BY <1>6, <3>1, SessionOrder DEF LeaseRow
    <3> QED
      BY <1>4, <2>1, <3>1, <3>2 DEF Key
  <2>2. CASE Len(rows) # PageSize
    BY <1>4, <2>2 DEF NoCursor
  <2> QED
    BY <2>1, <2>2
<1>9. PICK r : r = [Idle EXCEPT !.pc = pc, !.page = page, !.cursor = cursor]
  OBVIOUS
<1>10. r = [pc |-> pc, page |-> page, cursor |-> cursor, cand |-> NoCandidate, grant |-> NoGrant]
  BY <1>9 DEF Idle
<1>11. r \in WorkerState
  BY <1>4a, <1>7, <1>8, <1>10 DEF WorkerState
<1>12. Holding(r)
  <2>1. r.pc \in {"idle", "next"} /\ r.page = page
    BY <1>4a, <1>10
  <2> QED
    BY <1>7, <2>1 DEF Holding
<1> QED
  BY <1>1, <1>4b, <1>9, <1>11, <1>12, OneMoves

\* The stored session of the next candidate is read.
LEMMA ReadCandidateKeeps ==
    ASSUME RecoveryInv, NEW w \in Worker, ReadCandidate(w)
    PROVE  RecoveryInv'
<1>1. StoreKeeps /\ RestTypes
  BY SameStore, RestKept DEF ReadCandidate
<1>2. PICK t \in WorkerState : t = worker[w] /\ Holding(t)
  BY StoreTypes DEF RecoveryInv
<1>3. PICK c, pc, r :
         /\ c = Head(t.page) /\ t.page # <<>> /\ r = [t EXCEPT !.page = Tail(@), !.cand = c, !.pc = pc]
         /\ pc \in {"ack", "grace", "transport"} /\ (pc = "ack" => session[c.session] # "active")
         /\ worker' = [worker EXCEPT ![w] = r]
  <2> DEFINE p == CASE session[Head(worker[w].page).session] # "active" -> "ack"
                    [] w \in Reaper /\ recent[Head(worker[w].page).session] -> "grace"
                    [] OTHER -> "transport"
  <2>1. p \in {"ack", "grace", "transport"}
        /\ (p = "ack" => session[Head(worker[w].page).session] # "active")
    OBVIOUS
  <2>2. /\ worker[w].page # <<>>
        /\ worker' = [worker EXCEPT ![w] = [worker[w] EXCEPT
               !.page = Tail(@), !.cand = Head(worker[w].page), !.pc = p]]
    BY DEF ReadCandidate, Become
  <2> HIDE DEF p
  <2> QED
    BY <1>2, <2>1, <2>2
<1>4. t.page \in Seq(Candidate) /\ t.page # <<>>
  BY <1>3, StateShape
<1>5. /\ c \in Candidate /\ c.gen <= lastGen /\ Tail(t.page) \in Seq(Candidate)
      /\ \A i \in 1..Len(Tail(t.page)) : Tail(t.page)[i].gen <= lastGen
  <2>1. \A i \in 1..Len(t.page) : t.page[i].gen <= lastGen
    BY <1>2 DEF Holding
  <2>2. c = t.page[1] /\ 1 \in 1..Len(t.page)
    BY <1>3, <1>4
  <2>3. Tail(t.page) \in Seq(Candidate)
        /\ \A i \in 1..Len(Tail(t.page)) : /\ i + 1 \in 1..Len(t.page)
                                            /\ Tail(t.page)[i] = t.page[i + 1]
    BY <1>4
  <2> QED
    BY <1>4, <2>1, <2>2, <2>3
<1>6. PICK rest : rest = Tail(t.page)
  OBVIOUS
<1>7. r = [t EXCEPT !.page = rest, !.cand = c, !.pc = pc]
  BY <1>3, <1>6
<1>8. r \in WorkerState /\ r.pc = pc /\ r.page = rest /\ r.cand = c
  BY <1>3, <1>5, <1>6, <1>7 DEF WorkerState
<1>9. Holding(r)
  BY <1>3, <1>5, <1>6, <1>8 DEF Holding, Over
<1> QED
  BY <1>1, <1>3, <1>8, <1>9, OneMoves

LEMMA PollDoneKeeps ==
    ASSUME RecoveryInv, NEW w \in Worker, PollDone(w)
    PROVE  RecoveryInv'
<1>1. StoreKeeps /\ RestTypes
  BY SameStore, RestKept DEF PollDone
<1>2. PICK cursor : cursor = worker[w].cursor /\ cursor \in Nat \X Nat
  BY StoreTypes, StateShape
<1>3. PICK r : r = [Idle EXCEPT !.cursor = cursor] /\ worker' = [worker EXCEPT ![w] = r]
  BY <1>2 DEF PollDone, Become
<1>4. r.pc = "idle" /\ r.page = <<>> /\ r \in WorkerState
  BY <1>2, <1>3, IdleHolds DEF Idle, WorkerState
<1>5. Holding(r)
  BY <1>4 DEF Holding
<1> QED
  BY <1>1, <1>3, <1>4, <1>5, OneMoves

\* A worker moves to another await and the store does not change.
LEMMA GoesOn ==
    ASSUME RecoveryInv, RestTypes, NEW w \in Worker, NEW pc, StoreUnchanged,
           worker' = [worker EXCEPT ![w] = [worker[w] EXCEPT !.pc = pc]],
           \/ pc = "next"
           \/ pc = "attach" /\ worker[w].pc \in {"transport", "grace"}
           \/ pc = "detach" /\ worker[w].pc \in {"recover", "renew", "attached"}
    PROVE  RecoveryInv'
<1>1. StoreKeeps
  BY SameStore
<1>2. PICK t \in WorkerState : t = worker[w] /\ Holding(t)
  BY StoreTypes DEF RecoveryInv
<1>3. PICK r : r = [t EXCEPT !.pc = pc] /\ worker' = [worker EXCEPT ![w] = r]
  BY <1>2
<1>4. /\ r.pc = pc /\ r.page = t.page /\ r.cand = t.cand /\ r.grant = t.grant /\ r \in WorkerState
  BY <1>3, GoToShape
<1>5. Holding(r)
  BY <1>2, <1>4 DEF Holding
<1> QED
  BY <1>1, <1>3, <1>4, <1>5, OneMoves

LEMMA CheckTransportKeeps ==
    ASSUME RecoveryInv, NEW w \in Worker,
           CheckTransport(w) \/ AttachRefused(w) \/ AttachLost(w)
    PROVE  RecoveryInv'
<1>1. RestTypes /\ StoreUnchanged
  BY RestKept DEF CheckTransport, AttachRefused, AttachLost
<1>2. CASE CheckTransport(w)
  BY <1>1, <1>2, GoesOn DEF CheckTransport, GoTo, Become
<1>3. CASE AttachRefused(w)
  BY <1>1, <1>3, GoesOn DEF AttachRefused, GoTo, Become
<1>4. CASE AttachLost(w)
  BY <1>1, <1>4, GoesOn DEF AttachLost, GoTo, Become
<1> QED
  BY <1>2, <1>3, <1>4

\* The lease is acquired.
LEMMA AttachAcquireKeeps ==
    ASSUME RecoveryInv, NEW w \in Worker, AttachAcquire(w)
    PROVE  RecoveryInv'
<1>1. PICK t \in WorkerState : t = worker[w] /\ Holding(t)
  BY StoreTypes DEF RecoveryInv
<1>2. PICK s : s = t.cand.session /\ s \in Session /\ Acquire(s, HolderOf[w])
  BY <1>1 DEF AttachAcquire, Holding, Candidate
<1>3. StoreKeeps /\ \E g \in granted' : g.gen = lastGen' /\ lastGen' \in Nat
  <2>1. HolderOf[w] \in Holder
    BY WorkerAssumption
  <2> QED
    BY <1>2, <2>1, TakeLeaseKeeps DEF Acquire
<1>4. RestTypes
  BY RestKept DEF AttachAcquire
<1>5. PICK g : g = (CHOOSE d \in granted' : d.gen = lastGen')
               /\ worker' = [worker EXCEPT ![w] = [worker[w] EXCEPT !.pc = "recover", !.grant = g]]
  BY DEF AttachAcquire, Become
<1>6. g \in granted' /\ g.gen = lastGen' /\ lastGen' \in Nat
  BY <1>3, <1>5
<1>7. g \in Grant
  BY <1>3, <1>6 DEF StoreKeeps, TypeOK
<1>8. PICK r : /\ r = [t EXCEPT !.pc = "recover", !.grant = g]
               /\ worker' = [worker EXCEPT ![w] = r]
  BY <1>1, <1>5
<1>9. r \in WorkerState /\ r.pc = "recover" /\ r.page = t.page /\ r.grant = g
  BY <1>7, <1>8 DEF WorkerState
<1>10. Holding(r)'
  <2>1. \A i \in 1..Len(t.page) : t.page[i].gen <= lastGen'
    BY <1>1, <1>3, Carried DEF Holding
  <2> QED
    BY <1>6, <1>7, <1>9, <2>1 DEF Holding
<1> QED
  BY <1>3, <1>4, <1>8, <1>9, <1>10, OneMoves

LEMMA AttachRecoverKeeps ==
    ASSUME RecoveryInv, NEW w \in Worker, AttachRecover(w)
    PROVE  RecoveryInv'
<1>1. PICK t \in WorkerState : t = worker[w] /\ Holding(t)
  BY StoreTypes DEF RecoveryInv
<1>2. PICK g \in Grant : /\ g = t.grant /\ FencedTransaction(g, "write") /\ t.pc = "recover"
                         /\ UNCHANGED <<transport, released, faults>>
  BY <1>1 DEF AttachRecover, Holding
<1>3. StoreKeeps /\ RestTypes
  <2>1. StoreKeeps /\ recent' = [recent EXCEPT ![g.session] = TRUE] /\ g.session \in Session
    BY <1>2, FencedKeeps DEF Grant
  <2> QED
    BY <1>2, <2>1, RestKept
<1>4. PICK r : r = [t EXCEPT !.pc = "renew"] /\ worker' = [worker EXCEPT ![w] = r]
  BY <1>1 DEF AttachRecover, GoTo, Become
<1>5. r.pc = "renew" /\ r.page = t.page /\ r.grant = t.grant /\ r \in WorkerState
  BY <1>4, GoToShape
<1>6. Holding(r)
  BY <1>1, <1>2, <1>5 DEF Holding
<1> QED
  BY <1>3, <1>4, <1>5, <1>6, OneMoves

LEMMA RenewKeeps ==
    ASSUME RecoveryInv, NEW g \in Grant, Renew(g)
    PROVE  StoreKeeps
<1>1. g.session \in Session /\ lease[g.session] # NoLease
  BY DEF Renew, Holds, Grant
<1>2. now + Ttl \in Nat
  BY StoreTypes, TtlAssumption
<1> QED
  BY <1>1, <1>2, ExpiryKeeps DEF Renew

LEMMA ReleaseKeeps ==
    ASSUME RecoveryInv, NEW g \in Grant, NEW at \in Nat, Release(g, at)
    PROVE  StoreKeeps
<1>1. g.session \in Session /\ lease[g.session] # NoLease
  BY DEF Release, Holds, Grant
<1> QED
  BY <1>1, ExpiryKeeps DEF Release

LEMMA AttachRenewKeeps ==
    ASSUME RecoveryInv, NEW w \in Worker, AttachRenew(w)
    PROVE  RecoveryInv'
<1>1. PICK t \in WorkerState : t = worker[w] /\ Holding(t)
  BY StoreTypes DEF RecoveryInv
<1>2. t.pc = "renew" /\ t.grant \in Grant /\ Renew(t.grant)
  BY <1>1 DEF AttachRenew, Holding
<1>3. StoreKeeps /\ RestTypes
  BY <1>2, RenewKeeps, RestKept DEF AttachRenew
<1>4. PICK r : r = [t EXCEPT !.pc = "attached"] /\ worker' = [worker EXCEPT ![w] = r]
  BY <1>1 DEF AttachRenew, GoTo, Become
<1>5. r.pc = "attached" /\ r.page = t.page /\ r.grant = t.grant /\ r \in WorkerState
  BY <1>4, GoToShape
<1>6. Holding(r)
  BY <1>1, <1>2, <1>5 DEF Holding
<1> QED
  BY <1>3, <1>4, <1>5, <1>6, OneMoves

LEMMA ActivateKeeps ==
    ASSUME RecoveryInv, NEW w \in Worker, Activate(w)
    PROVE  RecoveryInv'
<1>1. PICK t \in WorkerState : t = worker[w] /\ Holding(t)
  BY StoreTypes DEF RecoveryInv
<1>2. StoreKeeps /\ RestTypes
  BY SameStore, RestKept DEF Activate
<1>3. PICK r : /\ r = [t EXCEPT !.pc = "next", !.cand = NoCandidate, !.grant = NoGrant]
               /\ worker' = [worker EXCEPT ![w] = r]
  BY <1>1 DEF Activate, Become
<1>4. r \in WorkerState /\ r.pc = "next" /\ r.page = t.page
  BY <1>3 DEF WorkerState
<1>5. Holding(r)
  BY <1>1, <1>4 DEF Holding
<1> QED
  BY <1>2, <1>3, <1>4, <1>5, OneMoves

\* The reaper ends the session: the generation it held is over.
LEMMA ReapEndKeeps ==
    ASSUME RecoveryInv, NEW w \in Worker, ReapEnd(w)
    PROVE  RecoveryInv'
<1>1. PICK t \in WorkerState : t = worker[w] /\ Holding(t)
  BY StoreTypes DEF RecoveryInv
<1>2. PICK g \in Grant : /\ g = t.grant /\ FencedTransaction(g, "end") /\ t.pc = "attached"
                         /\ UNCHANGED <<transport, released, faults>>
  BY <1>1 DEF ReapEnd, Holding
<1>3. StoreKeeps /\ RestTypes /\ Over(g.session, g.gen)'
  <2>1. /\ StoreKeeps /\ recent' = [recent EXCEPT ![g.session] = TRUE] /\ g.session \in Session
        /\ Over(g.session, g.gen)'
    BY <1>2, FencedKeeps DEF Grant
  <2> QED
    BY <1>2, <2>1, RestKept
<1>4. PICK r : r = [t EXCEPT !.pc = "ended"] /\ worker' = [worker EXCEPT ![w] = r]
  BY <1>1 DEF ReapEnd, GoTo, Become
<1>5. r.pc = "ended" /\ r.page = t.page /\ r.grant = g /\ r \in WorkerState
  BY <1>2, <1>4, GoToShape
<1>6. Holding(r)'
  <2>1. Holding(t)'
    BY <1>1, <1>3, Carried
  <2> QED
    BY <1>2, <1>3, <1>5, <2>1 DEF Holding
<1> QED
  BY <1>3, <1>4, <1>5, <1>6, OneMoves

\* Detaching, with or without the release: the reaper goes on to acknowledge what it ended.
LEMMA DetachedKeeps ==
    ASSUME RecoveryInv, StoreKeeps, RestTypes, NEW w \in Worker,
           worker[w].pc \in {"detach", "ended"}, worker' = [worker EXCEPT ![w] = Detached(w)]
    PROVE  RecoveryInv'
<1>1. PICK t \in WorkerState : t = worker[w] /\ Holding(t)
  BY StoreTypes DEF RecoveryInv
<1>2. CASE t.pc = "ended"
  <2>1. t.grant \in Grant /\ Over(t.grant.session, t.grant.gen) /\ t.grant.gen <= lastGen
    BY <1>1, <1>2 DEF Holding
  <2>2. PICK c : c = [session |-> t.grant.session, fence |-> t.grant.fence, gen |-> t.grant.gen]
    OBVIOUS
  <2>3. /\ c \in Candidate /\ c.session = t.grant.session /\ c.gen = t.grant.gen
    BY <2>1, <2>2 DEF Candidate, Grant
  <2>4. PICK r : /\ r = [t EXCEPT !.pc = "ack", !.grant = NoGrant, !.cand = c]
                 /\ worker' = [worker EXCEPT ![w] = r]
    BY <1>1, <1>2, <2>2 DEF Detached
  <2>5. r \in WorkerState /\ r.pc = "ack" /\ r.page = t.page /\ r.cand = c
    BY <2>3, <2>4 DEF WorkerState
  <2>6. Holding(r)
    BY <1>1, <2>1, <2>3, <2>5 DEF Holding
  <2> QED
    BY <2>4, <2>5, <2>6, OneMoves
<1>3. CASE t.pc # "ended"
  <2>1. PICK r : /\ r = [t EXCEPT !.pc = "next", !.grant = NoGrant]
                 /\ worker' = [worker EXCEPT ![w] = r]
    BY <1>1, <1>3 DEF Detached
  <2>2. r \in WorkerState /\ r.pc = "next" /\ r.page = t.page
    BY <2>1 DEF WorkerState
  <2>3. Holding(r)
    BY <1>1, <2>2 DEF Holding
  <2> QED
    BY <2>1, <2>2, <2>3, OneMoves
<1> QED
  BY <1>2, <1>3

LEMMA DetachReleaseKeeps ==
    ASSUME RecoveryInv, NEW w \in Worker, DetachRelease(w)
    PROVE  RecoveryInv'
<1>1. PICK g : g = worker[w].grant /\ g \in Grant
  BY DEF DetachRelease, RecoveryInv, Holding
<1>2. Release(g, now) \/ StoreUnchanged
  BY <1>1 DEF DetachRelease
<1>3. StoreKeeps
  BY <1>1, <1>2, ReleaseKeeps, SameStore, StoreTypes
<1> QED
  BY <1>3, DetachedKeeps, RestKept DEF DetachRelease, Become

LEMMA AcknowledgeWorkerKeeps ==
    ASSUME RecoveryInv, NEW w \in Worker, Acknowledge(w)
    PROVE  RecoveryInv'
<1>1. PICK t \in WorkerState : t = worker[w] /\ Holding(t)
  BY StoreTypes DEF RecoveryInv
<1>2. t.cand \in Candidate /\ Over(t.cand.session, t.cand.gen) /\ AcknowledgeRow(t.cand)
  BY <1>1 DEF Acknowledge, Holding
<1>3. StoreKeeps /\ RestTypes
  BY <1>2, AcknowledgeKeeps, RestKept DEF Acknowledge
<1>4. PICK r : r = [t EXCEPT !.pc = "next"] /\ worker' = [worker EXCEPT ![w] = r]
  BY <1>1 DEF Acknowledge, GoTo, Become
<1>5. r.pc = "next" /\ r.page = t.page /\ r \in WorkerState
  BY <1>4, GoToShape
<1>6. Holding(r)
  BY <1>1, <1>5 DEF Holding
<1> QED
  BY <1>3, <1>4, <1>5, <1>6, OneMoves

\* Failed calls and crashes.
LEMMA WorkerFaultKeeps ==
    ASSUME RecoveryInv, NEW w \in Worker, WorkerFault(w)
    PROVE  RecoveryInv'
<1>1. StoreKeeps /\ RestTypes /\ StoreUnchanged
  BY SameStore, RestKept DEF WorkerFault, PollFails, ReleaseFails, WorkerCrash
<1>2. CASE ReleaseFails(w)
  BY <1>1, <1>2, DetachedKeeps DEF ReleaseFails, Become
<1>3. CASE WorkerCrash(w)
  BY <1>1, <1>3, IdleHolds, OneMoves DEF WorkerCrash, Become
<1>4. CASE PollFails(w)
  <2>1. CASE /\ worker[w].pc = "next" /\ worker[w].page # <<>>
             /\ worker' = [worker EXCEPT ![w] = [worker[w] EXCEPT !.page = Tail(@)]]
    <3>1. PICK t \in WorkerState : t = worker[w] /\ Holding(t)
      BY StoreTypes DEF RecoveryInv
    <3>2. t.page \in Seq(Candidate) /\ t.page # <<>>
      BY <2>1, <3>1, StateShape
    <3>3. PICK rest : rest = Tail(t.page)
      OBVIOUS
    <3>4. rest \in Seq(Candidate) /\ \A i \in 1..Len(rest) : rest[i].gen <= lastGen
      <4>1. \A i \in 1..Len(t.page) : t.page[i].gen <= lastGen
        BY <3>1 DEF Holding
      <4>2. rest \in Seq(Candidate)
            /\ \A i \in 1..Len(rest) : i + 1 \in 1..Len(t.page) /\ rest[i] = t.page[i + 1]
        BY <3>2, <3>3
      <4> QED
        BY <4>1, <4>2
    <3>5. PICK r : r = [t EXCEPT !.page = rest] /\ worker' = [worker EXCEPT ![w] = r]
      BY <2>1, <3>1, <3>3
    <3>6. r \in WorkerState /\ r.pc = "next" /\ r.page = rest
      BY <2>1, <3>1, <3>4, <3>5 DEF WorkerState
    <3>7. Holding(r)
      BY <3>4, <3>6 DEF Holding
    <3> QED
      BY <1>1, <3>5, <3>6, <3>7, OneMoves
  <2>2. CASE worker' = [worker EXCEPT ![w] = [worker[w] EXCEPT !.pc = "next"]]
    BY <1>1, <2>2, GoesOn
  <2>3. CASE /\ worker[w].pc \in {"recover", "renew", "attached"}
             /\ worker' = [worker EXCEPT ![w] = [worker[w] EXCEPT !.pc = "detach"]]
    BY <1>1, <2>3, GoesOn
  <2> QED
    BY <1>4, <2>1, <2>2, <2>3 DEF PollFails, GoTo, Become
<1> QED
  BY <1>2, <1>3, <1>4 DEF WorkerFault

\* The ordinary runtimes.
LEMMA OwnerTakesKeeps ==
    ASSUME RecoveryInv, NEW s \in Session, NEW h \in Holder, OwnerTakes(s, h)
    PROVE  RecoveryInv'
<1>1. StoreKeeps
  <2>1. CASE Acquire(s, h)
    BY <2>1, TakeLeaseKeeps DEF Acquire
  <2>2. CASE CreateSessionWithLease(s, h)
    BY <2>2, TakeLeaseKeeps DEF CreateSessionWithLease
  <2> QED
    BY <2>1, <2>2 DEF OwnerTakes
<1> QED
  BY <1>1, RestKept, NobodyMoves DEF OwnerTakes

LEMMA OwnerUsesKeeps ==
    ASSUME RecoveryInv, NEW g \in OwnerGrants,
           \/ OwnerRenews(g) \/ OwnerReleases(g)
           \/ \E op \in {"write", "end"} : OwnerWrites(g, op)
    PROVE  RecoveryInv'
<1>1. g \in Grant /\ g.session \in Session /\ g.gen \in Nat /\ g.since \in Nat
  BY StoreTypes DEF OwnerGrants, Grant
<1>2. CASE OwnerRenews(g)
  BY <1>1, <1>2, RenewKeeps, RestKept, NobodyMoves DEF OwnerRenews, recoveryVars
<1>3. CASE OwnerReleases(g)
  <2>1. PICK at \in g.since..now : Release(g, at)
    BY <1>3 DEF OwnerReleases
  <2>2. at \in Nat
    BY <1>1, <2>1, StoreTypes
  <2>3. StoreKeeps
    BY <1>1, <2>1, <2>2, ReleaseKeeps
  <2>4. RestTypes /\ worker' = worker
    BY <1>1, <1>3 DEF OwnerReleases, RestTypes, RecoveryInv, RecoveryTypeOK
  <2> QED
    BY <2>3, <2>4, NobodyMoves
<1>4. ASSUME NEW op \in {"write", "end"}, OwnerWrites(g, op) PROVE RecoveryInv'
  <2>1. StoreKeeps /\ recent' = [recent EXCEPT ![g.session] = TRUE]
    BY <1>1, <1>4, FencedKeeps DEF OwnerWrites
  <2> QED
    BY <1>1, <1>4, <2>1, RestKept, NobodyMoves DEF OwnerWrites
<1> QED
  BY <1>2, <1>3, <1>4

\* Retention deletes the session with its lease row.
LEMMA RetentionDeleteKeeps ==
    ASSUME RecoveryInv, NEW s \in Session, RetentionDelete(s)
    PROVE  RecoveryInv'
<1>1. /\ session' = [session EXCEPT ![s] = "absent"] /\ lease' = [lease EXCEPT ![s] = NoLease]
      /\ UNCHANGED <<now, lastGen, granted, tx, written>> /\ UNCHANGED recoveryVars
  BY DEF RetentionDelete
<1>2. /\ lease'[s] = NoLease /\ session'[s] = "absent"
      /\ \A r \in Session \ {s} : lease'[r] = lease[r] /\ session'[r] = session[r]
      /\ lease' \in [Session -> LeaseRow \cup {NoLease}]
      /\ session' \in [Session -> {"absent", "active", "terminal"}]
  BY <1>1, StoreTypes
<1>3. TypeOK'
  BY <1>1, <1>2 DEF RecoveryInv, RecoveryTypeOK, TypeOK
<1>4. Issued' /\ NoLostSession'
  BY <1>1, <1>2 DEF RecoveryInv, Issued, NoLostSession
<1>5. StoreKeeps
  BY <1>1, <1>2, <1>3, <1>4, StoreTypes DEF StoreKeeps, Over
<1> QED
  BY <1>1, <1>5, RestKept, NobodyMoves DEF recoveryVars

LEMMA SurroundingsKeep ==
    ASSUME RecoveryInv,
           TimePasses \/ \E s \in Session : TransportChanges(s) \/ GraceElapses(s)
    PROVE  RecoveryInv'
<1>1. /\ transport \in [Session -> BOOLEAN] /\ recent \in [Session -> BOOLEAN]
      /\ released \in SUBSET Nat /\ faults \in 0..MaxFaults
  BY DEF RecoveryInv, RecoveryTypeOK
<1>2. ASSUME NEW s \in Session, TransportChanges(s) \/ GraceElapses(s) PROVE RecoveryInv'
  <2>1. StoreKeeps /\ worker' = worker /\ released' = released /\ faults' = faults
    BY <1>2, SameStore DEF TransportChanges, GraceElapses
  <2>2. transport' \in [Session -> BOOLEAN] /\ recent' \in [Session -> BOOLEAN]
    BY <1>1, <1>2 DEF TransportChanges, GraceElapses
  <2> QED
    BY <1>1, <2>1, <2>2, NobodyMoves DEF RestTypes
<1>3. CASE TimePasses
  <2>1. /\ now' \in Nat /\ UNCHANGED <<session, lease, lastGen, granted, tx, written>>
        /\ UNCHANGED recoveryVars
    BY <1>3, StoreTypes DEF TimePasses, Tick
  <2>2. TypeOK'
    BY <2>1 DEF RecoveryInv, RecoveryTypeOK, TypeOK
  <2>3. Issued' /\ NoLostSession'
    BY <2>1 DEF RecoveryInv, Issued, NoLostSession
  <2>4. StoreKeeps
    BY <2>1, <2>2, <2>3, StoreTypes DEF StoreKeeps, Over
  <2> QED
    BY <2>1, <2>4, RestKept, NobodyMoves DEF recoveryVars
<1> QED
  BY <1>2, <1>3

-----------------------------------------------------------------------------

LEMMA RecoveryStarts == RecoveryInit => RecoveryInv
<1> SUFFICES ASSUME RecoveryInit PROVE RecoveryInv
  OBVIOUS
<1>1. TypeOK
  BY DEF RecoveryInit, Init, TypeOK, NoGen
<1>2. RecoveryTypeOK
  BY <1>1, IdleHolds, WorkerAssumption DEF RecoveryInit, RecoveryTypeOK
<1>3. Issued /\ NoLostSession
  BY DEF RecoveryInit, Init, Issued, NoLostSession
<1>4. \A w \in Worker : Holding(worker[w])
  BY IdleHolds DEF RecoveryInit
<1> QED
  BY <1>2, <1>3, <1>4 DEF RecoveryInv

LEMMA RecoveryStep ==
    ASSUME RecoveryInv, [RecoveryNext]_allVars
    PROVE  RecoveryInv'
<1>1. ASSUME NEW w \in Worker, WorkerStep(w) PROVE RecoveryInv'
  BY <1>1, ListCandidatesKeeps, ReadCandidateKeeps, PollDoneKeeps, CheckTransportKeeps,
     AttachAcquireKeeps, AttachRecoverKeeps, AttachRenewKeeps, ActivateKeeps, ReapEndKeeps,
     DetachReleaseKeeps, AcknowledgeWorkerKeeps DEF WorkerStep
<1>2. CASE UNCHANGED allVars
  <2>1. StoreKeeps
    BY <1>2, SameStore DEF allVars, StoreUnchanged
  <2> QED
    BY <1>2, <2>1, RestKept, NobodyMoves DEF allVars
<1> QED
  BY <1>1, <1>2, WorkerFaultKeeps, OwnerTakesKeeps, OwnerUsesKeeps, RetentionDeleteKeeps,
     SurroundingsKeep DEF RecoveryNext

\* The invariant of recovery: whatever a worker is about to acknowledge is a generation
\* that is over, if it is still the one in the lease row.
THEOREM RecoveryInvariant == RecoverySpec => []RecoveryInv
<1>1. RecoveryInv /\ [RecoveryNext]_allVars => RecoveryInv'
  BY RecoveryStep
<1> QED
  BY <1>1, RecoveryStarts, PTL DEF RecoverySpec

\* The store, the workers' pages, candidates and grants stay within their types.
THEOREM RecoveryTypes == RecoverySpec => []RecoveryTypeOK
<1>1. RecoveryInv => RecoveryTypeOK
  BY DEF RecoveryInv
<1> QED
  BY <1>1, RecoveryInvariant, PTL

\* An active session is never taken off the recovery list, however stale the candidate an
\* acknowledgement was derived from.
THEOREM NoSessionIsLost == RecoverySpec => []NoLostSession
<1>1. RecoveryInv => NoLostSession
  BY DEF RecoveryInv
<1> QED
  BY <1>1, RecoveryInvariant, PTL

-----------------------------------------------------------------------------
(***************************************************************************)
(* What the store promises its clients it still promises with the recovery *)
(* workers, their failures and retention running on it.                    *)
(***************************************************************************)

\* What a step of the system does to the lease rows: a lease is taken, an expiry is
\* rewritten, a row is deleted or acknowledged, time passes, or the rows stay as they are.
LEMMA RecoveryStepKinds ==
    ASSUME RecoveryInv, RecoveryNext
    PROVE  \/ Tick
           \/ \E s \in Session, h \in Holder : TakeLease(s, h) /\ UNCHANGED <<now, written>>
           \/ \E s \in Session, e \in Nat :
                 /\ lease[s] # NoLease
                 /\ e <= now \/ Live(s)
                 /\ lease' = [lease EXCEPT ![s].expiresAt = e]
                 /\ UNCHANGED <<now, lastGen, written>>
           \/ \E s \in Session :
                 lease' = [lease EXCEPT ![s] = NoLease] /\ UNCHANGED <<now, lastGen, written>>
           \/ \E c \in Candidate : AcknowledgeRow(c) /\ UNCHANGED <<now, lastGen, written>>
           \/ UNCHANGED <<now, lease, lastGen, written>>
<1> DEFINE Rewrites == \E s \in Session, e \in Nat :
                          /\ lease[s] # NoLease
                          /\ e <= now \/ Live(s)
                          /\ lease' = [lease EXCEPT ![s].expiresAt = e]
                          /\ UNCHANGED <<now, lastGen, written>>
           Still == UNCHANGED <<now, lease, lastGen, written>>
<1>1. ASSUME NEW g \in Grant, Renew(g) PROVE Rewrites
  <2>1. g.session \in Session /\ now + Ttl \in Nat
    BY StoreTypes, TtlAssumption DEF Grant
  <2> QED
    BY <1>1, <2>1 DEF Renew, Live
<1>2. ASSUME NEW g \in Grant, NEW at \in Nat, at <= now, Release(g, at) PROVE Rewrites
  <2>1. g.session \in Session
    BY DEF Grant
  <2> QED
    BY <1>2, <2>1 DEF Release, Holds
<1>3. ASSUME NEW g, NEW op, FencedTransaction(g, op) PROVE Still
  BY <1>3 DEF FencedTransaction
<1>4. StoreUnchanged => Still
  BY DEF StoreUnchanged
<1>5. ASSUME NEW w \in Worker, WorkerStep(w)
      PROVE  \/ \E s \in Session, h \in Holder : TakeLease(s, h) /\ UNCHANGED <<now, written>>
             \/ Rewrites
             \/ \E c \in Candidate : AcknowledgeRow(c) /\ UNCHANGED <<now, lastGen, written>>
             \/ Still
  <2> HIDE DEF Rewrites, Still
  <2>0. Holding(worker[w]) /\ worker[w] \in WorkerState
    BY StoreTypes DEF RecoveryInv
  <2>1. CASE \/ ListCandidates(w) \/ ReadCandidate(w) \/ PollDone(w) \/ CheckTransport(w)
             \/ AttachRefused(w) \/ AttachLost(w) \/ Activate(w)
    BY <1>4, <2>1 DEF ListCandidates, ReadCandidate, PollDone, CheckTransport, AttachRefused,
                      AttachLost, Activate
  <2>2. CASE AttachAcquire(w)
    <3>1. worker[w].cand \in Candidate /\ HolderOf[w] \in Holder
      BY <2>0, <2>2, WorkerAssumption DEF AttachAcquire, Holding
    <3> QED
      BY <2>2, <3>1 DEF AttachAcquire, Acquire, Candidate
  <2>3. CASE AttachRecover(w)
    BY <1>3, <2>3 DEF AttachRecover
  <2>4. CASE AttachRenew(w)
    BY <1>1, <2>0, <2>4 DEF AttachRenew, Holding
  <2>5. CASE ReapEnd(w)
    BY <1>3, <2>5 DEF ReapEnd
  <2>6. CASE DetachRelease(w)
    <3>1. worker[w].grant \in Grant /\ now \in Nat /\ now <= now
      BY <2>0, <2>6, StoreTypes DEF DetachRelease, Holding
    <3> QED
      BY <1>2, <1>4, <2>6, <3>1 DEF DetachRelease
  <2>7. CASE Acknowledge(w)
    BY <2>0, <2>7 DEF Acknowledge, Holding
  <2> QED
    BY <1>5, <2>1, <2>2, <2>3, <2>4, <2>5, <2>6, <2>7 DEF WorkerStep
<1>6. ASSUME NEW w \in Worker, WorkerFault(w) PROVE Still
  BY <1>4, <1>6 DEF WorkerFault, PollFails, ReleaseFails, WorkerCrash
<1>7. ASSUME NEW s \in Session, NEW h \in Holder, OwnerTakes(s, h)
      PROVE  TakeLease(s, h) /\ UNCHANGED <<now, written>>
  BY <1>7 DEF OwnerTakes, CreateSessionWithLease, Acquire
<1>8. ASSUME NEW g \in OwnerGrants,
             \/ OwnerRenews(g) \/ OwnerReleases(g)
             \/ \E op \in {"write", "end"} : OwnerWrites(g, op)
      PROVE  Rewrites \/ Still
  <2> HIDE DEF Rewrites, Still
  <2>1. g \in Grant
    BY StoreTypes DEF OwnerGrants
  <2>2. CASE OwnerReleases(g)
    <3>1. PICK at \in g.since..now : Release(g, at)
      BY <2>2 DEF OwnerReleases
    <3>2. at \in Nat /\ at <= now
      BY <2>1, <3>1, StoreTypes DEF Grant
    <3> QED
      BY <1>2, <2>1, <3>1, <3>2
  <2> QED
    BY <1>1, <1>3, <1>8, <2>1, <2>2 DEF OwnerRenews, OwnerWrites
<1>9. ASSUME NEW s \in Session, RetentionDelete(s)
      PROVE  lease' = [lease EXCEPT ![s] = NoLease] /\ UNCHANGED <<now, lastGen, written>>
  BY <1>9 DEF RetentionDelete
<1>10. ASSUME NEW s \in Session, TransportChanges(s) \/ GraceElapses(s) PROVE Still
  BY <1>4, <1>10 DEF TransportChanges, GraceElapses
<1>11. TimePasses => Tick
  BY DEF TimePasses
<1> HIDE DEF Rewrites, Still
<1> SUFFICES \/ Tick
             \/ \E s \in Session, h \in Holder : TakeLease(s, h) /\ UNCHANGED <<now, written>>
             \/ Rewrites
             \/ \E s \in Session :
                   lease' = [lease EXCEPT ![s] = NoLease] /\ UNCHANGED <<now, lastGen, written>>
             \/ \E c \in Candidate : AcknowledgeRow(c) /\ UNCHANGED <<now, lastGen, written>>
             \/ Still
  BY DEF Rewrites, Still
<1> QED
  BY <1>5, <1>6, <1>7, <1>8, <1>9, <1>10, <1>11 DEF RecoveryNext

\* An acknowledgement leaves every row's generation and expiry alone.
LEMMA AcknowledgedRows ==
    ASSUME TypeOK, NEW c \in Candidate, AcknowledgeRow(c)
    PROVE  \A s \in Session : /\ lease'[s] = NoLease <=> lease[s] = NoLease
                              /\ lease'[s].gen = lease[s].gen
                              /\ lease'[s].expiresAt = lease[s].expiresAt
<1>1. CASE Acknowledges(c)
  <2>1. PICK r \in Session : r = c.session
    BY DEF Candidate
  <2>2. lease[r] \in LeaseRow /\ c.gen \in Nat
    BY <1>1, <2>1 DEF Acknowledges, TypeOK, Candidate
  <2>3. lease' = [lease EXCEPT ![r].ackGen = c.gen, ![r].ackFence = lease[r].fence]
    BY <1>1, <2>1 DEF AcknowledgeRow
  <2>4. /\ lease'[r] = [lease[r] EXCEPT !.ackGen = c.gen, !.ackFence = lease[r].fence]
        /\ \A s \in Session \ {r} : lease'[s] = lease[s]
    BY <2>3 DEF TypeOK
  <2>5. /\ lease'[r] \in LeaseRow /\ lease'[r].gen = lease[r].gen
        /\ lease'[r].expiresAt = lease[r].expiresAt
    BY <2>2, <2>4 DEF LeaseRow
  <2> QED
    BY <2>2, <2>4, <2>5, NullsDistinct
<1>2. CASE ~Acknowledges(c)
  BY <1>2 DEF AcknowledgeRow
<1> QED
  BY <1>1, <1>2

\* The workers, the runtimes they replace, retention and time together keep the ownership
\* promise: every session has one live grant at a time, under a generation nobody else was
\* ever given, and a grant that lapsed stays lapsed, whatever a worker does with what it read
\* earlier (attachSession, endSession and the acknowledgements of session-recovery.ts).
THEOREM RecoveryImplementsOwnership == RecoverySpec => OwnershipSpec
<1>1. RecoveryInit => Ownership!Init
  BY DEF RecoveryInit, Init, Ownership!Init, Live, NoGen
<1>2. RecoveryInv /\ [RecoveryNext]_allVars => [Ownership!Next]_(Ownership!vars)
  <2> SUFFICES ASSUME RecoveryInv, [RecoveryNext]_allVars
               PROVE  Ownership!Next \/ UNCHANGED Ownership!vars
    OBVIOUS
  <2>0. TypeOK
    BY StoreTypes
  <2>1. CASE Tick
    BY <2>0, <2>1, TickLapses DEF Ownership!Next
  <2>2. CASE \E s \in Session, h \in Holder : TakeLease(s, h) /\ UNCHANGED <<now, written>>
    BY <2>0, <2>2, TakingGrants DEF Ownership!Next
  <2>3. CASE \E s \in Session, e \in Nat :
                 /\ lease[s] # NoLease
                 /\ e <= now \/ Live(s)
                 /\ lease' = [lease EXCEPT ![s].expiresAt = e]
                 /\ UNCHANGED <<now, lastGen, written>>
    BY <2>0, <2>3, ExpiryLapses DEF Ownership!Next
  <2>4. CASE \E s \in Session :
                 lease' = [lease EXCEPT ![s] = NoLease] /\ UNCHANGED <<now, lastGen, written>>
    BY <2>0, <2>4, DeletingForgets DEF Ownership!Next
  <2>5. CASE \E c \in Candidate : AcknowledgeRow(c) /\ UNCHANGED <<now, lastGen, written>>
    <3>1. \A s \in Session : /\ lease'[s] = NoLease <=> lease[s] = NoLease
                             /\ lease'[s].gen = lease[s].gen
                             /\ lease'[s].expiresAt = lease[s].expiresAt
      BY <2>0, <2>5, AcknowledgedRows
    <3> QED
      BY <2>5, <3>1 DEF Ownership!vars, Live
  <2>6. CASE UNCHANGED <<now, lease, lastGen, written>>
    BY <2>6 DEF Ownership!vars, Live
  <2>7. CASE UNCHANGED allVars
    BY <2>7 DEF allVars, Ownership!vars, Live
  <2> QED
    BY <2>1, <2>2, <2>3, <2>4, <2>5, <2>6, <2>7, RecoveryStepKinds
<1> QED
  BY <1>1, <1>2, RecoveryInvariant, PTL DEF RecoverySpec, OwnershipSpec, Ownership!Spec

\* With recovery running too, a lease that lapsed or was released never becomes live again:
\* a worker or a runtime that found its lease gone need never look again.
THEOREM RecoveryRevivesNothing == RecoverySpec => DeadGenerationStaysDead
<1> DEFINE A == \A s \in Session :
          lease[s] # NoLease /\ ~Live(s) /\ lease'[s] # NoLease /\ lease'[s].expiresAt > now'
             => lease'[s].gen # lease[s].gen
<1>1. RecoveryInv /\ [RecoveryNext]_allVars => [A]_vars
  <2> SUFFICES ASSUME RecoveryInv, RecoveryNext, NEW s \in Session,
                      lease[s] # NoLease, ~Live(s),
                      lease'[s] # NoLease, lease'[s].expiresAt > now'
               PROVE  lease'[s].gen # lease[s].gen
    BY DEF allVars, vars
  <2>0. /\ TypeOK /\ lease[s].gen \in 1..lastGen /\ lastGen \in Nat
        /\ now \in Nat /\ lease[s].expiresAt \in Nat /\ lease[s].expiresAt <= now
    BY StoreTypes DEF RecoveryInv, Issued, LeaseRow, Live
  <2>1. CASE Tick
    BY <2>1, <2>0 DEF Tick
  <2>2. CASE \E r \in Session, h \in Holder : TakeLease(r, h) /\ UNCHANGED <<now, written>>
    <3>1. PICK r \in Session, h \in Holder : TakeLease(r, h) /\ UNCHANGED <<now, written>>
      BY <2>2
    <3>2. CASE r = s
      <4>1. lease'[s].gen = lastGen + 1
        BY <2>0, <3>1, <3>2 DEF TakeLease, TypeOK
      <4> QED
        BY <2>0, <4>1
    <3>3. CASE r # s
      <4>1. lease'[s] = lease[s]
        BY <2>0, <3>1, <3>3 DEF TakeLease, TypeOK
      <4> QED
        BY <2>0, <3>1, <4>1
    <3> QED
      BY <3>2, <3>3
  <2>3. CASE \E r \in Session, e \in Nat :
                 /\ lease[r] # NoLease
                 /\ e <= now \/ Live(r)
                 /\ lease' = [lease EXCEPT ![r].expiresAt = e]
                 /\ UNCHANGED <<now, lastGen, written>>
    <3> PICK r \in Session, e \in Nat :
                 /\ lease[r] # NoLease
                 /\ e <= now \/ Live(r)
                 /\ lease' = [lease EXCEPT ![r].expiresAt = e]
                 /\ UNCHANGED <<now, lastGen, written>>
      BY <2>3
    <3> QED
      BY <2>0, ExpiryUpdate
  <2>4. CASE \E r \in Session :
                 lease' = [lease EXCEPT ![r] = NoLease] /\ UNCHANGED <<now, lastGen, written>>
    <3>1. lease'[s] \in {lease[s], NoLease} /\ now' = now
      BY <2>0, <2>4 DEF TypeOK
    <3> QED
      BY <2>0, <3>1
  <2>5. CASE \E c \in Candidate : AcknowledgeRow(c) /\ UNCHANGED <<now, lastGen, written>>
    <3>1. lease'[s].expiresAt = lease[s].expiresAt /\ now' = now
      BY <2>0, <2>5, AcknowledgedRows
    <3> QED
      BY <2>0, <3>1
  <2>6. CASE UNCHANGED <<now, lease, lastGen, written>>
    BY <2>6, <2>0
  <2> QED
    BY <2>1, <2>2, <2>3, <2>4, <2>5, <2>6, RecoveryStepKinds
<1> QED
  BY <1>1, RecoveryInvariant, PTL DEF RecoverySpec, DeadGenerationStaysDead

=============================================================================
