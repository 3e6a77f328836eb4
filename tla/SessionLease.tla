---------------------------- MODULE SessionLease ----------------------------
(***************************************************************************)
(* The PostgreSQL session store as its clients see it: session rows, lease *)
(* rows and the transactions that lock them (packages/dal-postgres/src).   *)
(*                                                                         *)
(* Clients are left completely free.  A client that was once granted a     *)
(* lease may use it at any later time, however stale: its calls may be     *)
(* delayed for ever, it may stop, or it may have been replaced.  What      *)
(* keeps the store right is only what the statements check and lock.       *)
(*                                                                         *)
(* A statement or transaction that holds its locks for its whole duration  *)
(* is one action.  Transactions that run the caller's code while they hold *)
(* the locks (runSessionTransaction, runUnfencedSessionTransaction and the *)
(* retention job) are split at the points where time can pass.             *)
(***************************************************************************)
EXTENDS Naturals

CONSTANTS
    Session,    \* session ids
    Holder,     \* holder ids, one per runtime process
    Ttl,        \* leaseTtlMs, in clock ticks
    MaxTime,    \* bound: the database clock stops here
    MaxGen      \* bound: how many generation ids randomUUID() returns

ASSUME TtlAssumption == Ttl \in Nat \ {0}
ASSUME BoundAssumption == MaxTime \in Nat /\ MaxGen \in Nat

VARIABLES
    now,        \* databaseNowMs(); assumed not to run backwards
    session,    \* the status column of tvic_sessions, "absent" if there is no row
    lease,      \* the row of tvic_session_leases, NoLease if there is none
    lastGen,    \* generation ids are fresh: drawn as 1, 2, ...
    granted,    \* every lease ever returned to a client
    tx,         \* the transaction holding the session's row locks, NoTx if none
    written     \* history: generation of the last committed fenced write

vars == <<now, session, lease, lastGen, granted, tx, written>>

NoGen == 0   \* SQL NULL for a generation id or an acknowledged fence

\* A lease as a client holds it; since is acquired_at_ms.
Grant == [session : Session, holder : Holder, fence : Nat, gen : Nat, since : Nat]

\* A lease row with its recovery acknowledgement columns.
LeaseRow == [holder : Holder, fence : Nat \ {0}, gen : Nat, expiresAt : Nat,
             ackGen : Nat, ackFence : Nat]
NoLease == [fence |-> 0]

\* An open transaction.  phase is "open" while the caller's operation runs and
\* "checked" between the closing assertion and COMMIT.
Tx == [kind : {"fenced", "unfenced", "retention"}, phase : {"open", "checked"},
       gen : Nat, op : {"write", "end", "delete"}]
NoTx == [kind |-> "none"]

\* Session and lease rows, transactions and grants stay within their types.
TypeOK ==
    /\ now \in Nat
    /\ session \in [Session -> {"absent", "active", "terminal"}]
    /\ lease \in [Session -> LeaseRow \cup {NoLease}]
    /\ lastGen \in Nat
    /\ granted \in SUBSET Grant
    /\ tx \in [Session -> Tx \cup {NoTx}]
    /\ written \in [Session -> Nat]

-----------------------------------------------------------------------------

\* Bug: the assertions read the rows without FOR UPDATE.
UnlockedAlways(s) == TRUE

\* The row locks of a session (FOR UPDATE on the session and the lease row) are
\* held by no open transaction.
Unlocked(s) == tx[s] = NoTx

\* The row's lease has not expired.
Live(s) == lease[s] # NoLease /\ lease[s].expiresAt > now

\* Bug: the lease row is compared by holder and fence only, as if fences were
\* never reissued.
HoldsByFence(s, g) ==
    /\ lease[s] # NoLease
    /\ lease[s].holder = g.holder
    /\ lease[s].fence = g.fence

\* The identity columns every lease statement compares: holder, fence and
\* generation id.
Holds(s, g) ==
    /\ lease[s] # NoLease
    /\ lease[s].holder = g.holder
    /\ lease[s].fence = g.fence
    /\ lease[s].gen = g.gen

\* Bug: the expiry of the existing lease is not looked at.
TakeLeaseFromLive(s, h) ==
    LET fence == lease[s].fence + 1 IN
    /\ lastGen < MaxGen
    /\ lastGen' = lastGen + 1
    /\ lease' = [lease EXCEPT ![s] =
                    [holder |-> h, fence |-> fence, gen |-> lastGen', expiresAt |-> now + Ttl,
                     ackGen |-> NoGen, ackFence |-> NoGen]]
    /\ granted' = granted \cup {[session |-> s, holder |-> h, fence |-> fence,
                                 gen |-> lastGen', since |-> now]}

\* Bug: the fence of the existing row is used again.
TakeLeaseSameFence(s, h) ==
    LET fence == lease[s].fence IN
    /\ ~Live(s)
    /\ lastGen < MaxGen
    /\ lastGen' = lastGen + 1
    /\ lease' = [lease EXCEPT ![s] =
                    [holder |-> h, fence |-> fence, gen |-> lastGen', expiresAt |-> now + Ttl,
                     ackGen |-> NoGen, ackFence |-> NoGen]]
    /\ granted' = granted \cup {[session |-> s, holder |-> h, fence |-> fence,
                                 gen |-> lastGen', since |-> now]}

\* acquireLease once no live lease is in the way: the next fence, a fresh
\* generation id, and no recovery acknowledgement.
TakeLease(s, h) ==
    LET fence == lease[s].fence + 1 IN
    /\ ~Live(s)
    /\ lastGen < MaxGen
    /\ lastGen' = lastGen + 1
    /\ lease' = [lease EXCEPT ![s] =
                    [holder |-> h, fence |-> fence, gen |-> lastGen', expiresAt |-> now + Ttl,
                     ackGen |-> NoGen, ackFence |-> NoGen]]
    /\ granted' = granted \cup {[session |-> s, holder |-> h, fence |-> fence,
                                 gen |-> lastGen', since |-> now]}

Init ==
    /\ now = 0
    /\ session = [s \in Session |-> "absent"]
    /\ lease = [s \in Session |-> NoLease]
    /\ lastGen = 0
    /\ granted = {}
    /\ tx = [s \in Session |-> NoTx]
    /\ written = [s \in Session |-> NoGen]

Tick ==
    /\ now < MaxTime
    /\ now' = now + 1
    /\ UNCHANGED <<session, lease, lastGen, granted, tx, written>>

-----------------------------------------------------------------------------
(***************************************************************************)
(* The lease store.                                                        *)
(***************************************************************************)

\* acquire: the session row must exist.  A live lease is handed back unchanged
\* to its own holder and refused to anyone else; neither changes the store.
Acquire(s, h) ==
    /\ Unlocked(s)
    /\ session[s] # "absent"
    /\ TakeLease(s, h)
    /\ UNCHANGED <<now, session, tx, written>>

\* renew: one statement that matches the row, reads the clock under its lock and
\* extends a lease that has not expired.
Renew(g) ==
    LET s == g.session IN
    /\ Unlocked(s)
    /\ Holds(s, g)
    /\ Live(s)
    /\ lease' = [lease EXCEPT ![s].expiresAt = now + Ttl]
    /\ UNCHANGED <<now, session, lastGen, granted, tx, written>>

\* Bug: release writes an expiry derived from the lease term.
ReleaseAtTermEnd(g, at) ==
    LET s == g.session IN
    /\ Unlocked(s)
    /\ Holds(s, g)
    /\ lease' = [lease EXCEPT ![s].expiresAt = at + Ttl]
    /\ UNCHANGED <<now, session, lastGen, granted, tx, written>>

\* release: the clock is read by a query of its own, at some time `at' since the
\* lease was granted; the update may come much later and also rewrites the
\* expiry of a lease that has lapsed.
Release(g, at) ==
    LET s == g.session IN
    /\ Unlocked(s)
    /\ Holds(s, g)
    /\ lease' = [lease EXCEPT ![s].expiresAt = at]
    /\ UNCHANGED <<now, session, lastGen, granted, tx, written>>

-----------------------------------------------------------------------------
(***************************************************************************)
(* Creating sessions.                                                      *)
(***************************************************************************)

\* createSessionWithLease inserts the session and its first lease together.  When
\* an identical row is there already (a retried call) it only acquires.
CreateSessionWithLease(s, h) ==
    /\ Unlocked(s)
    /\ session[s] \in {"absent", "active"}
    /\ session' = [session EXCEPT ![s] = "active"]
    /\ TakeLease(s, h)
    /\ UNCHANGED <<now, tx, written>>

\* An unfenced transaction that inserts the session row (Runtime.startSession): the
\* session starts with no lease row at all.
CreateSessionUnattached(s) ==
    /\ Unlocked(s)
    /\ session[s] = "absent"
    /\ session' = [session EXCEPT ![s] = "active"]
    /\ UNCHANGED <<now, lease, lastGen, granted, tx, written>>

-----------------------------------------------------------------------------
(***************************************************************************)
(* Transactions that run the caller's operation under the row locks.       *)
(***************************************************************************)

\* runSessionTransaction up to the operation: assertLease.
BeginFenced(g, op) ==
    LET s == g.session IN
    /\ Unlocked(s)
    /\ session[s] # "absent"
    /\ Holds(s, g)
    /\ Live(s)
    /\ tx' = [tx EXCEPT ![s] = [kind |-> "fenced", phase |-> "open", gen |-> g.gen, op |-> op]]
    /\ UNCHANGED <<now, session, lease, lastGen, granted, written>>

\* runUnfencedSessionTransaction up to the operation: assertNoActiveLease.  The
\* operations on a missing row (other than creating it) fail, so a row is there.
BeginUnfenced(s, op) ==
    /\ Unlocked(s)
    /\ session[s] # "absent"
    /\ ~Live(s)
    /\ tx' = [tx EXCEPT ![s] = [kind |-> "unfenced", phase |-> "open", gen |-> NoGen, op |-> op]]
    /\ UNCHANGED <<now, session, lease, lastGen, granted, written>>

\* The retention job locks one terminal session and runs its hooks under the lock.
BeginRetention(s) ==
    /\ Unlocked(s)
    /\ session[s] = "terminal"
    /\ tx' = [tx EXCEPT ![s] =
                [kind |-> "retention", phase |-> "open", gen |-> NoGen, op |-> "delete"]]
    /\ UNCHANGED <<now, session, lease, lastGen, granted, written>>

\* The second assertLease or assertNoActiveLease.  A fenced transaction whose lease
\* ran out under it does not get past this point; it can only roll back.
Recheck(s) ==
    /\ tx[s] # NoTx
    /\ tx[s].phase = "open"
    /\ CASE tx[s].kind = "fenced"    -> Live(s) /\ lease[s].gen = tx[s].gen
         [] tx[s].kind = "unfenced"  -> ~Live(s)
         [] tx[s].kind = "retention" -> TRUE
    /\ tx' = [tx EXCEPT ![s].phase = "checked"]
    /\ UNCHANGED <<now, session, lease, lastGen, granted, written>>

\* COMMIT.  Deleting a session row deletes its lease row (ON DELETE CASCADE).
Commit(s) ==
    /\ tx[s] # NoTx
    /\ tx[s].phase = "checked"
    /\ session' = [session EXCEPT ![s] =
                      CASE tx[s].op = "write"  -> @
                        [] tx[s].op = "end"    -> "terminal"
                        [] tx[s].op = "delete" -> "absent"]
    /\ lease' = IF tx[s].op = "delete" THEN [lease EXCEPT ![s] = NoLease] ELSE lease
    /\ written' = IF tx[s].kind = "fenced" THEN [written EXCEPT ![s] = tx[s].gen] ELSE written
    /\ tx' = [tx EXCEPT ![s] = NoTx]
    /\ UNCHANGED <<now, lastGen, granted>>

\* The operation throws, an assertion fails, a hook vetoes the deletion, or the client's
\* connection drops: ROLLBACK.
Abort(s) ==
    /\ tx[s] # NoTx
    /\ tx' = [tx EXCEPT ![s] = NoTx]
    /\ UNCHANGED <<now, session, lease, lastGen, granted, written>>

-----------------------------------------------------------------------------

LeaseStep ==
    \/ Tick
    \/ \E s \in Session, h \in Holder : Acquire(s, h) \/ CreateSessionWithLease(s, h)
    \/ \E g \in granted : Renew(g)
    \/ \E g \in granted : \E at \in g.since..now : Release(g, at)

TxStep ==
    \/ \E g \in granted, op \in {"write", "end"} : BeginFenced(g, op)
    \/ \E s \in Session, op \in {"write", "end"} : BeginUnfenced(s, op)
    \/ \E s \in Session :
          CreateSessionUnattached(s) \/ BeginRetention(s) \/ Recheck(s) \/ Commit(s) \/ Abort(s)

Next == LeaseStep \/ TxStep

Spec == Init /\ [][Next]_vars

-----------------------------------------------------------------------------
(***************************************************************************)
(* Properties.                                                             *)
(***************************************************************************)

\* A transaction that passed assertLease belongs to the newest lease ever granted for
\* the session: once another runtime took over, nothing the previous one started can
\* still commit.  (The lease may expire between the closing check and COMMIT; the row
\* locks are what keeps a successor out until then.)
NoZombieTransaction ==
    \A s \in Session : tx[s] # NoTx /\ tx[s].kind = "fenced" =>
        \A g \in granted : g.session = s => g.gen <= tx[s].gen

\* A write without a lease (runUnfencedSessionTransaction) never reaches COMMIT while
\* some runtime holds a live lease on the session.
UnfencedExcludesOwner ==
    \A s \in Session : tx[s] # NoTx /\ tx[s].kind = "unfenced" => ~Live(s)

\* A lease that expired or was released never becomes live again, whatever delayed renew
\* or release calls arrive: a runtime that found its lease gone need never look again.
DeadGenerationStaysDead ==
    [][\A s \in Session :
          lease[s] # NoLease /\ ~Live(s) /\ lease'[s] # NoLease /\ lease'[s].expiresAt > now'
             => lease'[s].gen # lease[s].gen]_vars

\* The store keeps the promise of SessionOwnership.
Ownership == INSTANCE SessionOwnership WITH
    owner <- [s \in Session |-> IF lease[s] = NoLease THEN 0 ELSE lease[s].gen],
    live <- [s \in Session |-> Live(s)],
    issued <- lastGen,
    written <- written

OwnershipSpec == Ownership!Spec
=============================================================================
