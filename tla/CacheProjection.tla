--------------------------- MODULE CacheProjection --------------------------
(***************************************************************************)
(* How a session of the composite store reaches its Redis projection and   *)
(* leaves it again: outbox workers that deliver committed changes          *)
(* (packages/dal-postgres/src/outbox.ts), the scripts of the projector     *)
(* (packages/dal-redis/src/cache-projector.ts), and the retention job,     *)
(* which purges the projection before it deletes the session and restores  *)
(* it when the deletion fails (packages/dal-postgres/src/maintenance.ts,   *)
(* packages/dal-composite/src/index.ts).                                   *)
(*                                                                         *)
(* One session id, used by several incarnations, and one child record that *)
(* stands for the turns and tool calls.  A Redis script and a PostgreSQL   *)
(* statement are one step each.  Fences are left out: they only order      *)
(* events of equal version, whose contents are the same.                   *)
(***************************************************************************)
EXTENDS Naturals, FiniteSets

CONSTANTS
    Worker,     \* outbox deliveries under way: a worker with a batch of n events is n of them
    Job,        \* retention jobs
    MaxInc,     \* bound: incarnations of the session id
    MaxVer,     \* bound: versions of the session in one incarnation
    MaxChild,   \* bound: versions of its child
    MaxPurge,   \* bound: purge tokens drawn
    MaxDrops    \* bound: PostgreSQL connections lost

None == "none"

ASSUME ProjectionBounds ==
    /\ Worker \cap Job = {} /\ None \notin Worker \cup Job
    /\ MaxInc \in Nat /\ MaxVer \in Nat \ {0} /\ MaxChild \in Nat /\ MaxPurge \in Nat /\ MaxDrops \in Nat

Actor == Worker \cup Job

VARIABLES
    row,        \* the row of tvic_sessions and the version of its child
    lastInc,    \* tvic_session_incarnation_seq
    lock,       \* the actor holding the session row FOR UPDATE
    outbox,     \* tvic_outbox
    meta,       \* the session's cache_meta; the cached session is there unless retired
    child,      \* the cached child with its cache_meta
    lastToken,  \* purge tokens are fresh
    act,        \* act[a]: what each actor is doing
    drops       \* connections lost so far

vars == <<row, lastInc, lock, outbox, meta, child, lastToken, act, drops>>

NoRow == [inc |-> 0, status |-> "absent", ver |-> 0, child |-> 0]
NoMeta == [inc |-> 0, ver |-> 0, retired |-> FALSE, token |-> 0, complete |-> FALSE]
NoChild == [inc |-> 0, ver |-> 0]

Event == [agg : {"session"}, inc : 1..MaxInc, ver : 1..MaxVer]
         \cup [agg : {"child"}, inc : 1..MaxInc, ver : 1..MaxChild]
NoEvent == [agg |-> None]

\* An outbox row.  by is claimed_by; fresh: claim_expires_at has not passed.
NotQueued == [state |-> "none", by |-> None, fresh |-> FALSE]
Queued == [state |-> "queued", by |-> None, fresh |-> FALSE]

\* retire: purging before a deletion, otherwise restoring; again: the second apply of a
\* delivery; conn: the actor's database connection is alive; snap: the records it read.
Idle == [pc |-> "idle", ev |-> NoEvent, inc |-> 0, token |-> 0, retire |-> FALSE, again |-> FALSE,
         conn |-> FALSE, snap |-> [ver |-> 0, child |-> 0]]

Row ==
    [inc : 1..MaxInc, status : {"active", "terminal"}, ver : 1..MaxVer, child : 0..MaxChild]
OutboxRow == [state : {"none", "queued", "done"}, by : Worker \cup {None}, fresh : BOOLEAN]
OpenMeta ==
    [inc : 1..MaxInc, ver : 1..MaxVer, retired : {FALSE}, token : {0}, complete : BOOLEAN]
Tombstone ==
    [inc : 1..MaxInc, ver : 1..MaxVer, retired : {TRUE}, token : 1..MaxPurge, complete : BOOLEAN]
Snapshot == [ver : 0..MaxVer, child : 0..MaxChild]
Activity ==
    [pc : {"idle", "apply", "restore", "token", "resume", "begin", "purge", "complete",
           "delete", "snapshot", "child", "session", "commit", "mark", "unclaim"},
     ev : Event \cup {NoEvent}, inc : 0..MaxInc, token : 0..MaxPurge, retire : BOOLEAN,
     again : BOOLEAN, conn : BOOLEAN, snap : Snapshot]

\* The session row, the outbox, the Redis records and every delivery and job stay
\* within their types.
ProjectionTypeOK ==
    /\ row \in Row \cup {NoRow}
    /\ lastInc \in 0..MaxInc
    /\ lock \in Actor \cup {None}
    /\ outbox \in [Event -> OutboxRow]
    /\ meta \in OpenMeta \cup Tombstone \cup {NoMeta}
    /\ child \in [inc : 1..MaxInc, ver : 1..MaxChild] \cup {NoChild}
    /\ lastToken \in 0..MaxPurge
    /\ drops \in 0..MaxDrops
    /\ act \in [Actor -> Activity]

-----------------------------------------------------------------------------
(***************************************************************************)
(* PostgreSQL: the session and its outbox.                                 *)
(***************************************************************************)

\* appendOutbox of the records a transaction wrote.
Enqueued(events) == [e \in Event |-> IF e \in events THEN Queued ELSE outbox[e]]

\* The session id is (re)used: a fresh incarnation.
CreateSession ==
    /\ row = NoRow
    /\ lastInc < MaxInc
    /\ lastInc' = lastInc + 1
    /\ row' = [inc |-> lastInc', status |-> "active", ver |-> 1, child |-> 0]
    /\ outbox' = Enqueued({[agg |-> "session", inc |-> lastInc', ver |-> 1]})
    /\ UNCHANGED <<lock, meta, child, lastToken, act, drops>>

\* A transaction of the owner changes the session and may end it, or changes its child; one
\* that does both is the two in turn.
WriteSession(status) ==
    /\ lock = None
    /\ row.status = "active"
    /\ row.ver < MaxVer
    /\ row' = [row EXCEPT !.status = status, !.ver = @ + 1]
    /\ outbox' = Enqueued({[agg |-> "session", inc |-> row.inc, ver |-> row.ver + 1]})
    /\ UNCHANGED <<lastInc, lock, meta, child, lastToken, act, drops>>

WriteChild ==
    /\ lock = None
    /\ row.status = "active"
    /\ row.child < MaxChild
    /\ row' = [row EXCEPT !.child = @ + 1]
    /\ outbox' = Enqueued({[agg |-> "child", inc |-> row.inc, ver |-> row.child + 1]})
    /\ UNCHANGED <<lastInc, lock, meta, child, lastToken, act, drops>>

\* claim_expires_at passes.
ClaimExpires(e) ==
    /\ outbox[e].fresh
    /\ outbox' = [outbox EXCEPT ![e].fresh = FALSE]
    /\ UNCHANGED <<row, lastInc, lock, meta, child, lastToken, act, drops>>

\* The retention job deletes a delivered event that is old enough.
AgeOut(e) ==
    /\ outbox[e].state = "done"
    /\ outbox' = [outbox EXCEPT ![e] = NotQueued]
    /\ UNCHANGED <<row, lastInc, lock, meta, child, lastToken, act, drops>>

Become(a, r) == act' = [act EXCEPT ![a] = r]
GoTo(a, pc) == Become(a, [act[a] EXCEPT !.pc = pc])
StoreUnchanged == UNCHANGED <<row, lastInc, outbox, lastToken>>
RedisUnchanged == UNCHANGED <<meta, child>>

-----------------------------------------------------------------------------
(***************************************************************************)
(* An outbox worker: claim, deliver, mark.                                 *)
(***************************************************************************)

ClaimEvent(w, e) ==
    /\ act[w].pc = "idle"
    /\ outbox[e].state = "queued"
    /\ ~outbox[e].fresh
    /\ outbox' = [outbox EXCEPT ![e].by = w, ![e].fresh = TRUE]
    /\ Become(w, [Idle EXCEPT !.pc = "apply", !.ev = e])
    /\ UNCHANGED <<row, lastInc, lock, lastToken, drops>> /\ RedisUnchanged

\* The lifetime of the event is being retired.
Pending(e) == meta.retired /\ meta.inc = e.inc

\* Bug: an event of the same incarnation always replaces the cached record.
SupersededByIncarnation(e) ==
    \/ meta.inc > e.inc
    \/ e.agg = "child" /\ child.inc > e.inc

\* The cache already holds this version or a later one, or a later incarnation.
Superseded(e) ==
    \/ meta.inc > e.inc
    \/ e.agg = "session" /\ meta.inc = e.inc /\ meta.ver >= e.ver
    \/ e.agg = "child" /\ (child.inc > e.inc \/ (child.inc = e.inc /\ child.ver >= e.ver))

\* The script of apply.  A pending retirement is recovered once; the second time the
\* delivery fails.
Apply(w) ==
    LET e == act[w].ev IN
    /\ act[w].pc = "apply"
    /\ IF Pending(e)
       THEN /\ GoTo(w, IF act[w].again THEN "unclaim" ELSE "restore")
            /\ RedisUnchanged
       ELSE /\ GoTo(w, "mark")
            /\ meta' = IF e.agg = "session" /\ ~Superseded(e)
                       THEN [NoMeta EXCEPT !.inc = e.inc, !.ver = e.ver] ELSE meta
            /\ child' = IF e.agg = "child" /\ ~Superseded(e)
                        THEN [inc |-> e.inc, ver |-> e.ver] ELSE child
    /\ UNCHANGED <<lock, drops>> /\ StoreUnchanged

\* Redis fails before the script ran.
ApplyFails(w) ==
    /\ act[w].pc = "apply"
    /\ GoTo(w, "unclaim")
    /\ UNCHANGED <<lock, drops>> /\ StoreUnchanged /\ RedisUnchanged

\* delivered_at is set, or the claim is given up, if the row is still this worker's.
MarkEvent(w) ==
    LET e == act[w].ev IN
    /\ act[w].pc \in {"mark", "unclaim"}
    /\ outbox' = IF outbox[e].by # w THEN outbox
                 ELSE [outbox EXCEPT ![e] =
                          [state |-> IF act[w].pc = "mark" THEN "done" ELSE outbox[e].state,
                           by |-> None, fresh |-> FALSE]]
    /\ Become(w, Idle)
    /\ UNCHANGED <<row, lastInc, lock, lastToken, drops>> /\ RedisUnchanged

-----------------------------------------------------------------------------
(***************************************************************************)
(* The retention job: purge, then delete, under the row lock.              *)
(***************************************************************************)

\* The candidate is locked: a terminal session without outbox rows.
BeginRetention(j) ==
    /\ act[j].pc = "idle"
    /\ lock = None
    /\ row.status = "terminal"
    /\ \A e \in Event : outbox[e].state = "none"
    /\ lastToken < MaxPurge
    /\ lastToken' = lastToken + 1
    /\ lock' = j
    /\ Become(j, [Idle EXCEPT !.pc = "begin", !.inc = row.inc, !.token = lastToken',
                              !.retire = TRUE, !.conn = TRUE,
                              !.snap = [ver |-> row.ver, child |-> row.child]])
    /\ UNCHANGED <<row, lastInc, outbox, drops>> /\ RedisUnchanged

\* BEGIN_SESSION_CACHE_PURGE: the cached session becomes a tombstone, unless a later
\* incarnation is cached already.
BeginPurge(j) ==
    /\ act[j].pc = "begin"
    /\ IF meta.inc > act[j].inc
       THEN GoTo(j, "delete") /\ UNCHANGED meta
       ELSE /\ GoTo(j, "purge")
            /\ meta' = [inc |-> act[j].inc, ver |-> act[j].snap.ver, retired |-> TRUE,
                        token |-> act[j].token, complete |-> FALSE]
    /\ UNCHANGED <<lock, child, drops>> /\ StoreUnchanged

\* PURGE_SESSION_CHILDREN_BATCH, repeated until a pass deletes nothing.
PurgeChildren(a) ==
    /\ act[a].pc = "purge"
    /\ IF child # NoChild /\ child.inc <= act[a].inc
       THEN child' = NoChild /\ UNCHANGED act
       ELSE GoTo(a, "complete") /\ UNCHANGED child
    /\ UNCHANGED <<lock, meta, drops>> /\ StoreUnchanged

\* The tombstone is the one of this purge.
Owns(a) == meta.inc = act[a].inc /\ meta.retired /\ meta.token = act[a].token

\* COMPLETE_SESSION_CACHE_PURGE.  A restore gives up when the tombstone is not its own, a
\* retirement goes on either way.
CompletePurge(a) ==
    /\ act[a].pc = "complete"
    /\ meta' = IF Owns(a) THEN [meta EXCEPT !.complete = TRUE] ELSE meta
    /\ GoTo(a, IF act[a].retire THEN "delete" ELSE IF Owns(a) THEN "snapshot" ELSE "commit")
    /\ UNCHANGED <<lock, child, drops>> /\ StoreUnchanged

\* DELETE and COMMIT.  reported: the job learns of the commit; if it does not, it restores.
DeleteSession(j, reported) ==
    /\ act[j].pc = "delete"
    /\ act[j].conn
    /\ row' = NoRow
    /\ lock' = None
    /\ Become(j, IF reported THEN Idle
                 ELSE [act[j] EXCEPT !.pc = "restore", !.retire = FALSE, !.conn = FALSE])
    /\ UNCHANGED <<lastInc, outbox, lastToken, drops>> /\ RedisUnchanged

\* A step of the purge fails, or the connection turns out to be gone: the transaction is
\* rolled back and afterSessionDeleteFailure runs.
RetentionFails(j) ==
    /\ act[j].retire
    /\ act[j].pc \in {"begin", "purge", "complete", "delete"}
    /\ lock' = IF lock = j THEN None ELSE lock
    /\ Become(j, [act[j] EXCEPT !.pc = "restore", !.retire = FALSE, !.conn = FALSE])
    /\ UNCHANGED drops /\ StoreUnchanged /\ RedisUnchanged

-----------------------------------------------------------------------------
(***************************************************************************)
(* #restoreCurrentSessionProjection, for a worker that met a tombstone and *)
(* for a job whose deletion failed.                                        *)
(***************************************************************************)

\* What follows when the restore is over: the worker applies its event again (or drops
\* one of an incarnation that is gone), the job is done.
Restored(a, stale) ==
    IF a \in Job THEN Idle
    ELSE [Idle EXCEPT !.ev = act[a].ev, !.again = TRUE, !.pc = IF stale THEN "mark" ELSE "apply"]

RestoreFailed(a) == IF a \in Job THEN Idle ELSE [Idle EXCEPT !.ev = act[a].ev, !.pc = "unclaim"]

\* The session row is locked and read.  It must be the incarnation expected.
LockForRestore(a) ==
    LET expected == IF a \in Job THEN act[a].inc ELSE act[a].ev.inc IN
    /\ act[a].pc = "restore"
    /\ lock = None
    /\ IF row.inc # expected
       THEN Become(a, Restored(a, TRUE)) /\ UNCHANGED lock
       ELSE /\ lock' = a
            /\ Become(a, [act[a] EXCEPT !.pc = IF a \in Job THEN "resume" ELSE "token",
                                        !.inc = expected, !.conn = TRUE])
    /\ UNCHANGED drops /\ StoreUnchanged /\ RedisUnchanged

\* getSessionPurgeToken: the worker learns whose purge is pending.  Metadata that apply
\* wrote carries no retirement marker and is refused; metadata of a finished restore does.
ReadToken(w) ==
    /\ act[w].pc = "token"
    /\ IF meta # NoMeta /\ ~meta.retired /\ ~meta.complete
       THEN Become(w, RestoreFailed(w)) /\ lock' = (IF lock = w THEN None ELSE lock)
       ELSE /\ IF meta.inc = act[w].inc /\ meta.retired
               THEN Become(w, [act[w] EXCEPT !.pc = "resume", !.token = meta.token])
               ELSE GoTo(w, "commit")
            /\ UNCHANGED lock
    /\ UNCHANGED drops /\ StoreUnchanged /\ RedisUnchanged

\* RESUME_SESSION_CACHE_PURGE.
ResumePurge(a) ==
    /\ act[a].pc = "resume"
    /\ GoTo(a, IF Owns(a) THEN "purge" ELSE "commit")
    /\ UNCHANGED <<lock, drops>> /\ StoreUnchanged /\ RedisUnchanged

\* Bug: only the session itself is read back.
ReadSnapshotWithoutChildren(a) ==
    /\ act[a].pc = "snapshot"
    /\ act[a].conn
    /\ Become(a, [act[a] EXCEPT !.pc = "child", !.snap = [ver |-> row.ver, child |-> 0]])
    /\ UNCHANGED <<lock, drops>> /\ StoreUnchanged /\ RedisUnchanged

\* The current records are read over the connection that holds the lock.
ReadSnapshot(a) ==
    /\ act[a].pc = "snapshot"
    /\ act[a].conn
    /\ Become(a, [act[a] EXCEPT !.pc = "child", !.snap = [ver |-> row.ver, child |-> row.child]])
    /\ UNCHANGED <<lock, drops>> /\ StoreUnchanged /\ RedisUnchanged

\* RESTORE_CACHE_CHILD.
RestoreChild(a) ==
    LET v == act[a].snap.child IN
    /\ act[a].pc = "child"
    /\ child' = IF /\ v > 0 /\ Owns(a) /\ meta.complete
                   /\ ~(child.inc > act[a].inc \/ (child.inc = act[a].inc /\ child.ver >= v))
                THEN [inc |-> act[a].inc, ver |-> v] ELSE child
    /\ GoTo(a, "session")
    /\ UNCHANGED <<lock, meta, drops>> /\ StoreUnchanged

\* Bug: any completed tombstone of the incarnation is reopened.
RestoreSessionOfAnyPurge(a) ==
    /\ act[a].pc = "session"
    /\ meta' = IF meta.inc = act[a].inc /\ meta.retired /\ meta.complete
               THEN [meta EXCEPT !.ver = act[a].snap.ver, !.retired = FALSE, !.token = 0] ELSE meta
    /\ GoTo(a, "commit")
    /\ UNCHANGED <<lock, child, drops>> /\ StoreUnchanged

\* RESTORE_SESSION_CACHE: the session is written back and its lifetime reopened.
RestoreSession(a) ==
    /\ act[a].pc = "session"
    /\ meta' = IF Owns(a) /\ meta.complete
               THEN [meta EXCEPT !.ver = act[a].snap.ver, !.retired = FALSE, !.token = 0] ELSE meta
    /\ GoTo(a, "commit")
    /\ UNCHANGED <<lock, child, drops>> /\ StoreUnchanged

\* COMMIT of the restore, which fails without a connection.
CommitRestore(a) ==
    /\ act[a].pc = "commit"
    /\ lock' = IF lock = a THEN None ELSE lock
    /\ Become(a, IF act[a].conn THEN Restored(a, FALSE) ELSE RestoreFailed(a))
    /\ UNCHANGED drops /\ StoreUnchanged /\ RedisUnchanged

\* Redis or PostgreSQL fails during the restore.
RestoreFails(a) ==
    /\ ~act[a].retire
    /\ act[a].pc \in {"restore", "token", "resume", "purge", "complete", "snapshot", "child", "session"}
    /\ lock' = IF lock = a THEN None ELSE lock
    /\ Become(a, RestoreFailed(a))
    /\ UNCHANGED drops /\ StoreUnchanged /\ RedisUnchanged

-----------------------------------------------------------------------------

\* The connection of the lock holder is lost: PostgreSQL rolls back and frees the row,
\* while the actor goes on with its Redis calls until it needs the connection.
ConnectionLost(a) ==
    /\ lock = a
    /\ drops < MaxDrops
    /\ drops' = drops + 1
    /\ lock' = None
    /\ Become(a, [act[a] EXCEPT !.conn = FALSE])
    /\ StoreUnchanged /\ RedisUnchanged

\* The actor's process dies.  Claims run out by themselves.
Crash(a) ==
    /\ act[a] # Idle
    /\ lock' = IF lock = a THEN None ELSE lock
    /\ Become(a, Idle)
    /\ UNCHANGED drops /\ StoreUnchanged /\ RedisUnchanged

Init ==
    /\ row = NoRow /\ lastInc = 0 /\ lock = None
    /\ outbox = [e \in Event |-> NotQueued]
    /\ meta = NoMeta /\ child = NoChild
    /\ lastToken = 0 /\ drops = 0
    /\ act = [a \in Actor |-> Idle]

DatabaseStep ==
    \/ CreateSession
    \/ WriteChild \/ \E status \in {"active", "terminal"} : WriteSession(status)
    \/ \E e \in Event : ClaimExpires(e) \/ AgeOut(e)

WorkerStep(w) ==
    \/ \E e \in Event : ClaimEvent(w, e)
    \/ Apply(w) \/ ApplyFails(w) \/ MarkEvent(w) \/ ReadToken(w)

JobStep(j) ==
    \/ BeginRetention(j) \/ BeginPurge(j) \/ RetentionFails(j)
    \/ \E reported \in BOOLEAN : DeleteSession(j, reported)

RestoreStep(a) ==
    \/ LockForRestore(a) \/ ResumePurge(a) \/ PurgeChildren(a) \/ CompletePurge(a)
    \/ ReadSnapshot(a) \/ RestoreChild(a) \/ RestoreSession(a) \/ CommitRestore(a) \/ RestoreFails(a)

Next ==
    \/ DatabaseStep
    \/ \E w \in Worker : WorkerStep(w)
    \/ \E j \in Job : JobStep(j)
    \/ \E a \in Actor : RestoreStep(a) \/ ConnectionLost(a) \/ Crash(a)

Spec == Init /\ [][Next]_vars

-----------------------------------------------------------------------------

\* Redis holds the session or its child only while PostgreSQL holds that incarnation:
\* whatever deliveries, restores and purges are still under way when a session is deleted,
\* none of them brings it back.
DeletedStaysPurged ==
    /\ meta # NoMeta /\ ~meta.retired => row.inc = meta.inc
    /\ child # NoChild => row.inc = child.inc

\* The cached session never goes back to an earlier version or incarnation, and the cached
\* child is never replaced by an earlier one, in whatever order events are delivered.
NeverGoesBack ==
    [][/\ meta'.inc > meta.inc \/ (meta'.inc = meta.inc /\ meta'.ver >= meta.ver)
       /\ child # NoChild /\ child' # NoChild =>
             child'.inc > child.inc \/ (child'.inc = child.inc /\ child'.ver >= child.ver)]_vars

Delivered == \A e \in Event : outbox[e].state # "queued"

\* Once its events are delivered, a session whose lifetime is open is projected in full,
\* child included, also after a purge that was given up.  (A connection lost in the middle
\* of a purge is excepted: the job may go on deleting children a worker has just restored.)
ProjectedInFull ==
    drops = 0 /\ row # NoRow /\ Delivered /\ meta.inc = row.inc /\ ~meta.retired =>
        meta.ver = row.ver /\ (row.child > 0 => child = [inc |-> row.inc, ver |-> row.child])
=============================================================================
