--------------------------- MODULE SessionRecovery --------------------------
(***************************************************************************)
(* The recovery workers over the lease store: the coordinator, which       *)
(* re-attaches sessions whose runtime died, and the reaper, which ends the *)
(* ones nobody can come back to (packages/runtime/src/session-recovery.ts).*)
(*                                                                         *)
(* A worker pages through the expired, unacknowledged leases and handles   *)
(* one candidate at a time.  Between any two of its awaits the rest of the *)
(* system moves: other workers, the runtime that owned the session (which  *)
(* may be alive and merely slow), retention, the clock.  A worker's process*)
(* may also die; its lease then runs out by itself.                        *)
(*                                                                         *)
(* Store transactions are one step here: SessionLease shows what their row *)
(* locks guarantee.                                                        *)
(***************************************************************************)
EXTENDS SessionLease, Sequences, SequencesExt

CONSTANTS
    Coordinator,   \* the SessionRecoveryCoordinator workers
    Reaper,        \* the SessionReaper workers
    HolderOf,      \* the lease holder id each worker's runtime uses
    PageSize,      \* pageSize: candidates per poll
    OwnerGens,     \* bound: leases the ordinary runtimes may take
    MaxFaults      \* bound: worker crashes and failed calls

Worker == Coordinator \cup Reaper

ASSUME SessionOrder == Session \subseteq Nat   \* the text order of session ids
ASSUME WorkerAssumption ==
    /\ Coordinator \cap Reaper = {}
    /\ HolderOf \in [Worker -> Holder]
    /\ PageSize \in Nat \ {0}
    /\ OwnerGens \in Nat /\ MaxFaults \in Nat

VARIABLES
    transport,  \* hasReconnectableTransport(s)
    recent,     \* the session was active less than recoveryGraceMs ago
    worker,     \* worker[w]: where the worker is in its poll
    released,   \* generations whose owner has called release; it does so once
    faults      \* crashes and failed calls so far

recoveryVars == <<transport, recent, worker, released, faults>>
allVars == <<now, session, lease, lastGen, granted, tx, written,
             transport, recent, worker, released, faults>>

Candidate == [session : Session, fence : Nat, gen : Nat]
NoCandidate == [session |-> 0]
NoGrant == [fence |-> 0]
NoCursor == <<0, 0>>

\* A worker between polls.
Idle == [pc |-> "idle", page |-> <<>>, cursor |-> NoCursor, cand |-> NoCandidate, grant |-> NoGrant]

WorkerState ==
    [pc : {"idle", "next", "transport", "grace", "attach", "recover", "renew", "attached", "ended",
           "detach", "ack"},
     page : Seq(Candidate),
     cursor : Nat \X Nat,
     cand : Candidate \cup {NoCandidate},
     grant : Grant \cup {NoGrant}]

\* A worker is at one of its awaits and holds a page, a candidate and a grant of
\* the store.
RecoveryTypeOK ==
    /\ TypeOK
    /\ transport \in [Session -> BOOLEAN]
    /\ recent \in [Session -> BOOLEAN]
    /\ released \in SUBSET Nat
    /\ faults \in 0..MaxFaults
    /\ worker \in [Worker -> WorkerState]

-----------------------------------------------------------------------------
(***************************************************************************)
(* The store operations recovery uses.                                     *)
(***************************************************************************)

\* runSessionTransaction succeeds for this lease.
CanWrite(g) == session[g.session] # "absent" /\ Holds(g.session, g) /\ Live(g.session)

\* One whole runSessionTransaction: a write, or the terminal write of the session.
\* Both record activity.  The history variable written serves SessionLease's own properties
\* and is not kept up here.
FencedTransaction(g, op) ==
    /\ CanWrite(g)
    /\ session' = IF op = "end" THEN [session EXCEPT ![g.session] = "terminal"] ELSE session
    /\ recent' = [recent EXCEPT ![g.session] = TRUE]
    /\ UNCHANGED <<now, lease, lastGen, granted, tx, written>>

\* The keyset order of a recovery page: (expires_at_ms, session_id).
Key(s) == <<lease[s].expiresAt, s>>
Before(k1, k2) == k1[1] < k2[1] \/ (k1[1] = k2[1] /\ k1[2] < k2[2])

\* A lease row that still needs recovery: expired, its generation not acknowledged.
NeedsRecovery(s) ==
    /\ lease[s] # NoLease
    /\ lease[s].expiresAt <= now
    /\ lease[s].ackFence # lease[s].fence
    /\ lease[s].ackGen # lease[s].gen

\* listRecoveryCandidates: the first rows after the cursor, in order, at most a page.  There
\* is one such page.
RecoveryPages(cursor) ==
    LET rows == {s \in Session :
                    NeedsRecovery(s) /\ (cursor = NoCursor \/ Before(cursor, Key(s)))}
    IN {q \in UNION {[1..n -> rows] : n \in 0..PageSize} :
           /\ \A i, j \in DOMAIN q : i < j => Before(Key(q[i]), Key(q[j]))
           /\ \A s \in rows \ Range(q) :
                 Len(q) = PageSize /\ \A i \in DOMAIN q : Before(Key(q[i]), Key(s))}

\* Bug: an acknowledgement matches the row by fence only.
AcknowledgesByFence(c) ==
    LET s == c.session IN
    /\ lease[s] # NoLease
    /\ lease[s].fence = c.fence
    /\ lease[s].expiresAt <= now

\* The row acknowledgeRecoveryCandidate updates: this exact generation, expired.
Acknowledges(c) ==
    LET s == c.session IN
    /\ lease[s] # NoLease
    /\ lease[s].fence = c.fence
    /\ lease[s].gen = c.gen
    /\ lease[s].expiresAt <= now

AcknowledgeRow(c) ==
    lease' = IF Acknowledges(c)
             THEN [lease EXCEPT ![c.session].ackGen = c.gen,
                                ![c.session].ackFence = lease[c.session].fence]
             ELSE lease

-----------------------------------------------------------------------------
(***************************************************************************)
(* One poll of a worker, await by await.                                   *)
(***************************************************************************)

Become(w, r) == worker' = [worker EXCEPT ![w] = r]
GoTo(w, pc) == Become(w, [worker[w] EXCEPT !.pc = pc])
StoreUnchanged == UNCHANGED <<now, session, lease, lastGen, granted, tx, written>>

\* The candidates of a page, as they are when it is read.
Candidates(rows) ==
    [i \in DOMAIN rows |-> [session |-> rows[i], fence |-> lease[rows[i]].fence,
                            gen |-> lease[rows[i]].gen]]

\* Bug: a full page does not move the cursor.
ListCandidatesNoCursor(w) ==
    /\ worker[w].pc = "idle"
    /\ \E rows \in RecoveryPages(worker[w].cursor) :
          Become(w, [Idle EXCEPT !.pc = IF rows = <<>> THEN "idle" ELSE "next",
                                 !.page = Candidates(rows)])
    /\ StoreUnchanged /\ UNCHANGED <<transport, recent, released, faults>>

\* List a page and remember where the next one starts (only a full page has a next).
ListCandidates(w) ==
    /\ worker[w].pc = "idle"
    /\ \E rows \in RecoveryPages(worker[w].cursor) :
          Become(w, [Idle EXCEPT !.pc = IF rows = <<>> THEN "idle" ELSE "next",
                                 !.page = Candidates(rows),
                                 !.cursor = IF Len(rows) = PageSize THEN Key(Last(rows))
                                            ELSE NoCursor])
    /\ StoreUnchanged /\ UNCHANGED <<transport, recent, released, faults>>

\* Read the stored session of the next candidate.  A missing or terminal session is
\* acknowledged; "grace" remembers that the session was active recently, which the reaper
\* cares about.
ReadCandidate(w) ==
    LET c == Head(worker[w].page) IN
    /\ worker[w].pc = "next"
    /\ worker[w].page # <<>>
    /\ Become(w, [worker[w] EXCEPT
          !.page = Tail(@), !.cand = c,
          !.pc = CASE session[c.session] # "active"          -> "ack"
                   [] w \in Reaper /\ recent[c.session]      -> "grace"
                   [] OTHER                                  -> "transport"])
    /\ StoreUnchanged /\ UNCHANGED <<transport, recent, released, faults>>

PollDone(w) ==
    /\ worker[w].pc = "next"
    /\ worker[w].page = <<>>
    /\ Become(w, [Idle EXCEPT !.cursor = worker[w].cursor])
    /\ StoreUnchanged /\ UNCHANGED <<transport, recent, released, faults>>

\* The coordinator wants a reconnectable transport, the reaper wants none.  The reaper
\* measures the grace period only now, from the activity it read before: it may have ended
\* in the meantime.
CheckTransport(w) ==
    LET wanted == transport[worker[w].cand.session] = (w \in Coordinator) IN
    /\ \/ worker[w].pc \in {"transport", "grace"} /\ GoTo(w, IF wanted THEN "attach" ELSE "next")
       \/ worker[w].pc = "grace" /\ GoTo(w, "next")
    /\ StoreUnchanged /\ UNCHANGED <<transport, recent, released, faults>>

\* attachSession: read the session again and acquire its lease.
AttachAcquire(w) ==
    LET s == worker[w].cand.session IN
    /\ worker[w].pc = "attach"
    /\ session[s] = "active"
    /\ Acquire(s, HolderOf[w])
    /\ Become(w, [worker[w] EXCEPT
          !.pc = "recover",
          !.grant = CHOOSE g \in granted' : g.gen = lastGen'])
    /\ UNCHANGED <<transport, recent, released, faults>>

\* ... which fails when the session ended or somebody holds it.  (The holder id is fresh
\* per runtime process, so a live lease here is never this worker's own.)
AttachRefused(w) ==
    LET s == worker[w].cand.session IN
    /\ worker[w].pc = "attach"
    /\ session[s] # "active" \/ Live(s)
    /\ GoTo(w, "next")
    /\ StoreUnchanged /\ UNCHANGED <<transport, recent, released, faults>>

\* The recovery transaction of attachSession, which refuses a session that ended.
AttachRecover(w) ==
    LET g == worker[w].grant IN
    /\ worker[w].pc = "recover"
    /\ session[g.session] = "active"
    /\ FencedTransaction(g, "write")
    /\ GoTo(w, "renew")
    /\ UNCHANGED <<transport, released, faults>>

\* The renewal that closes attachSession.
AttachRenew(w) ==
    /\ worker[w].pc = "renew"
    /\ Renew(worker[w].grant)
    /\ GoTo(w, "attached")
    /\ UNCHANGED <<transport, recent, released, faults>>

\* The lease ran out or the session ended under the attachment: give the lease back.
AttachLost(w) ==
    LET g == worker[w].grant IN
    /\ \/ worker[w].pc = "recover" /\ ~(CanWrite(g) /\ session[g.session] = "active")
       \/ worker[w].pc \in {"renew", "attached"} /\ ~CanWrite(g)
    /\ GoTo(w, "detach")
    /\ StoreUnchanged /\ UNCHANGED <<transport, recent, released, faults>>

\* The coordinator hands the attachment to the transport; from here on it is an ordinary
\* attached runtime.
Activate(w) ==
    /\ w \in Coordinator
    /\ worker[w].pc = "attached"
    /\ Become(w, [worker[w] EXCEPT !.pc = "next", !.cand = NoCandidate, !.grant = NoGrant])
    /\ StoreUnchanged /\ UNCHANGED <<transport, recent, released, faults>>

\* The reaper ends the session it attached.
ReapEnd(w) ==
    /\ w \in Reaper
    /\ worker[w].pc = "attached"
    /\ FencedTransaction(worker[w].grant, "end")
    /\ GoTo(w, "ended")
    /\ UNCHANGED <<transport, released, faults>>

\* The worker after detaching: when endSession did it the reaper goes on to acknowledge the
\* lease it held.
Detached(w) ==
    LET g == worker[w].grant IN
    IF worker[w].pc = "ended"
    THEN [worker[w] EXCEPT !.pc = "ack", !.grant = NoGrant,
                           !.cand = [session |-> g.session, fence |-> g.fence, gen |-> g.gen]]
    ELSE [worker[w] EXCEPT !.pc = "next", !.grant = NoGrant]

\* Detaching releases the lease.
DetachRelease(w) ==
    LET g == worker[w].grant IN
    /\ worker[w].pc \in {"detach", "ended"}
    /\ IF Holds(g.session, g) THEN Release(g, now) ELSE StoreUnchanged
    /\ Become(w, Detached(w))
    /\ UNCHANGED <<transport, recent, released, faults>>

\* acknowledgeRecoveryCandidate.
Acknowledge(w) ==
    /\ worker[w].pc = "ack"
    /\ AcknowledgeRow(worker[w].cand)
    /\ GoTo(w, "next")
    /\ UNCHANGED <<now, session, lastGen, granted, tx, written, transport, recent, released, faults>>

\* The worker's lease, if it holds one, runs out by itself; the bounded clock must leave
\* room for that.
LeaseCanRunOut(w) ==
    worker[w].grant # NoGrant /\ Holds(worker[w].grant.session, worker[w].grant) =>
        lease[worker[w].grant.session].expiresAt <= MaxTime

\* A call of the poll rejects: a store call, a host callback or the activation (which is
\* rolled back).  The candidate is skipped and the attachment, if there is one, detached.
PollFails(w) ==
    /\ faults < MaxFaults
    /\ faults' = faults + 1
    /\ \/ /\ worker[w].pc = "next" /\ worker[w].page # <<>>
          /\ Become(w, [worker[w] EXCEPT !.page = Tail(@)])
       \/ worker[w].pc \in {"transport", "grace", "attach", "ack"} /\ GoTo(w, "next")
       \/ worker[w].pc \in {"recover", "renew", "attached"} /\ GoTo(w, "detach")
    /\ StoreUnchanged /\ UNCHANGED <<transport, recent, released>>

\* leases.release rejects or is not answered in time: detaching goes on without it.
ReleaseFails(w) ==
    /\ faults < MaxFaults
    /\ faults' = faults + 1
    /\ worker[w].pc \in {"detach", "ended"}
    /\ LeaseCanRunOut(w)
    /\ Become(w, Detached(w))
    /\ StoreUnchanged /\ UNCHANGED <<transport, recent, released>>

\* The worker's process dies and restarts.
WorkerCrash(w) ==
    /\ faults < MaxFaults
    /\ worker[w] # Idle
    /\ LeaseCanRunOut(w)
    /\ faults' = faults + 1
    /\ Become(w, Idle)
    /\ StoreUnchanged /\ UNCHANGED <<transport, recent, released>>

WorkerFault(w) == PollFails(w) \/ ReleaseFails(w) \/ WorkerCrash(w)

WorkerStep(w) ==
    \/ ListCandidates(w) \/ ReadCandidate(w) \/ PollDone(w) \/ CheckTransport(w)
    \/ AttachAcquire(w) \/ AttachRefused(w) \/ AttachRecover(w) \/ AttachRenew(w)
    \/ AttachLost(w) \/ Activate(w) \/ ReapEnd(w) \/ DetachRelease(w) \/ Acknowledge(w)

-----------------------------------------------------------------------------
(***************************************************************************)
(* Everything else: ordinary runtimes, retention, transports, time.        *)
(***************************************************************************)

\* Leases the workers are using; the others belong to runtimes, alive or not.
OwnerGrants == granted \ {worker[w].grant : w \in Worker}

\* An ordinary runtime creates or attaches a session.
OwnerTakes(s, h) ==
    /\ lastGen < OwnerGens
    /\ now + Ttl <= MaxTime
    /\ CreateSessionWithLease(s, h) \/ Acquire(s, h)
    /\ recent' = [recent EXCEPT ![s] = TRUE]
    /\ UNCHANGED <<transport, worker, released, faults>>

OwnerRenews(g) ==
    /\ now + Ttl <= MaxTime
    /\ Renew(g)
    /\ UNCHANGED recoveryVars

OwnerWrites(g, op) ==
    /\ FencedTransaction(g, op)
    /\ UNCHANGED <<transport, worker, released, faults>>

OwnerReleases(g) ==
    /\ g.gen \notin released
    /\ \E at \in g.since..now : Release(g, at)
    /\ released' = released \cup {g.gen}
    /\ UNCHANGED <<transport, recent, worker, faults>>

\* The retention job deletes a terminal session with its lease row.
RetentionDelete(s) ==
    /\ session[s] = "terminal"
    /\ session' = [session EXCEPT ![s] = "absent"]
    /\ lease' = [lease EXCEPT ![s] = NoLease]
    /\ UNCHANGED <<now, lastGen, granted, tx, written>>
    /\ UNCHANGED recoveryVars

TransportChanges(s) ==
    /\ transport' = [transport EXCEPT ![s] = ~@]
    /\ StoreUnchanged /\ UNCHANGED <<recent, worker, released, faults>>

GraceElapses(s) ==
    /\ recent[s]
    /\ recent' = [recent EXCEPT ![s] = FALSE]
    /\ StoreUnchanged /\ UNCHANGED <<transport, worker, released, faults>>

\* Time only matters while some lease is running.
TimePasses ==
    /\ \E s \in Session : Live(s)
    /\ Tick
    /\ UNCHANGED recoveryVars

RecoveryInit ==
    /\ Init
    /\ transport = [s \in Session |-> FALSE]
    /\ recent = [s \in Session |-> FALSE]
    /\ worker = [w \in Worker |-> Idle]
    /\ released = {}
    /\ faults = 0

RecoveryNext ==
    \/ \E w \in Worker : WorkerStep(w) \/ WorkerFault(w)
    \/ \E s \in Session, h \in Holder : h \notin {HolderOf[w] : w \in Worker} /\ OwnerTakes(s, h)
    \/ \E g \in OwnerGrants : OwnerRenews(g) \/ OwnerReleases(g)
    \/ \E g \in OwnerGrants, op \in {"write", "end"} : OwnerWrites(g, op)
    \/ \E s \in Session : RetentionDelete(s) \/ TransportChanges(s) \/ GraceElapses(s)
    \/ TimePasses

\* The workers' timers keep firing, time passes, and a grace period ends.
RecoveryFairness ==
    /\ \A w \in Worker : WF_allVars(WorkerStep(w))
    /\ \A s \in Session : WF_allVars(GraceElapses(s))
    /\ WF_allVars(TimePasses)

RecoverySpec == RecoveryInit /\ [][RecoveryNext]_allVars
FairRecoverySpec == RecoverySpec /\ RecoveryFairness

-----------------------------------------------------------------------------

\* A session that is still active is never taken off the recovery list: the generation in
\* its lease row is only acknowledged once the session is terminal.  A candidate read
\* before the session was deleted and created again must not acknowledge the new one.
NoLostSession ==
    \A s \in Session : lease[s] # NoLease /\ session[s] = "active" =>
        lease[s].ackFence # lease[s].fence /\ lease[s].ackGen # lease[s].gen

\* A session left behind by its runtime, with no transport to come back on: its lease has
\* run out, or the reaper holds it.
Orphaned(s) ==
    /\ session[s] = "active"
    /\ ~transport[s]
    /\ lease[s] # NoLease
    /\ ~Live(s) \/ lease[s].holder \in {HolderOf[w] : w \in Reaper}

\* No session stays orphaned for ever: it ends, or somebody comes back for it.  This needs
\* every page to be reached whatever candidates are left on the list.
OrphansEnd == \A s \in Session : []<>~Orphaned(s)
=============================================================================
