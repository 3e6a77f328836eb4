-------------------------- MODULE ToolIdempotency ---------------------------
(***************************************************************************)
(* Tool calls that carry the same idempotency key, executed by runtimes    *)
(* that take the session over from one another: executeTool and the        *)
(* idempotency record (packages/tools/src/index.ts,                        *)
(* packages/dal-postgres/src/idempotency.ts), the tool-call record         *)
(* (packages/runtime/src/tool-lifecycle.ts) and its recovery when a        *)
(* session is attached (tool-recovery.ts, runtime-attachment.ts).          *)
(*                                                                         *)
(* Who owns the session is what SessionOwnership promises, for one         *)
(* session: gen and live.  All calls here make the same request; what the  *)
(* record does for different requests (a conflict) is not modelled, nor    *)
(* are the retries inside one call, which reuse its claim.                 *)
(***************************************************************************)
EXTENDS Naturals, FiniteSets

CONSTANTS
    Proc,           \* runtime processes
    Call,           \* tool call ids, all with the same key and request
    StoreMayFail,   \* whether a store call may fail for reasons of its own
    MaxGen,         \* bound: leases granted
    MaxEpoch        \* bound: times the idempotency record expires

ASSUME ToolBounds == StoreMayFail \in BOOLEAN /\ MaxGen \in Nat /\ MaxEpoch \in Nat

VARIABLES
    gen,        \* generation of the newest lease, 0 if there was none
    live,       \* that lease has not lapsed
    att,        \* att[p]: generation p is attached with, 0 if it is not
    attaching,  \* attaching[p]: the attachSession p is in the middle of
    row,        \* the idempotency record of the key
    epoch,      \* history: how many times the record has expired
    stored,     \* stored[c]: the tool-call record
    call        \* call[c]: where the runtime is with the call

vars == <<gen, live, att, attaching, row, epoch, stored, call>>
ownership == <<gen, live, att, attaching>>

NoGen == 0
NoCall == "none"
NoRow == [status |-> "none", owner |-> NoCall, gen |-> NoGen]

\* A call not made yet.  lease: the generation its pipeline captured; claimEpoch: the
\* lifetime of the record it claimed; ran: its executor was started; unrecorded: it was
\* reported with resultRecordFailed.
New == [pc |-> "new", proc |-> NoCall, lease |-> NoGen, override |-> FALSE, claimEpoch |-> 0,
        ran |-> FALSE, result |-> "none", unrecorded |-> FALSE]

\* gen of a record: the generation it was started under, NoGen for an unfenced start.
NoRecord == [status |-> "none", gen |-> NoGen]

NotAttaching == [gen |-> NoGen, pc |-> "none", prepared |-> {}, todo |-> {}, replay |-> {}]

AttachState ==
    [gen : 0..MaxGen, pc : {"none", "list", "prepare"},
     prepared : SUBSET Call, todo : SUBSET Call, replay : SUBSET Call]

KeyRecord ==
    [status : {"none", "claimed", "succeeded", "failed"}, owner : Call \cup {NoCall}, gen : 0..MaxGen]

CallRecord == [status : {"none", "running", "succeeded", "failed"}, gen : 0..MaxGen]

CallState ==
    [pc : {"new", "started", "claimed", "running", "release", "complete", "finish", "done"},
     proc : Proc \cup {NoCall}, lease : 0..MaxGen, override : BOOLEAN, claimEpoch : 0..MaxEpoch,
     ran : BOOLEAN, result : {"none", "succeeded", "failed"}, unrecorded : BOOLEAN]

\* The idempotency record, the tool-call records and the attachments stay within
\* their types.
ToolTypeOK ==
    /\ gen \in 0..MaxGen
    /\ live \in BOOLEAN
    /\ att \in [Proc -> 0..MaxGen]
    /\ attaching \in [Proc -> AttachState]
    /\ row \in KeyRecord
    /\ epoch \in 0..MaxEpoch
    /\ stored \in [Call -> CallRecord]
    /\ call \in [Call -> CallState]

-----------------------------------------------------------------------------
(***************************************************************************)
(* Leases and the transactions they fence.                                 *)
(***************************************************************************)

\* assertLease
Fenced(g) == live /\ g = gen

\* Bug: an unfenced transaction does not look at the lease row.
UnfencedUnchecked == TRUE

\* assertNoActiveLease
Unfenced == ~live

\* A tool-call transaction of process p under whatever attachment p has right now: fenced
\* by its lease, or unfenced if it has none.
MayWrite(p) == IF att[p] # NoGen THEN Fenced(att[p]) ELSE Unfenced

\* The lease is released or runs out.
Lapse ==
    /\ live
    /\ live' = FALSE
    /\ UNCHANGED <<gen, att, attaching, row, epoch, stored, call>>

\* The record's expires_at_ms passes; every reader treats it as missing from then on.
Expire ==
    /\ row # NoRow
    /\ epoch < MaxEpoch
    /\ row' = NoRow
    /\ epoch' = epoch + 1
    /\ UNCHANGED <<ownership, stored, call>>

-----------------------------------------------------------------------------
(***************************************************************************)
(* The idempotency store.  Each operation is one transaction.              *)
(***************************************************************************)

\* The record a granted claim writes.
Claimed(c, g) == [status |-> "claimed", owner |-> c, gen |-> g]

\* Bug: only a success is final.
ClaimableUnlessSucceeded(g) ==
    \/ row = NoRow
    \/ row.status = "failed"
    \/ row.status = "claimed" /\ row.gen # g

\* claim gives the key to a caller holding lease g: there is no record, or one that an
\* earlier generation claimed and never completed (staleClaim).
Claimable(g) ==
    \/ row = NoRow
    \/ row.status = "claimed" /\ row.gen # g

\* complete accepts the outcome of this call under lease g.
Completable(c, g) ==
    /\ Fenced(g)
    /\ row.status = "claimed"
    /\ row.owner = c
    /\ row.gen = g

\* Bug: quarantine leaves the claim of the interrupted call in place.
QuarantinedKept(c, g) == row

\* The record after quarantine of call c under lease g: a terminal outcome, another
\* call's claim and a claim of this generation stay; otherwise it becomes a failure.
Quarantined(c, g) ==
    IF row.status \in {"succeeded", "failed"} \/ (row.status = "claimed" /\ (row.owner # c \/ row.gen = g))
    THEN row
    ELSE [status |-> "failed", owner |-> c, gen |-> g]

-----------------------------------------------------------------------------
(***************************************************************************)
(* One tool call: executePipelineToolCalls and executeTool, await by await *)
(***************************************************************************)

\* Calls the runtime counts in #activeToolCallsBySession.
Active(c) == call[c].pc \notin {"new", "done"} /\ ~call[c].override

Attaching(p) == attaching[p] # NotAttaching

\* startToolCall persists the running record under the process's current attachment, or
\* unfenced if it has none.  A pipeline built under an older attachment still uses the
\* lease it captured.  When the write commits only after its deadline the call has been
\* given up: it is not executed and its record is finished under that lease.
StartToolCall(c, p, late) ==
    /\ call[c].pc = "new"
    /\ ~Attaching(p)
    /\ MayWrite(p)
    /\ \E g \in 1..gen :
          /\ g <= att[p] \/ att[p] = NoGen
          /\ call' = [call EXCEPT ![c] =
                [New EXCEPT !.proc = p, !.lease = g, !.override = late,
                            !.pc = IF late THEN "finish" ELSE "started",
                            !.result = IF late THEN "failed" ELSE "none"]]
    /\ stored' = [stored EXCEPT ![c] = [status |-> "running", gen |-> att[p]]]
    /\ UNCHANGED <<ownership, row, epoch>>

\* claim, under the lease the pipeline captured.  A refused call is reported as failed or,
\* if the record succeeded, as a replay of it.
Claim(c) ==
    LET g == call[c].lease IN
    /\ call[c].pc = "started"
    /\ IF Fenced(g) /\ Claimable(g)
       THEN /\ row' = Claimed(c, g)
            /\ call' = [call EXCEPT ![c].pc = "claimed", ![c].claimEpoch = epoch]
       ELSE /\ call' = [call EXCEPT ![c].pc = "finish",
                ![c].result = IF Fenced(g) /\ row.status = "succeeded" THEN "succeeded" ELSE "failed"]
            /\ UNCHANGED row
    /\ UNCHANGED <<ownership, epoch, stored>>

\* The claim commits or not, but its answer never arrives.
ClaimAnswerLost(c) ==
    LET g == call[c].lease IN
    /\ StoreMayFail
    /\ call[c].pc = "started"
    /\ row' \in {row} \cup (IF Fenced(g) /\ Claimable(g) THEN {Claimed(c, g)} ELSE {})
    /\ call' = [call EXCEPT ![c].pc = "finish", ![c].result = "failed"]
    /\ UNCHANGED <<ownership, epoch, stored>>

\* The turn was aborted before the executor started: the claim is given back.
CancelBeforeExecution(c) ==
    /\ call[c].pc = "claimed"
    /\ call' = [call EXCEPT ![c].pc = "release", ![c].result = "failed"]
    /\ UNCHANGED <<ownership, row, epoch, stored>>

\* releaseClaim; a failure is swallowed.
ReleaseClaim(c) ==
    /\ call[c].pc = "release"
    /\ row' \in {row} \cup (IF Completable(c, call[c].lease) THEN {NoRow} ELSE {})
    /\ call' = [call EXCEPT ![c].pc = "finish"]
    /\ UNCHANGED <<ownership, epoch, stored>>

\* tool.execute is called.  Nothing checks the lease again.
Execute(c) ==
    /\ call[c].pc = "claimed"
    /\ call' = [call EXCEPT ![c].pc = "running", ![c].ran = TRUE]
    /\ UNCHANGED <<ownership, row, epoch, stored>>

\* The executor returns, throws, times out or is aborted.
ExecutorSettles(c, result) ==
    /\ call[c].pc = "running"
    /\ call' = [call EXCEPT ![c].pc = "complete", ![c].result = result]
    /\ UNCHANGED <<ownership, row, epoch, stored>>

\* complete.  If it is refused the call is reported as failed and not to be replayed.
Complete(c) ==
    /\ call[c].pc = "complete"
    /\ IF Completable(c, call[c].lease)
       THEN /\ row' = [row EXCEPT !.status = call[c].result]
            /\ call' = [call EXCEPT ![c].pc = "finish"]
       ELSE /\ call' = [call EXCEPT ![c].pc = "finish", ![c].result = "failed", ![c].unrecorded = TRUE]
            /\ UNCHANGED row
    /\ UNCHANGED <<ownership, epoch, stored>>

\* The store fails, or the answer is lost after it committed.
CompleteFails(c) ==
    /\ StoreMayFail
    /\ call[c].pc = "complete"
    /\ row' \in {row} \cup
          (IF Completable(c, call[c].lease) THEN {[row EXCEPT !.status = call[c].result]} ELSE {})
    /\ call' = [call EXCEPT ![c].pc = "finish", ![c].result = "failed", ![c].unrecorded = TRUE]
    /\ UNCHANGED <<ownership, epoch, stored>>

\* finishToolCall: under the current attachment of the process, unfenced if it has none,
\* or under the captured lease for a call given up at its start.  A terminal record stays.
FinishToolCall(c) ==
    LET p == call[c].proc
        may == IF call[c].override /\ stored[c].gen # NoGen THEN Fenced(stored[c].gen)
               ELSE IF call[c].override THEN Unfenced ELSE MayWrite(p)
    IN /\ call[c].pc = "finish"
       /\ stored' = IF may /\ stored[c].status = "running"
                    THEN [stored EXCEPT ![c].status = call[c].result] ELSE stored
       /\ call' = [call EXCEPT ![c].pc = "done"]
       /\ UNCHANGED <<ownership, row, epoch>>

\* The terminal write fails; the record stays as it is.
FinishFails(c) ==
    /\ StoreMayFail
    /\ call[c].pc = "finish"
    /\ call' = [call EXCEPT ![c].pc = "done"]
    /\ UNCHANGED <<ownership, row, epoch, stored>>

CallStep(c) ==
    \/ \E p \in Proc, late \in BOOLEAN : StartToolCall(c, p, late)
    \/ Claim(c) \/ ClaimAnswerLost(c) \/ CancelBeforeExecution(c) \/ ReleaseClaim(c)
    \/ Execute(c) \/ (\E r \in {"succeeded", "failed"} : ExecutorSettles(c, r))
    \/ Complete(c) \/ CompleteFails(c) \/ FinishToolCall(c) \/ FinishFails(c)

-----------------------------------------------------------------------------
(***************************************************************************)
(* attachSession, as far as tool calls are concerned.                      *)
(***************************************************************************)

\* The lease is acquired; refused while the process still runs calls of the session.
AttachSession(p) ==
    /\ att[p] = NoGen /\ ~Attaching(p)
    /\ \A c \in Call : call[c].proc = p => ~Active(c)
    /\ ~live /\ gen < MaxGen
    /\ gen' = gen + 1
    /\ live' = TRUE
    /\ attaching' = [attaching EXCEPT ![p] = [NotAttaching EXCEPT !.gen = gen', !.pc = "list"]]
    /\ UNCHANGED <<att, row, epoch, stored, call>>

\* prepareToolRecovery reads the tool-call records.
ListRunning(p) ==
    LET running == {c \in Call : stored[c].status = "running"} IN
    /\ attaching[p].pc = "list"
    /\ attaching' = [attaching EXCEPT ![p].pc = "prepare", ![p].prepared = running, ![p].todo = running]
    /\ UNCHANGED <<gen, live, att, row, epoch, stored, call>>

\* recoverToolCallIdempotency of one running record: its recorded outcome is replayed,
\* otherwise the key is quarantined.  (The lookup that precedes quarantine in the code
\* returns the same outcomes quarantine would.)
QuarantineRunning(p, c) ==
    LET g == attaching[p].gen IN
    /\ attaching[p].pc = "prepare"
    /\ c \in attaching[p].todo
    /\ Fenced(g)
    /\ row' = Quarantined(c, g)
    /\ attaching' = [attaching EXCEPT
          ![p].todo = @ \ {c},
          ![p].replay = IF row.status = "succeeded" THEN @ \cup {c} ELSE @]
    /\ UNCHANGED <<gen, live, att, epoch, stored, call>>

\* The recovery transaction: every running record becomes terminal, with the replayed
\* outcome or as interrupted.  The renewal and the checks that close attachSession follow;
\* when they fail, the attachment goes as in Detach.
RecoveryTransaction(p) ==
    LET g == attaching[p].gen IN
    /\ attaching[p].pc = "prepare"
    /\ attaching[p].todo = {}
    /\ Fenced(g)
    /\ stored' = [c \in Call |->
          IF stored[c].status # "running" THEN stored[c]
          ELSE [stored[c] EXCEPT !.status = IF c \in attaching[p].replay THEN "succeeded" ELSE "failed"]]
    /\ att' = [att EXCEPT ![p] = g]
    /\ attaching' = [attaching EXCEPT ![p] = NotAttaching]
    /\ UNCHANGED <<gen, live, row, epoch, call>>

\* The attachment fails at any of its awaits and its lease is given back by Lapse.
AttachFails(p) ==
    /\ Attaching(p)
    /\ attaching' = [attaching EXCEPT ![p] = NotAttaching]
    /\ UNCHANGED <<gen, live, att, row, epoch, stored, call>>

\* The attachment goes: the lease was lost or the host detached.  Its calls go on.
Detach(p) ==
    /\ att[p] # NoGen
    /\ att' = [att EXCEPT ![p] = NoGen]
    /\ UNCHANGED <<gen, live, attaching, row, epoch, stored, call>>

\* The process dies with the calls it was running.
Crash(p) ==
    /\ att[p] # NoGen \/ Attaching(p) \/ \E c \in Call : call[c].proc = p /\ Active(c)
    /\ att' = [att EXCEPT ![p] = NoGen]
    /\ attaching' = [attaching EXCEPT ![p] = NotAttaching]
    /\ call' = [c \in Call |->
          IF call[c].proc = p /\ call[c].pc # "new" THEN [call[c] EXCEPT !.pc = "done"] ELSE call[c]]
    /\ UNCHANGED <<gen, live, row, epoch, stored>>

ProcStep(p) ==
    \/ AttachSession(p) \/ ListRunning(p) \/ (\E c \in Call : QuarantineRunning(p, c))
    \/ RecoveryTransaction(p) \/ AttachFails(p) \/ Detach(p) \/ Crash(p)

Init ==
    /\ gen = 0 /\ live = FALSE
    /\ att = [p \in Proc |-> NoGen]
    /\ attaching = [p \in Proc |-> NotAttaching]
    /\ row = NoRow
    /\ epoch = 0
    /\ stored = [c \in Call |-> NoRecord]
    /\ call = [c \in Call |-> New]

Next ==
    \/ Lapse \/ Expire
    \/ \E c \in Call : CallStep(c)
    \/ \E p \in Proc : ProcStep(p)

Spec == Init /\ [][Next]_vars

-----------------------------------------------------------------------------

\* Two executions of the key within one lifetime of its record.
RanTwice(c, d) == c # d /\ call[c].ran /\ call[d].ran /\ call[c].claimEpoch = call[d].claimEpoch

\* The executor runs a second time for a key only after a call was reported with
\* resultRecordFailed ("do not replay"): never because its runtime crashed, lost the lease
\* while the call was still running, or because another call asked at the same time.
RepeatsOnlyUnrecorded ==
    \A c, d \in Call : RanTwice(c, d) => call[c].unrecorded \/ call[d].unrecorded

\* An outcome that was recorded stays until it expires, whatever claims, late completions
\* and recoveries of other generations arrive.
OutcomeIsFinal ==
    [][row.status \in {"succeeded", "failed"} /\ epoch' = epoch => row' = row]_vars

\* An attached runtime that still holds the session sees no call of an earlier owner
\* running: recovery settled all of them, and none can be started behind its back.
OwnerSeesOwnCalls ==
    \A p \in Proc : att[p] = gen /\ live =>
        \A c \in Call : stored[c].status = "running" => stored[c].gen = gen

\* docs/tools-and-workflows.md: "Repeating the same key returns that terminal outcome
\* without running the executor again."
RunsOnce == \A c, d \in Call : ~RanTwice(c, d)
=============================================================================
