----------------------------- MODULE SessionEnd -----------------------------
(***************************************************************************)
(* How one runtime ends one of its sessions: Runtime.endSession with its   *)
(* bounded terminal write, the handlers that run when the write settles    *)
(* after the deadline, the retries of the caller, and the session-end      *)
(* observation (packages/runtime/src/create-runtime.ts, session-end.ts,    *)
(* session-terminalization.ts).                                            *)
(*                                                                         *)
(* criticalWrite does not cancel a transaction it stopped waiting for, so  *)
(* an attempt that was reported as failed may still commit, and its late   *)
(* handler then runs beside whatever the caller did next.  The runtime is  *)
(* single-threaded: an action is what runs between two awaits.             *)
(*                                                                         *)
(* Left out: attaching the session between two attempts, and with it the   *)
(* registration of a new usage finalizer; a detach that is not the         *)
(* attempt's own, that is the caller's attachment.detach() and that of a   *)
(* heartbeat which found the lease lost; runtime shutdown; the audio tap's *)
(* own finalization; and a COMMIT whose acknowledgement is lost.           *)
(***************************************************************************)
EXTENDS Naturals, FiniteSets

CONSTANT Attempt   \* the calls of endSession that start an attempt of their own

None == "none"

ASSUME AttemptAssumption == IsFiniteSet(Attempt) /\ None \notin Attempt

VARIABLES
    status,        \* the stored session: "active" or "terminal"
    endedHere,     \* history: a transaction of this runtime made it terminal
    leaseLive,     \* this runtime's lease on the session is live
    attached,      \* #attachments.has(id)
    owners,        \* #attachmentStarts: admissions held for the session
    closed,        \* #attachmentStarts.isClosed(id)
    releases,      \* leases.release calls in flight, each holding an admission
    cleanup,       \* #failedSessionEndCleanups has an unfinished entry
    endOp,         \* #sessionEndOperations: the attempt a caller would join
    pendingLate,   \* #pendingLateSessionEndWrites
    beingFinished, \* #sessionEndsBeingFinished
    usage,         \* the usage bookkeeping of SessionEndCoordinator
    observing,     \* the attempt whose observation is running (#finalizations)
    attempt,       \* attempt[a]: where each attempt is
    owed,          \* history: the first announcement owes the session's usage
    emitted        \* history: per session-end event delivered, whether it had usage

vars == <<status, endedHere, leaseLive, attached, owners, closed, releases, cleanup, endOp,
          pendingLate, beingFinished, usage, observing, attempt, owed, emitted>>

store == <<status, endedHere, leaseLive>>
admission == <<owners, closed, releases>>

\* One attempt.  fenced: it captured the attachment's lease; write: the state of its
\* transaction; late: the caller was already told it timed out; admitted: it holds an
\* admission for its late result; seen: the usage its observation read.
New == [pc |-> "new", fenced |-> FALSE, write |-> None, late |-> FALSE, admitted |-> FALSE,
        seen |-> FALSE]

Usage ==
    [finalizer : BOOLEAN, summary : BOOLEAN, frozen : BOOLEAN, retry : BOOLEAN, pending : Nat,
     late : Nat]

AttemptState ==
    [pc : {"new", "wait", "read", "check", "write", "lateRelease", "finishWait", "emit",
           "observe", "observed", "settle", "done"},
     fenced : BOOLEAN, write : {None, "sent", "ended", "already", "failed"},
     late : BOOLEAN, admitted : BOOLEAN, seen : BOOLEAN]

\* Attempts, late writes and the bookkeeping of admissions and usage stay within
\* their types.
TypeOK ==
    /\ status \in {"active", "terminal"}
    /\ endedHere \in BOOLEAN
    /\ leaseLive \in BOOLEAN
    /\ attached \in BOOLEAN
    /\ owners \in Nat
    /\ closed \in BOOLEAN
    /\ releases \in Nat
    /\ cleanup \in BOOLEAN
    /\ endOp \in Attempt \cup {None}
    /\ pendingLate \in Nat
    /\ beingFinished \in BOOLEAN
    /\ usage \in Usage
    /\ observing \in Attempt \cup {None}
    /\ attempt \in [Attempt -> AttemptState]
    /\ owed \in BOOLEAN
    /\ emitted \in [Attempt -> {None, "usage", "bare"}]

-----------------------------------------------------------------------------
(***************************************************************************)
(* SessionEndCoordinator: how long the usage of a session is kept.         *)
(***************************************************************************)

Discarded(u) ==
    IF u.late > 0 \/ u.retry THEN u
    ELSE [u EXCEPT !.finalizer = FALSE, !.summary = FALSE, !.frozen = FALSE]

\* freezeUsageBeforeDetach: the finalizer produces the summary once.
Frozen(u) ==
    IF u.frozen \/ u.summary THEN [u EXCEPT !.frozen = TRUE]
    ELSE [u EXCEPT !.frozen = TRUE, !.finalizer = FALSE, !.summary = u.finalizer]

BeginFinalization(u) == [u EXCEPT !.pending = @ + 1]

\* endUsageFinalization: the last one out discards, unless an observation is running.
EndFinalization(u) ==
    LET v == [u EXCEPT !.pending = @ - 1]
    IN IF v.pending = 0 /\ observing = None THEN Discarded(v) ELSE v

\* retainUsageForRetry, then discardUsage.
RetainedForRetry(u) ==
    Discarded([u EXCEPT !.retry = @ \/ u.frozen \/ u.summary \/ u.finalizer])

RetainedForLateWrite(u) == [u EXCEPT !.late = @ + 1]

ReleasedForLateWrite(u) ==
    LET v == [u EXCEPT !.late = IF @ = 0 THEN 0 ELSE @ - 1]
    IN IF v.late = 0 /\ observing = None /\ v.pending = 0 THEN Discarded(v) ELSE v

-----------------------------------------------------------------------------
(***************************************************************************)
(* AttachmentAdmission and detaching.                                      *)
(***************************************************************************)

\* n admissions are given back; the last one reopens the session.
GiveBack(n) ==
    /\ owners' = owners - n
    /\ closed' = (closed /\ owners' > 0)

\* #detach of the current attachment with its lease: the attachment is gone at once, the
\* release runs under an admission.  A closed admission makes it fail there, and the
\* lease is left to expire.  (discardUsageIfNotFinalizing does nothing here: an attempt
\* that detaches holds the usage.)
DetachAndRelease ==
    /\ attached' = FALSE
    /\ IF attached /\ ~closed
       THEN owners' = owners + 1 /\ releases' = releases + 1 /\ UNCHANGED closed
       ELSE UNCHANGED admission

\* A release call settles; it may have failed.
ReleaseSettles ==
    /\ releases > 0
    /\ releases' = releases - 1
    /\ GiveBack(1)
    /\ leaseLive' \in {FALSE, leaseLive}
    /\ UNCHANGED <<status, endedHere, attached, cleanup, endOp, pendingLate, beingFinished,
                   usage, observing, attempt, emitted>>

\* The audio-tap cleanup of a failed or timed-out attempt finishes.
CleanupDone ==
    /\ cleanup
    /\ cleanup' = FALSE
    /\ UNCHANGED <<store, attached, admission, endOp, pendingLate, beingFinished, usage,
                   observing, attempt, emitted>>

-----------------------------------------------------------------------------
(***************************************************************************)
(* The store.                                                              *)
(***************************************************************************)

\* The lease runs out.
LeaseExpires ==
    /\ leaseLive
    /\ leaseLive' = FALSE
    /\ UNCHANGED <<status, endedHere, attached, admission, cleanup, endOp, pendingLate,
                   beingFinished, usage, observing, attempt, emitted>>

\* Another runtime, holding the session by now, ends it.
EndedElsewhere ==
    /\ ~leaseLive
    /\ status = "active"
    /\ status' = "terminal"
    /\ UNCHANGED <<endedHere, leaseLive, attached, admission, cleanup, endOp, pendingLate,
                   beingFinished, usage, observing, attempt, emitted>>

\* persistSessionEnd inside its transaction, whenever the database gets to it: a fenced
\* one needs the live lease, an unfenced one needs that there is none.  Only the one that
\* finds the session open changes it (shouldEmit).
PersistSessionEnd(a) ==
    /\ attempt[a].write = "sent"
    /\ attempt[a].fenced = leaseLive
    /\ attempt' = [attempt EXCEPT ![a].write = IF status = "active" THEN "ended" ELSE "already"]
    /\ status' = "terminal"
    /\ endedHere' = (endedHere \/ status = "active")
    /\ UNCHANGED <<leaseLive, attached, admission, cleanup, endOp, pendingLate, beingFinished,
                   usage, observing, emitted>>

\* The transaction fails: lease lost, a live lease in the way, or the store is down.
PersistSessionEndFails(a) ==
    /\ attempt[a].write = "sent"
    /\ attempt' = [attempt EXCEPT ![a].write = "failed"]
    /\ UNCHANGED <<store, attached, admission, cleanup, endOp, pendingLate, beingFinished,
                   usage, observing, emitted>>

-----------------------------------------------------------------------------
(***************************************************************************)
(* endSession, await by await.                                             *)
(***************************************************************************)

Init ==
    /\ status = "active"
    /\ endedHere = FALSE
    /\ attached \in BOOLEAN
    /\ leaseLive = attached
    /\ owners = 0 /\ closed = FALSE /\ releases = 0
    /\ cleanup = FALSE
    /\ endOp = None
    /\ pendingLate = 0
    /\ beingFinished = FALSE
    /\ owed \in BOOLEAN
    /\ usage = [finalizer |-> owed, summary |-> FALSE, frozen |-> FALSE,
                retry |-> FALSE, pending |-> 0, late |-> 0]
    /\ observing = None
    /\ attempt = [a \in Attempt |-> New]
    /\ emitted = [a \in Attempt |-> None]

\* endSession: a running attempt is joined (no step here), otherwise a new one starts.
EndSession(a) ==
    /\ attempt[a].pc = "new"
    /\ endOp = None
    /\ endOp' = a
    /\ usage' = Frozen(BeginFinalization(usage))
    /\ attempt' = [attempt EXCEPT ![a].pc = "wait"]
    /\ UNCHANGED <<store, attached, admission, cleanup, pendingLate, beingFinished, observing,
                   emitted>>

\* Once no cleanup of an earlier attempt is running, the attachment's lease is captured
\* and the session is read.
AwaitCleanup(a) ==
    /\ attempt[a].pc = "wait"
    /\ ~cleanup
    /\ attempt' = [attempt EXCEPT ![a].pc = "read", ![a].fenced = attached]
    /\ UNCHANGED <<store, attached, admission, cleanup, endOp, pendingLate, beingFinished,
                   usage, observing, emitted>>

\* The endSession promise settles: its usage hold ends and the next call is a new attempt.
Settles(a) == endOp' = IF endOp = a THEN None ELSE endOp

\* The entry of #finishClaimedSessionEnd: one finisher at a time; it closes admission and
\* keeps the usage.
EnterFinish(a, u) ==
    IF beingFinished
    THEN /\ attempt' = [attempt EXCEPT ![a].pc = "settle"]
         /\ usage' = u
         /\ UNCHANGED <<beingFinished, closed>>
    ELSE /\ attempt' = [attempt EXCEPT ![a].pc = "finishWait"]
         /\ usage' = Frozen(BeginFinalization(u))
         /\ beingFinished' = TRUE
         /\ closed' = (owners > 0)

\* The stored session is terminal already: the event is delivered if there is usage left
\* to deliver, otherwise the attachment is dropped.
ReadTerminal(a) ==
    /\ attempt[a].pc = "read"
    /\ status = "terminal"
    /\ IF Frozen(usage).summary
       THEN EnterFinish(a, Frozen(usage)) /\ UNCHANGED <<owners, releases, attached>>
       ELSE /\ DetachAndRelease
            /\ usage' = Frozen(usage)
            /\ attempt' = [attempt EXCEPT ![a].pc = "settle"]
            /\ UNCHANGED beingFinished
    /\ UNCHANGED <<store, cleanup, endOp, pendingLate, observing, emitted>>

\* The session is open.  An admission held by somebody who is not a late end write means
\* an attachment is in progress; leases.get decides.
ReadActive(a) ==
    /\ attempt[a].pc = "read"
    /\ status = "active"
    /\ attempt' = [attempt EXCEPT ![a].pc = IF owners > 0 /\ pendingLate = 0 THEN "check" ELSE "write",
                                  ![a].write = IF owners > 0 /\ pendingLate = 0 THEN None ELSE "sent"]
    /\ UNCHANGED <<store, attached, admission, cleanup, endOp, pendingLate, beingFinished,
                   usage, observing, emitted>>

CheckLease(a) ==
    /\ attempt[a].pc = "check"
    /\ attempt' = [attempt EXCEPT ![a].pc = IF leaseLive THEN "settle" ELSE "write",
                                  ![a].write = IF leaseLive THEN None ELSE "sent"]
    /\ UNCHANGED <<store, attached, admission, cleanup, endOp, pendingLate, beingFinished,
                   usage, observing, emitted>>

\* No attempt has got as far as its write, and none is finishing the session.
NobodyWrote == ~beingFinished /\ \A b \in Attempt : attempt[b].write = None

\* sessionStore.get or leases.get rejects, or the session has no record: the attempt ends
\* there, the attachment stays, and nothing is kept for a retry.  In front of the first
\* write nobody holds the usage then, and it is lost when the promise settles.
ReadFails(a) ==
    /\ attempt[a].pc \in {"read", "check"}
    /\ attempt' = [attempt EXCEPT ![a].pc = "settle"]
    /\ owed' = (owed /\ ~NobodyWrote)
    /\ UNCHANGED <<store, attached, admission, cleanup, endOp, pendingLate, beingFinished,
                   usage, observing, emitted>>

\* The write settles in time.  The attempt that ended the session finishes it; any other
\* drops the attachment, keeps the usage for a retry and schedules the cleanup.
WriteSettles(a) ==
    /\ attempt[a].pc = "write"
    /\ ~attempt[a].late
    /\ attempt[a].write \in {"ended", "already", "failed"}
    /\ IF attempt[a].write = "ended"
       THEN EnterFinish(a, usage) /\ UNCHANGED <<owners, releases, attached, cleanup>>
       ELSE /\ IF attempt[a].fenced THEN DetachAndRelease ELSE UNCHANGED <<attached, admission>>
            /\ usage' = RetainedForRetry(usage)
            /\ cleanup' = TRUE
            /\ attempt' = [attempt EXCEPT ![a].pc = "settle"]
            /\ UNCHANGED beingFinished
    /\ UNCHANGED <<store, endOp, pendingLate, observing, emitted>>

\* Bug: the timed-out attempt detaches the ordinary way, releasing its lease.
WriteTimesOutReleasing(a) ==
    /\ attempt[a].pc = "write"
    /\ ~attempt[a].late
    /\ pendingLate' = pendingLate + 1
    /\ owners' = IF closed THEN owners ELSE IF attached THEN owners + 2 ELSE owners + 1
    /\ releases' = IF attached /\ ~closed THEN releases + 1 ELSE releases
    /\ attached' = FALSE
    /\ usage' = EndFinalization(Frozen(RetainedForLateWrite(usage)))
    /\ cleanup' = TRUE
    /\ attempt' = [attempt EXCEPT ![a].late = TRUE, ![a].admitted = ~closed]
    /\ Settles(a)
    /\ UNCHANGED <<store, closed, beingFinished, observing, emitted>>

\* Bug: the usage is not kept for the late result.
WriteTimesOutForgettingUsage(a) ==
    /\ attempt[a].pc = "write"
    /\ ~attempt[a].late
    /\ pendingLate' = pendingLate + 1
    /\ owners' = IF closed THEN owners ELSE owners + 1
    /\ attached' = IF attempt[a].fenced THEN FALSE ELSE attached
    /\ usage' = EndFinalization(Frozen(usage))
    /\ cleanup' = TRUE
    /\ attempt' = [attempt EXCEPT ![a].late = TRUE, ![a].admitted = ~closed]
    /\ Settles(a)
    /\ UNCHANGED <<store, closed, releases, beingFinished, observing, emitted>>

\* criticalWriteTimeoutMs passes first.  The usage is kept for the late result, an
\* admission is taken (unless closed), the attachment goes without its lease, and the
\* caller's promise rejects.
WriteTimesOut(a) ==
    /\ attempt[a].pc = "write"
    /\ ~attempt[a].late
    /\ pendingLate' = pendingLate + 1
    /\ owners' = IF closed THEN owners ELSE owners + 1
    /\ attached' = IF attempt[a].fenced THEN FALSE ELSE attached
    /\ usage' = EndFinalization(Frozen(RetainedForLateWrite(usage)))
    /\ cleanup' = TRUE
    /\ attempt' = [attempt EXCEPT ![a].late = TRUE, ![a].admitted = ~closed]
    /\ Settles(a)
    /\ UNCHANGED <<store, closed, releases, beingFinished, observing, emitted>>

\* The write settles after its deadline.  A fenced one first releases the lease.
LateWriteSettles(a) ==
    /\ attempt[a].pc = "write"
    /\ attempt[a].late
    /\ attempt[a].write \in {"ended", "already", "failed"}
    /\ attempt' = [attempt EXCEPT ![a].pc = "lateRelease"]
    /\ UNCHANGED <<store, attached, admission, cleanup, endOp, pendingLate, beingFinished,
                   usage, observing, emitted>>

\* Bug: a late success is treated like a late failure.
LateReleasedSilently(a) ==
    /\ attempt[a].pc = "lateRelease"
    /\ leaseLive' \in IF attempt[a].fenced THEN {FALSE, leaseLive} ELSE {leaseLive}
    /\ usage' = RetainedForRetry(usage)
    /\ cleanup' = TRUE
    /\ attempt' = [attempt EXCEPT ![a].pc = "settle"]
    /\ UNCHANGED <<status, endedHere, attached, owners, closed, releases, endOp, pendingLate,
                   beingFinished, observing, emitted>>

\* #finishLateSessionEnd after the release (which may have failed): finish the session
\* this write ended, or give up on it.
LateReleased(a) ==
    /\ attempt[a].pc = "lateRelease"
    /\ leaseLive' \in IF attempt[a].fenced THEN {FALSE, leaseLive} ELSE {leaseLive}
    /\ IF attempt[a].write = "ended"
       THEN EnterFinish(a, usage) /\ UNCHANGED cleanup
       ELSE /\ usage' = RetainedForRetry(usage)
            /\ cleanup' = TRUE
            /\ attempt' = [attempt EXCEPT ![a].pc = "settle"]
            /\ UNCHANGED <<beingFinished, closed>>
    /\ UNCHANGED <<status, endedHere, attached, owners, releases, endOp, pendingLate, observing,
                   emitted>>

\* #finishClaimedSessionEnd goes on once no cleanup is running: later calls start afresh,
\* and the attachment, if any is left, is detached.
FinishDetaches(a) ==
    /\ attempt[a].pc = "finishWait"
    /\ ~cleanup
    /\ endOp' = None
    /\ DetachAndRelease
    /\ attempt' = [attempt EXCEPT ![a].pc = "emit"]
    /\ UNCHANGED <<store, cleanup, pendingLate, beingFinished, usage, observing, emitted>>

\* SessionEndCoordinator.emit starts the observation.  (It would join a running one; the
\* finisher is alone here.)
Emit(a) ==
    /\ attempt[a].pc = "emit"
    /\ observing = None
    /\ observing' = a
    /\ attempt' = [attempt EXCEPT ![a].pc = "observe"]
    /\ UNCHANGED <<store, attached, admission, cleanup, endOp, pendingLate, beingFinished,
                   usage, emitted>>

\* #observe reads the usage summary after finalizing the audio tap.
ObserveUsage(a) ==
    /\ attempt[a].pc = "observe"
    /\ attempt' = [attempt EXCEPT ![a].pc = "observed", ![a].seen = usage.summary]
    /\ UNCHANGED <<store, attached, admission, cleanup, endOp, pendingLate, beingFinished,
                   usage, observing, emitted>>

\* The hooks have run: the event is delivered and every trace of the usage dropped.  The
\* finisher lets go of the session.
ObserveDone(a) ==
    LET cleared == [usage EXCEPT !.finalizer = FALSE, !.summary = FALSE, !.frozen = FALSE,
                                 !.retry = FALSE, !.late = 0, !.pending = @ - 1]
    IN /\ attempt[a].pc = "observed"
       /\ emitted' = [emitted EXCEPT ![a] = IF attempt[a].seen THEN "usage" ELSE "bare"]
       /\ observing' = None
       /\ usage' = cleared
       /\ beingFinished' = FALSE
       /\ attempt' = [attempt EXCEPT ![a].pc = "settle"]
       /\ UNCHANGED <<store, attached, admission, cleanup, endOp, pendingLate>>

\* Bug: the admission of a late write is kept when the write failed.
SettleKeepingAdmission(a) ==
    /\ attempt[a].pc = "settle"
    /\ IF attempt[a].late
       THEN /\ usage' = ReleasedForLateWrite(usage)
            /\ pendingLate' = pendingLate - 1
            /\ IF attempt[a].write = "failed" THEN UNCHANGED <<owners, closed>>
               ELSE GiveBack(IF attempt[a].admitted THEN 1 ELSE 0)
            /\ UNCHANGED endOp
       ELSE /\ usage' = EndFinalization(usage)
            /\ Settles(a)
            /\ UNCHANGED <<pendingLate, owners, closed>>
    /\ attempt' = [attempt EXCEPT ![a].pc = "done"]
    /\ UNCHANGED <<store, attached, releases, cleanup, beingFinished, observing, emitted>>

\* The end of the attempt: a late handler gives back what the deadline took
\* (onLateWriteSettled), a timely attempt settles the caller's promise.
Settle(a) ==
    /\ attempt[a].pc = "settle"
    /\ IF attempt[a].late
       THEN /\ usage' = ReleasedForLateWrite(usage)
            /\ pendingLate' = pendingLate - 1
            /\ GiveBack(IF attempt[a].admitted THEN 1 ELSE 0)
            /\ UNCHANGED endOp
       ELSE /\ usage' = EndFinalization(usage)
            /\ Settles(a)
            /\ UNCHANGED <<pendingLate, owners, closed>>
    /\ attempt' = [attempt EXCEPT ![a].pc = "done"]
    /\ UNCHANGED <<store, attached, releases, cleanup, beingFinished, observing, emitted>>

-----------------------------------------------------------------------------

\* What the store answers to the reads of an attempt.
Read(a) == ReadTerminal(a) \/ ReadActive(a) \/ CheckLease(a)

\* The steps of an attempt that follow by themselves once what it awaits has settled.
Proceed(a) ==
    \/ AwaitCleanup(a) \/ WriteSettles(a) \/ LateWriteSettles(a) \/ LateReleased(a)
    \/ FinishDetaches(a) \/ Emit(a) \/ ObserveUsage(a) \/ ObserveDone(a) \/ Settle(a)

Next ==
    \/ /\ \/ \E a \in Attempt :
                \/ EndSession(a) \/ Read(a) \/ Proceed(a) \/ WriteTimesOut(a)
                \/ PersistSessionEnd(a) \/ PersistSessionEndFails(a)
          \/ ReleaseSettles \/ CleanupDone \/ LeaseExpires \/ EndedElsewhere
       /\ UNCHANGED owed
    \/ \E a \in Attempt : ReadFails(a)

\* Promises that settled are acted on, the release in front of a late finish settles, and
\* the audio-tap cleanup finishes.  Reads and writes of the store may hang for ever.
Fairness ==
    /\ \A a \in Attempt : WF_vars(Proceed(a) /\ UNCHANGED owed)
    /\ WF_vars(CleanupDone /\ UNCHANGED owed)

Spec == Init /\ [][Next]_vars /\ Fairness

-----------------------------------------------------------------------------

\* Nothing of the runtime is under way.
Quiescent ==
    /\ \A a \in Attempt : attempt[a].pc \in {"new", "done"}
    /\ ~cleanup
    /\ releases = 0

Announced == \E a \in Attempt : emitted[a] # None

\* A session this runtime made terminal is announced (the onSessionEnd hooks run), also
\* when the write committed after its deadline and the caller was told it failed.
EndIsAnnounced == endedHere ~> Announced

\* Whichever attempt announces the end first delivers the usage the session had, however
\* many writes failed or timed out before, and whichever reads failed after the first of
\* them.  (A read that fails in front of the first write loses the usage in the code:
\* nothing is owed then.)
UsageReachesTheHook ==
    owed /\ Announced => \E a \in Attempt : emitted[a] = "usage"

\* When everything has settled nothing is left behind: no admission that would refuse a
\* later attachment, no closed flag, no pending-write count, no usage hold, no finisher.
NothingLeaks ==
    Quiescent =>
        /\ owners = 0 /\ ~closed /\ pendingLate = 0
        /\ usage.pending = 0 /\ usage.late = 0
        /\ ~beingFinished /\ endOp = None

\* endSession does not give the lease back while a terminal write under that lease is
\* still running: another runtime could otherwise take the session over in between, and
\* the write would be lost after the attachment is gone.
LeaseOutlivesWrite ==
    releases > 0 => \A a \in Attempt : ~(attempt[a].fenced /\ attempt[a].write = "sent")

\* docs/persistence.md: "repeated session finalization is idempotent".
AnnouncedOnce == Cardinality({a \in Attempt : emitted[a] # None}) <= 1
=============================================================================
