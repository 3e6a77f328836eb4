# TVIC in TLA+

TVIC is a TypeScript runtime for voice agents.  A *session* is one conversation; a
runtime process *attaches* to it under a lease in a durable store, runs turns (speech to
text, language model, tools, text to speech) and finally ends it.  Processes crash, lose
their lease, and take sessions over from one another; store calls time out in the caller
and still commit.  This directory models the parts of the code where those events meet.

Paths below are relative to `src/`.

## Inventory

| Component | State | Operations | Hard part | What makes it correct |
|---|---|---|---|---|
| Session and lease store (`packages/dal-postgres/src`: `session-leases.ts`, `index.ts`, `maintenance.ts`) | session rows, lease rows (holder, fence, generation, expiry, recovery acknowledgement), row locks | acquire, renew, release, create, fenced and unfenced transactions, retention | arbitrarily stale callers; a clock read before a lock; fences that restart | only the newest generation writes; a dead lease stays dead |
| Recovery workers (`packages/runtime/src/session-recovery.ts`) | cursor, page, candidate, attachment | list, acknowledge, attach, activate, end | every await can interleave with owners, retention, other workers | no active session drops off the list; every orphan ends |
| Attachment (`runtime-attachment.ts`, `runtime-support.ts`) | attachments, heartbeat, admissions | attach, renew, detach | losing the lease half-way; late renewals | an attached runtime holds the session and its predecessors' work is settled |
| Session end (`create-runtime.ts`, `session-end.ts`, `session-terminalization.ts`, `attachment-admission.ts`) | end operations, admissions, late-write counts, usage holds, finishers | endSession, late handlers, session-end hooks | a write reported as timed out commits later, beside a retry | the end is announced with the usage it owes; nothing leaks |
| Tools and idempotency (`packages/tools/src`, `dal-postgres/src/idempotency.ts`, `tool-lifecycle.ts`, `tool-recovery.ts`) | idempotency record per key, tool-call record, lease captured by the pipeline | claim, execute, complete, release, quarantine, finish, recover | take-over while an executor runs; lost answers | one execution per key; recorded outcomes are final |
| Turns (`runtime-turns.ts`, `turn-state.ts`, `terminal-arbitration.ts`) | turn rows, transitions, late writes | start, status, checkpoint, end | a start or an end that commits after its deadline; checkpoint against end | one active turn, one terminal outcome |
| Pipeline loop (`pipeline-loop.ts`, `pipeline-turn-output.ts`, `pipeline-tts-playback.ts`, `persistence-policy.ts`) | transcripts, active turn, persistence health, checkpoint, shutdown | transcript, interrupt, checkpoint, speak, recover, end the session | barge-in, shutdown and late writes at every await of a turn | what is reported and remembered is what is stored; a degraded store silences the agent |
| Resilient speech to text (`resilient-stt-*.ts`) | journal with three indices, generations, recovery and journal loops, held endpoints | send, commit, write, fail, recover, replay, compact, close, abort | two loops, a closer and callers around one journal that is compacted under them | no audio lost, repeated or reordered; commits keep their promise; nobody sleeps through work |
| Text-to-speech failover (`packages/providers/src/tts-failover.ts`) | voice in use, pre-audio buffer, two provider streams | synthesize, pull, fall back, cancel | failure after the first audio; a cancel while a voice opens | one voice, in order, in full; no stream left open |
| Outbox and cache projection (`dal-postgres/src/outbox.ts`, `dal-redis/src/cache-projector.ts`) | events, claims, projected versions, tombstones | claim, deliver, apply, purge, restore | at-least-once, out of order | the projection never goes back, purged stays purged |
| Managed agent (`packages/voice-runtime/src/managed-agent.ts`) | one record per call, runtime start and stop promises, stop gate | start, claim, complete, cancel, hang up, finalize, stop | stop() between any two awaits of a start; sessions and handles that arrive late | no call leaks; the runtime outlives its calls; stop() reaches every caller |
| Observation queue, audio tap (`runtime-observation.ts`, `audio-tap.ts`) | bounded queues, drop counters | enqueue, drain, close | full queue, close during drain | drops are accounted for |

Provider adapters, codecs, media conversion and memory loading carry no protocol of their
own that a model would add to; `PROJECT.json` lists them with the reason.

How they interact: the runtime calls the store only through leases (fenced) or, without an
attachment, through unfenced transactions that insist on there being no live lease.  The
workers use the runtime's attachSession and endSession.  Attaching settles the turns and
tool calls the previous owner left running.  The tool executor uses the lease its pipeline
captured, the tool-call record the attachment of the moment.  The managed agent starts the
runtime once, opens a session and a pipeline loop per call, and ends both; the loop feeds
the resilient speech-to-text stream, writes its turns through the runtime, and gets its
voice from the failover provider.

## Modules

**SessionOwnership** is the abstract promise: a session has at most one live grant, each
grant a fresh generation, a lapsed grant never revives, and a write under a grant is made
under the newest one.

**SessionLease** is the PostgreSQL store that keeps it.  Statements and transactions that
hold their row locks throughout are one action; the three transactions that run caller code
under their locks (fenced, unfenced, retention) are split into begin, `Recheck` (the
closing assertion), `Commit` and `Abort`, and time may pass between any two.  Callers are
unconstrained: `granted` remembers every lease ever returned and any of them may be used at
any later time.  `Release` takes the clock value its separate query read at an arbitrary
earlier moment.  Deleting a session deletes its lease row, so fences restart at 1 while
generations do not.  The generation `randomUUID()` draws is modelled as a counter.

**SessionRecovery** extends SessionLease with the coordinator and the reaper.  `worker[w].pc`
is the await a worker is at; `ListCandidates`, `ReadCandidate`, `CheckTransport`,
`AttachAcquire`, `AttachRecover`, `AttachRenew`, `ReapEnd`, `DetachRelease` and `Acknowledge`
follow `#reapOnce`/`#pollOnce` in order.  `PollFails` is the catch block, `ReleaseFails` the
swallowed release error, `WorkerCrash` the death of the process.  Ordinary runtimes,
retention, the transport lookup and the grace period are environment actions.  Fenced
transactions are one step here, which SessionLease justifies.

**SessionEnd** is one runtime process and one session.  An *attempt* is a call of endSession
that was not joined to a running one.  Each attempt goes through cleanup, read, lease
check, write, finish and observation as `#endSessionAttempt` and `#finishClaimedSessionEnd`
do; `WriteTimesOut` is `criticalWrite`'s timer, after which the transaction keeps running
and its late handler (`LateWriteSettles`, `LateReleased`) runs whenever it settles.
`ReadFails` is the rejected read of the session or of its lease, which ends the attempt with
nothing kept for a retry; the history variable `owed` says whether the first announcement still
owes the session's usage.  `usage`
is the bookkeeping of `SessionEndCoordinator`, `owners`/`closed` that of
`AttachmentAdmission`.

**ToolIdempotency** is one idempotency key of one session, two calls that use it, and the
processes that own the session in turn.  Ownership is taken from SessionOwnership (`gen`,
`live`).  A call goes through startToolCall, claim, execute, complete and finishToolCall; an
attachment through acquire, list, quarantine per running call, and the recovery transaction.
`StoreMayFail` adds answers that are lost after the commit or before it.

**CacheProjection** is the way of one session id into Redis and out of it.  PostgreSQL is the
session row with its incarnation (`row`), the row lock and `outbox`; Redis is `meta` (the
session's `cache_meta`, a tombstone while `retired`) and `child` (one record standing for the
turns and tool calls).  Every Redis script and every SQL statement is one action; between
two of them anything else may happen.  A delivery claims an event, applies it, and, when it
meets a tombstone, goes through `#restoreCurrentSessionProjection` and applies it again.  The
retention job locks the row, purges under a fresh token, deletes, and goes through the same
restore when a step failed or the answer to its COMMIT was lost (`DeleteSession` with
`reported` false).  `ConnectionLost` is the case in which the row lock is gone and its
former holder does not know yet.  A batch of n claimed events is n deliveries, one after the
other in the code, in any order here.

**ResilientStt** is the reconnecting speech-to-text stream.  `log` is everything the callers
admitted, `journal` what `#journal` still keeps of it, with `cursor`, `replayStart` and
`replayBoundary` as in the code.  Four things run beside each other: the journal loop
(`RunJournal`, `WriteAccepted`, `WriteFails`), the provider's events (`Endpoint`,
`StreamFails`), the recovery loop (`RecoverAfterClose` to `RecoverFinally`, one action per
await) and a call of close() or abort() (`Close`, `Drained`, `DrainTimeout`, `CloseTail`).
`Compacted` is `compactJournal`, which shifts the indices while a write may be in flight;
`StableTimer` and `DeadlineTimer` are the probation of a new generation.  Time is the set
`old` of chunks whose stamp lies before the uncertain window (`Age`).

**PipelineTurn** is the pipeline loop with the turns it stores.  The store is `turns`,
`session` and `writes`: a critical write sits in a slot named for what it does and for its
turn, commits or is refused when `Commit` or `LateSettles` runs, and its caller is answered, is told of a failure,
or stops waiting (`Outcomes`, `Told`), in any order the deadline allows.  The loop follows
`#handleTranscript` from the gate through start, language model, tools, speech and text to the
end of the turn, its catch clause (`Caught`, `FailWritten`) and `#recoverFailedTurn`
(`LateWritesSettled`, `Inspect`, `RecoveryWritten`, `RecoveryGivesUp`).  Beside it run the
interruption checkpoint with its retries (`cp`), the end of the session after a persistence
failure (`fin`), barge-in (`Interrupt`), a shutdown of the input, an end of the session from
outside, and the loss of the lease.  `PlaybackEnds` sets `outputDelivered` as the code does: for
audio a transport confirmed, for audio on a transport that confirms nothing, and for an empty
answer.  Only the first looks at the abort, and the transport may be of either kind, so no way of
delivering is guarded.  The history variable `receipt` tells audio, an empty answer and text
apart.  A stream that confirms audio while the answer is still being generated is played back at the
end of the turn here, and text may be offered after an empty answer, which changes nothing.

**TtsFailover** is one request to the failover provider.  `pc` is the await at which
synthesize, or the generator it returned, stands; where cancel() can run between the
resolution of a race and the code that uses its result, the microtasks in between are
steps of their own (`PrimaryChecked`, `FallbackChecked`, `Adopt`).  Whether an error and a
request allow the fallback is one nondeterministic verdict.  **TtsFailoverProofs** holds its
proofs.

**ManagedAgent** is the agent a host starts calls with.  `rec[c]` is the record of a call with
the session and the handle it obtained; an action is what runs between two awaits of start,
of the run, of the finalization, of the runtime's start, and of stop().  What resolves after
its start was aborted goes through `LateAttachment` and `LateHandle`.  A start first waits for the
loader of capability snapshots (`"preflight"`), which `PreflightAborted` cuts short when the
caller aborts or stop() is called; `SnapshotThrows` is a call that cannot be described once its
record is listed.  The runtime, the transport, the loader, the pipeline and the callers are
external and may stay silent for ever.

**MCSessionLease**, **MCSessionRecovery**, **MCCacheProjection** and **MCResilientStt** give TLC
the model values, the symmetry and the script; the other modules are checked directly.
The eight modules whose name ends in **Proofs** hold the theorems about the module each of them
extends; **SessionProofs** holds those about SessionLease and about SessionRecovery, which
extends it.

Operators whose comment starts with *Bug:* are not part of the model.  Each is a plausible
mistake in the definition that follows it, and `PROJECT.json` names the property that
catches it.

## Runs

| Run | Configuration | Result |
|---|---|---|
| session_lease | 1 session, 2 holders, term 2, clock to 4, 3 generations | the five properties hold (273,355 states) |
| session_recovery | 1 session, coordinator, reaper and 1 runtime, clock to 2, 3 generations, 1 fault | `NoLostSession` holds (1.7 million states) |
| recovery_liveness | 2 sessions, page size 1, reaper and 1 runtime, fair | `OrphansEnd` holds (434 thousand states) |
| session_end | 3 attempts | four properties hold, `EndIsAnnounced` under fairness (359 thousand states) |
| session_end_twice | 2 attempts | `AnnouncedOnce` is violated |
| tool_idempotency | 2 processes, 2 calls, 2 generations, the record expires once, answers may be lost | three properties hold (646 thousand states) |
| tool_runs_once | as above, no store failures, no expiry | `RunsOnce` is violated |
| cache_projection | 2 deliveries, 1 retention job, 2 incarnations with 2 session versions and 1 child version each, 2 purges, 1 lost connection | three properties hold (1.9 million states) |
| resilient_stt | script audio, commit, audio, audio; 2 generations, buffer of 3 commands and 2 chunks, 2 attempts, 2 quick failures | seven properties hold (1.3 million states) |
| pipeline_turn | 2 turns, 2 faults | seven properties hold (3.1 million states) |
| tts_failover | 6 events, sizes 1 and 2, buffer of 3 | five properties hold, `CancelIsPrompt` under fairness (1,926 states) |
| managed_agent | 2 calls | four properties hold, `StopReachesEveryone` under fairness (450 thousand states) |

Bounds.  One session suffices for the lease store because no statement touches two
sessions; the proofs cover any number.  Two holders and three generations give an owner, a
successor and a re-created session, whose fence repeats: that is the case `Holds` is about.
Two sessions with pages of one make the cursor matter.  Three attempts give a late write, a
retry that times out as well, and one that finds the session terminal.  Two generations and
two processes give one take-over, in which every order of the old call's completion, its
finish and the new owner's recovery occurs.  `OwnerGens`, `MaxGen` and `MaxTime` bound what
ordinary runtimes may do so that the workers are never starved by the bound itself.
Two incarnations and two deliveries give an event of a deleted session that is still under
way when the id is used again; two purges and a lost connection give a purge that meets the
late restore of an earlier one.  Deliveries are interchangeable, which the run uses as a
symmetry.
In `resilient_stt` the script puts a commit between two chunks and a chunk behind them, so that
a replay can start before, at and after a commit, a write can be in flight while the journal
is compacted, and the third chunk overflows the buffer of a stream that recovers; two
generations give one failure and one replay, and the failure of the second.  Two turns give a
late write of the first under the second; two faults give a failed write and the failure
of what was to repair it.  Six events fill the buffer of the failover, flush it and go on.
Two calls give a call that is starting while another runs, and a runtime that one of them
has to wait for.
Deadlock is not checked: every model stops when its bounds are used up or its calls are done.

Fairness.  `recovery_liveness` assumes that the workers' interval timers keep firing and
their awaits settle, that time passes while a lease is running, and that a grace period
ends; nothing is assumed of the owners, and transports may flap for ever (the property
only concerns sessions that stay without one).  Agents are assumed to resolve: the reaper
skips a session whose agent it cannot resolve for as long as that lasts.  `session_end`
assumes that promises that settled are acted on, that the release of the lease in front of a
finish settles, and that the audio-tap cleanup finishes; the store's reads and writes may hang
for ever or fail.  `tts_failover` assumes that
microtasks run, abort listeners fire and the timer a cleanup is raced with expires
(`Settle`); providers and caller owe nothing.  `managed_agent` assumes the same of the agent's
own microtasks, of its abort listeners (of the preflight and of each record) and of the timers of
finalization and stop(); nothing of the runtime, the transport, the snapshot loader, the pipeline
or the callers, and not of the preflight's own timer: stop() reaches a start that waits for
the loader through `generationAborted` alone.  `resilient_stt` and `pipeline_turn` state safety only; `NobodySleepsThroughWork` says
without fairness that no loop of the stream waits for a signal that was already given.

The type invariants of SessionRecovery, SessionEnd, ToolIdempotency, CacheProjection and
ManagedAgent are not part of a run; they are theorems (see Proofs).

### Findings

* **The session-end hooks can run twice.**  A retry that reads the session terminal while a
  late write's usage is still held announces the end, and the late handler announces it
  again.  `docs/persistence.md` calls repeated finalization idempotent.
* **A key can be executed again after a lapse.**  When the lease lapses while an executor
  runs, completing the key is refused, the tool-call record is closed by an unfenced write,
  recovery therefore never sees it running, and the claim left behind counts as stale.
  `RepeatsOnlyUnrecorded` shows that this is the only way: the first call was always
  reported as unrecorded.

Noted while modelling, without a run of their own:

* The reaper's transport lookup (`session-recovery.ts` 309) is two awaits old when endSession is
  called (334), so a session that became reachable in between is ended;
  `docs/persistence.md` 536-538 states the condition without that window.
* A read that fails in front of every terminal write loses the session's usage: `#endSession`
  freezes it before `sessionStore.get` and `leases.get` are awaited (`create-runtime.ts` 585, 608,
  624), and when one of them rejects the `finally` (596) discards it, because nothing was
  kept for a retry (`session-end.ts` 156-168, 314-322).  The retry announces the end without it.
  `UsageReachesTheHook` excepts this case (`owed`), and only this one: after the first write a
  read may fail as well, and the usage is still there.
* An empty answer completes its turn unheard: `speak` sets `outputDelivered` without looking at
  the abort (`pipeline-turn-output.ts` 412; `pipeline-loop.ts` 1758 for the incremental path), so a
  barge-in during the *speaking* write ends as a completed turn that is remembered as answered.
  `CompletedWasDelivered` counts it as delivered, as the code does.
* A call handle whose identity makes `buildCallSnapshot` throw inside `#prepareStart`
  (`managed-agent.ts` 2684) is outside its try block: start() throws, the handle stays open, and
  the record stays listed, so that stop() runs to its deadline.  `SnapshotThrows` has this
  step; `NoCallLeaks` speaks of calls the agent forgets, and it never forgets this one.
* A failed write of the status *speaking* is caught as a failure of the voice
  (`pipeline-loop.ts` 1828).  The turn then ends as cancelled, and confirmed, but the degradation
  is not cleared on that path and the next transcript ends the session;
  `docs/persistence.md` 138-140 says a confirmed terminal state clears it.
* A call whose cleanup ran out of its own time is dropped from the agent's records, so stop() may
  stop the runtime before that session has ended (`managed-agent.ts` 3403; compare
  `docs/api-reference.md` 148-151).  `RuntimeOutlivesCalls` excepts this case.
* When closing the failed speech-to-text stream rejects, close() and abort() throw before they close the event
  queue (`resilient-stt-stream.ts` 315), and the consumer of the events is not ended.
  `CloseTail` has this step; no property speaks of it.
* `ProjectedInFull` excepts behaviours with a lost connection.  `#purgeChildren` deletes by
  incarnation and does not check the purge token, so a retention job that lost its row lock can
  still delete children that a later actor has restored; the session then stays cached
  without them.

## Proofs

`SessionProofs` proves of SessionLease, for every set of sessions and holders, every lease term and
every bound (from `TtlAssumption` and `BoundAssumption` only):

* `TypeCorrect`, `Fencing`, `UnfencedExclusion`, `NoRevival`: the run's properties `TypeOK`,
  `NoZombieTransaction`, `UnfencedExcludesOwner`, `DeadGenerationStaysDead`;
* `ImplementsOwnership`: every behaviour of SessionLease is one of SessionOwnership under
  the mapping in `Ownership`.

None of these is inductive.  The invariant `LeaseInv` (theorem `LeaseInvariance`) adds:
generations in circulation were drawn from the counter (`GrantsIssued`), the lease row
carries the newest generation granted for the session (`RowIsNewest`), and what a
transaction's opening assertion established still holds (`TxKeepsItsGround`), because every
action that touches the lease row needs the row locks the transaction holds, and time can
only make a lease expire.  A fenced transaction thus has the generation of the row, which
is the newest.  The refinement sorts the steps into grants, lapses, writes, deletions and
stutters (`StepKinds`) and shows that each is the corresponding abstract step.

Of SessionRecovery it proves, for any number of sessions, coordinators, reapers and owners and any
page size (from the assumptions of SessionLease and `WorkerAssumption`), `RecoveryTypes` and
`NoSessionIsLost`.  An acknowledgement names a generation read long before.  `RecoveryInv` says
that this generation is over (`Over`: the row has moved on, or the session has ended) for
whoever is about to acknowledge it, and lemmas about the store show that each of its operations
keeps it over (`StoreKeeps`).

Two more theorems say that nothing the workers do with what they read earlier spoils what the
store promises: `RecoveryImplementsOwnership` (every behaviour of SessionRecovery is one of
SessionOwnership, under the same mapping) and `RecoveryRevivesNothing` (the property
`DeadGenerationStaysDead` for SessionRecovery).  `RecoveryStepKinds` sorts the steps of the
workers, the runtimes, retention and time by what they do to the lease rows; the lemmas that map
each kind to an abstract step (`TickLapses`, `TakingGrants`, `ExpiryLapses`, `DeletingForgets`) are
those of `ImplementsOwnership`.  SessionRecovery does not keep up `written`, so what the abstract
specification says of writes is proved of SessionLease only; and a fenced transaction is one
step there, which SessionLease's row locks justify.

`TtsFailoverProofs` proves, for any number and size of events and any buffer (from
`TtsAssumption` only), the four invariants of the run `tts_failover`: `TypeCorrect`,
`OneVoiceOnly`, `DeliversInOrderAndInFull` and `LeaksNoStream`.  They rest on `TtsInv` (theorem
`TtsInvariant`), the conjunction of the type invariant with

* `PlaceInv`: which flags can be set at which await;
* `StreamInv`: the state of each provider stream at each await, which is what makes every
  exit of the generator leave both streams released;
* `SilentInv`: nothing of the primary was handed over while it can still be replaced;
* `OrderInv`: what was delivered, what the current iteration still owes and what is held back
  are, one after the other, the first events of the active voice.

One lemma per conjunct (`TypeStep`, `PlaceStep`, `StreamStep`, `SilentStep`, `OrderStep`) goes
through the actions; `YieldFacts`, `YieldInOrder` and `FlushInOrder` say what a yield does to the
sequences.

`ToolIdempotencyProofs` proves, for any number of processes and calls and any bounds (from
`ToolBounds`), `ToolTypes` and the three properties of the run: `OnlyUnrecordedRepeat`,
`RecoverySettlesAll` and the action property `OutcomesStay`.  That a key runs twice only after an
unrecorded call depends on who may touch its record, so `ToolInv` says that every execution in the
present lifetime of the record is answered for, by an outcome or by a claim whose tool-call
record is still there for the next owner (`Answered`), and that no two executions share a
lifetime (`ExecutesOnce`).  A recovery turns such a claim into a failure and not into a second
execution because the list it works through is complete (`ListIsComplete`), nobody works under
the newest lease while it is still being attached (`AttachesAlone`), and a call that may still
claim was started after recovery (`StartedRecovered`).

`SessionEndProofs` proves, for any finite set of attempts (from `AttemptAssumption`),
`EndTypes`, `WritesUnderTheLease`, `UsageDelivered` and `EverythingGivenBack`.  `EndInv` ties each
counter to the set of attempts it counts (`Counts`: `LateOpen`, `AdmittedOpen`, `Timely`,
`Finishing`), which is why the finiteness of `Attempt` is needed, and says that one attempt
finishes at a time (`Exclusive`), that nobody but the joined attempt is under way while the session
is attached (`AttachedAlone`), that no write runs or is to come under a lease being released
(`ReleasedAlone`), and who holds the usage that is owed until the end is announced (`UsageHeld`).  Usage is owed
unless a read failed before any attempt had got to its write; from the first write on an attempt
that leaves has kept the usage for a retry, or its late handler still holds it.

`CacheProjectionProofs` proves, for any number of deliveries and retention jobs and any bounds
(from `ProjectionBounds`), `ProjectionTypes`, `DeletedIsPurged`, the action property
`CacheNeverGoesBack`, and `DeliveredIsProjected`.  `ProjInv` says that every incarnation that is
gone is behind a tombstone or a later incarnation (`Incarnations`), that the cache and the events
in flight are not ahead of the database (`Behind`, `EventsKnown`), that a purge about to begin has
a token nobody has seen and the last version of its incarnation (`Tokens`, `Beginning`), and that
the tombstone stands while a job retires the session under the lock (`Retiring`).  A second
invariant, `FullInv`, is about runs in which no connection was lost: whoever works under the lock
still has it and its token (`Undisturbed`), and a settled event of the present incarnation is in the
cache (`Settled`).

`ManagedAgentProofs` proves, for any set of calls, `AgentTypes`, `NothingIsLeaked`,
`RuntimeWaitsForCalls` and the action property `StopIsFinal`.  In `AgentInv` a record is
`Underway`, and then holds exactly what its start has got to, or `Finishing`, and then everything
it holds is being ended, what was still being opened has a late handler, and the record stays
listed for it.  A start that could not describe its call has thrown and is still `Underway`: it
is listed with its handle, and nobody will finalize it.  `GateOK` says that short of its deadline stop() reaches the runtime only when the
records have drained; `NothingClaimable` that nobody can claim a call after stop().

`PipelineTurnProofs` proves, for any number of turns and faults (from `TurnAssumption`), all seven
properties of the run: `TurnTypes`, `LoopTellsTheTruth`, `OnlyDeliveredCompletes`, `TurnsAreSettled`,
`SilentWhileDegraded`, and the action properties `EndedTurnsStay` and `NoSecondCheckpoint`.
`TurnInv` adds

* `Place`: where the loop is with its turn, the active control, the checkpoint and the session;
* `Slots`: what each write in flight asks for is in order (a completion only of a turn whose
  output was taken for delivered), and a write that ended a turn has ended it;
* `StartTracked`: a start without an answer is what recovery waits for, or the session is being
  ended; a turn that starts late is abandoned before anybody goes on;
* `CheckpointTracked`: a checkpoint that may be sent is not in flight;
* `InSequence`: turns are numbered as they are stored, and only the last can be open;
* `Receipts`: a receipt is made once, while the turn is spoken.

Lemmas say once what sending, committing and answering a write does to the slots (`Sent`,
`Answered`); one lemma per action uses them.

`ResilientSttProofs` proves, for every script of commands, any number of generations and any limits
(from `SttAssumption`), all seven properties of the run: `SttTypes`, `NoGaps`, `ReplaysInFull`,
`AudioIsKept`, `CommitsAnswered`, `StreamsAreClosed` and `NobodySleeps`.  None is inductive: what a
generation is sent next depends on what compaction left in the journal, and what compaction may
drop on what was sent.  `SttInv` (theorem `SttInvariant`) therefore speaks of the journal as two
sets, `Written` before the cursor and `Pending` behind it, and says

* `JournalInv`: the journal is in the order of admission and `Keeps` what it must.  Audio in it is
  the last of the log, chunks age in order and not before they were written, a commit without an
  answer is pending, the last answered one stays, and a commit that separated two kept chunks still
  does.  Were the last answered commit dropped, a replay would send the chunk admitted next right
  after the audio before that commit.
* `SentInv`: the active generation has accepted all that is not pending, from its offset on, and
  what comes next in the journal continues it (`InStep`); so does the write in flight, under
  whichever generation it was started (`InFlight`, `Follows`).
* `Replay`: what a generation owes was sent to it or lies between the cursor and the boundary
  (`Owed`), also while the next generation has not been opened yet.  A failure moves the cursor back
  over all fresh audio because ageing is in order.
* `Recovering`, `Streams`, `Closing`: where the recovery loop, the provider streams and close() are
  with one another; a signal is lost only if one of them waits in a state these exclude.

Compaction counts, so its lemma (`Compaction`, with `Picked` and `Mapped` about the n-th element of
a finite set of numbers) is about cardinalities; where that needs an induction, `Least` takes the
smallest counterexample, which the library's facts about finite sets provide.  Lemmas `KeepsThinned`
to `KeepsBack` say that each operation on the two sets keeps `Keeps`, and `Classified` sorts the
steps: an ageing, an admission, an accepted write, a failure, and steps that leave the journal
alone (`Calm`).

Each inductive invariant was first checked by TLC on the instance of its module's run:
`ToolInv` on 646 thousand states, `EndInv` on 359 thousand, `ProjInv` and `FullInv` on 3.9
million (without the symmetry), `RecoveryInv` on 1.7 million, `AgentInv` on 450 thousand,
`TurnInv` on 3.1 million (2 turns, 2 faults), and `SttInv` on 1.3 million.

Only model-checked: all liveness (`OrphansEnd`, `EndIsAnnounced`, `CancelIsPrompt`,
`StopReachesEveryone`; the prover has no rules for fairness).  What the two
violated properties say is refuted by runs, and there is nothing to prove of them.

## Plan

Every invariant and action property of the passing runs is a theorem.  What the models could
still take in: SessionEnd with re-attachment, runtime shutdown and lost commit answers; the
heartbeat's renewal deadline; the Redis store as a second implementation of SessionOwnership.

## Not modelled

Most of the repository's lines are not protocol.  They are left out for these reasons:

* **Provider adapters** (`packages/providers/src`: Deepgram, Cartesia, ElevenLabs, AssemblyAI,
  OpenAI, Groq and others): translations between a vendor's wire format and the runtime's
  interfaces.  Their behaviour is the vendor's; the models take it as external and allow every
  order of events.
* **Codecs, media, core types, option and capability validation**: pure functions on
  strings, bytes and records, tested by value.  A model would repeat them line by line.
* **Scripts** (smoke tests, inventories, release checks), examples and tests.
* **Memory**: single reads and writes with a deadline each.
* **Observation queue and audio tap**: bounded queues with drop counters inside one thread.
* **Redis and in-memory stores**: see the plan.
* Within modelled components: a detach of the session that is not the end attempt's own (the
  caller's `attachment.detach()` and the heartbeat's on a lost lease, which may release the lease
  while a timely end write runs), a return() of the failover generator before its first pull,
  incremental synthesis as a separate path, endpointing and
  barge-in detection, agent-context entries of the speech-to-text journal, usage and audio-tap
  reporting, the choice of a terminal reason, and healthCheck.  `PROJECT.json` says so for each
  component.

Left out of every model: corrupt rows and legacy formats, migrations, metrics and logging,
and clocks that run backwards (the store's arithmetic relies on the database clock alone).
