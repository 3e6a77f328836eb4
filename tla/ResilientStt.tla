---------------------------- MODULE ResilientStt ----------------------------
(***************************************************************************)
(* The reconnecting speech-to-text stream (resilient-stt-stream.ts and     *)
(* resilient-stt-journal.ts).  Callers admit audio and commits into a      *)
(* journal; one loop writes the journal to the active provider stream; a   *)
(* second loop consumes the provider's events; when the stream fails, a    *)
(* recovery loop opens the next generation and the journal is replayed     *)
(* from the uncertain window on.                                           *)
(*                                                                         *)
(* JavaScript is single threaded: an action is what runs between two       *)
(* awaits.  A command is its position in `log', the history of everything  *)
(* admitted.  `generation' also names the provider stream it opened.       *)
(* Journal positions are zero based, as in the code: the entry at `cursor' *)
(* is journal[cursor + 1].  Agent-context entries and the usage reports    *)
(* are left out.                                                           *)
(***************************************************************************)
EXTENDS Naturals, Sequences, FiniteSets, Functions

CONSTANTS
    Script,               \* bound: the commands callers admit, in order
    MaxGenerations,       \* bound: provider streams opened successfully
    MaxBufferedCommands,  \* options.maxBufferedCommands
    MaxBufferedBytes,     \* options.maxBufferedBytes, a chunk being one byte
    MaxAttempts,          \* options.maxAttempts
    MaxQuickFailures      \* options.maxQuickFailures

ASSUME SttAssumption ==
    /\ Script \in Seq({"audio", "commit"})
    /\ {MaxBufferedCommands, MaxBufferedBytes, MaxAttempts} \subseteq Nat
    /\ {MaxGenerations, MaxQuickFailures} \subseteq Nat \ {0}

VARIABLES
    log,            \* history: "audio" and "commit", in the order admitted
    journal,        \* #journal: the commands still kept
    old,            \* audio last stamped before the uncertain window
    commits,        \* the promise of each commit of the log
    cursor, replayStart, replayBoundary,
    state,          \* #state
    generation,
    active,         \* #active is the stream of this generation
    offset,         \* #generationOffsetMs of each generation, in chunks
    runner,         \* #runJournal: where it is, and the write in flight
    rec,            \* #recover: where it is, its attempts and quick failures
    restart,        \* #recoveryRestartSource is set
    wait,           \* #generationWait
    failedClose,    \* #failedStreamClosePromise
    held,           \* #heldEndpoints, all of the current generation
    closing, terminal, closed,
    closer,         \* the call of close() or abort()
    aborted,        \* abort() was called
    streams,        \* provider streams opened and not told to close
    sent,           \* history: what each generation accepted
    spoke,          \* history: generations an endpoint was published from
    mustReplay      \* history: audio undelivered or uncertain at a failure

journalVars  == <<log, journal, old, commits, cursor, replayStart, replayBoundary>>
streamVars   == <<state, generation, active, offset, streams>>
recoveryVars == <<rec, restart, wait, failedClose>>
closeVars    == <<closing, terminal, closed, closer, aborted>>
outputVars   == <<held, spoke, sent, mustReplay>>
vars == <<journalVars, streamVars, recoveryVars, closeVars, outputVars, runner>>

MaxCommands == Len(Script)
Generations == 1..MaxGenerations
Idle == [pc |-> "waiting", gen |-> 0, cmd |-> 0]
NoRecovery == [pc |-> "none", attempts |-> 0, quick |-> 0]
NoWait == [set |-> FALSE, boundary |-> 0, stable |-> FALSE]

IsAudio(c)  == log[c] = "audio"
Audio       == {c \in DOMAIN log : IsAudio(c)}
Commits     == DOMAIN log \ Audio
Settled(c)  == commits[c] # "pending"
Accepted    == UNION {Range(sent[g]) : g \in Generations}
Rank(c)     == Cardinality({a \in Audio : a < c})
Ended       == closed \/ terminal

\* The indices of the journal stay inside it, and its loops are at one of their awaits.
SttTypeOK ==
    /\ log \in Seq({"audio", "commit"}) /\ Len(log) <= MaxCommands
    /\ journal \in Seq(DOMAIN log)
    /\ old \subseteq Audio
    /\ commits \in [Commits -> {"pending", "resolved", "rejected"}]
    /\ {cursor, replayStart, replayBoundary} \subseteq 0..Len(journal)
    /\ state \in {"healthy", "recovering", "opening", "probationary", "failed", "closed"}
    /\ generation \in Generations
    /\ active \in BOOLEAN
    /\ offset \in [Generations -> 0..MaxCommands]
    /\ runner \in [pc : {"check", "waiting", "writing", "done"},
                   gen : 0..MaxGenerations, cmd : 0..MaxCommands]
    /\ rec \in [pc : {"none", "close", "sleep", "open", "opened", "wait", "stable",
                      "failed", "exhausted", "finish"},
                attempts : 0..MaxAttempts, quick : 0..MaxQuickFailures]
    /\ restart \in BOOLEAN
    /\ wait \in [set : BOOLEAN, boundary : 0..MaxCommands, stable : BOOLEAN]
    /\ failedClose \in {"none", "pending", "ok", "failed"}
    /\ held \in 0..MaxBufferedCommands
    /\ {closing, terminal, closed, aborted} \subseteq BOOLEAN
    /\ closer \in {"none", "draining", "drained", "closing", "done", "threw"}
    /\ streams \subseteq 1..(MaxGenerations + 1)
    /\ sent \in [Generations -> Seq(DOMAIN log)]
    /\ spoke \subseteq Generations
    /\ mustReplay \in [Generations -> SUBSET Audio]

SttInit ==
    /\ log = <<>> /\ journal = <<>> /\ old = {} /\ commits = <<>>
    /\ cursor = 0 /\ replayStart = 0 /\ replayBoundary = 0
    /\ state = "healthy" /\ generation = 1 /\ active = TRUE
    /\ offset = [g \in Generations |-> 0]
    /\ runner = Idle
    /\ rec = NoRecovery /\ restart = FALSE /\ wait = NoWait /\ failedClose = "none"
    /\ held = 0
    /\ closing = FALSE /\ terminal = FALSE /\ closed = FALSE
    /\ closer = "none" /\ aborted = FALSE
    /\ streams = {1}
    /\ sent = [g \in Generations |-> <<>>]
    /\ spoke = {} /\ mustReplay = [g \in Generations |-> {}]

-----------------------------------------------------------------------------
(***************************************************************************)
(* The journal.                                                            *)
(***************************************************************************)
\* findReplayStart: back over commits and over audio of the uncertain window.
ReplayFrom ==
    CHOOSE s \in 0..cursor :
        /\ \A i \in (s + 1)..cursor : IsAudio(journal[i]) => journal[i] \notin old
        /\ s > 0 => journal[s] \in old

\* compactJournal, for a cursor, the aged audio and the settled commits: the indices
\* of the audio that is retained, of the commits that are, and of all that is kept.
RetainedAudio(cur, aged) ==
    {i \in DOMAIN journal : IsAudio(journal[i]) /\ (i > cur \/ journal[i] \notin aged)}

\* Bug: the settled commit that ends the journal is forgotten.
BugRetainedCommits(cur, aged, done) ==
    {i \in DOMAIN journal : ~IsAudio(journal[i]) /\ \E a \in RetainedAudio(cur, aged) : a > i}

RetainedCommits(cur, aged, done) ==
    {i \in DOMAIN journal :
        /\ ~IsAudio(journal[i])
        /\ \/ journal[i] \in done /\ \A k \in DOMAIN journal : journal[k] \in done => k <= i
           \/ \E a \in RetainedAudio(cur, aged) : a > i}

Kept(cur, aged, done) ==
    RetainedAudio(cur, aged) \cup RetainedCommits(cur, aged, done) \cup (cur + 1)..Len(journal)

\* mapIndex: how many of the kept indices an index has before it.
MapIndex(kept, i) == Cardinality({k \in kept : k <= i})

\* keptIndices.map: the entries at the kept indices, in order.
EntriesAt(kept) ==
    [n \in 1..Cardinality(kept) |-> journal[CHOOSE k \in kept : MapIndex(kept, k) = n]]

\* Bug: the cursor is not moved with the entries dropped before it.
BugUnmovedCursor(cur, aged, done) ==
    LET kept == Kept(cur, aged, done)
    IN  [journal |-> EntriesAt(kept), cursor |-> cur,
         replayStart |-> MapIndex(kept, replayStart),
         replayBoundary |-> MapIndex(kept, replayBoundary), wait |-> wait]

\* Bug: an index is moved past the entry it stands on.
BugPastTheEntry(cur, aged, done) ==
    LET kept == Kept(cur, aged, done)
    IN  [journal |-> EntriesAt(kept),
         cursor |-> IF kept = DOMAIN journal THEN cur ELSE MapIndex(kept, cur + 1),
         replayStart |-> MapIndex(kept, replayStart + 1),
         replayBoundary |-> MapIndex(kept, replayBoundary + 1), wait |-> wait]

\* #compactJournal: the journal without what is not kept, its three indices
\* moved to where their entries went, the waiting recovery's boundary too.
Compacted(cur, aged, done) ==
    LET kept == Kept(cur, aged, done)
    IN  [journal        |-> EntriesAt(kept),
         cursor         |-> MapIndex(kept, cur),
         replayStart    |-> MapIndex(kept, replayStart),
         replayBoundary |-> MapIndex(kept, replayBoundary),
         wait           |-> IF wait.set /\ wait.boundary = replayBoundary
                            THEN [wait EXCEPT !.boundary = MapIndex(kept, replayBoundary)]
                            ELSE wait]

SettledIn(promises) == {c \in DOMAIN promises : promises[c] # "pending"}

\* An audio chunk that was dispatched leaves the uncertain window.  Stamps grow
\* along the journal below the cursor, so the first fresh chunk ages first; a
\* chunk at or after the cursor is stamped again when it is dispatched.  Once the
\* stream ended nothing reads the stamps.
Age ==
    /\ ~Ended
    /\ \E i \in 1..cursor :
         /\ IsAudio(journal[i]) /\ journal[i] \notin old
         /\ \A k \in 1..(i - 1) : IsAudio(journal[k]) => journal[k] \in old
         /\ old' = old \cup {journal[i]}
    /\ UNCHANGED <<log, journal, commits, cursor, replayStart, replayBoundary, streamVars,
                   recoveryVars, closeVars, outputVars, runner>>

-----------------------------------------------------------------------------
(***************************************************************************)
(* Ending the stream.                                                      *)
(***************************************************************************)
\* #signalWork
Signalled == IF runner.pc = "waiting" THEN [Idle EXCEPT !.pc = "check"] ELSE runner

\* #clearGenerationWait with a failure: the recovery loop resumes.
Interrupted == IF wait.set THEN [rec EXCEPT !.pc = "failed"] ELSE rec

\* Bug: the pending commits are forgotten.
BugRejected == commits

\* #rejectPending
Rejected == [c \in Commits |-> IF Settled(c) THEN commits[c] ELSE "rejected"]

\* #closeActive: the active stream is told to close.
CloseActive ==
    /\ active' = FALSE
    /\ streams' = IF active THEN streams \ {generation} ELSE streams

\* #failTerminal, from a place that leaves the recovery loop at `next'.
FailTerminal(next) ==
    /\ terminal' = TRUE
    /\ state' = "failed"
    /\ wait' = NoWait
    /\ rec' = next
    /\ commits' = Rejected
    /\ CloseActive
    /\ closer' = IF closer = "draining" THEN "drained" ELSE closer

\* sendAudio and commit: compact, refuse at capacity, append, wake the journal.
Admit(kind) ==
    /\ ~Ended /\ ~closing
    /\ Len(log) < MaxCommands /\ kind = Script[Len(log) + 1]
    /\ LET new == Len(log) + 1
           c   == Compacted(cursor, old, SettledIn(commits))
           fits == /\ Len(c.journal) < MaxBufferedCommands
                   /\ kind = "audio" =>
                        Cardinality({x \in Range(c.journal) : IsAudio(x)}) + 1 <= MaxBufferedBytes
       IN  /\ cursor' = c.cursor
           /\ replayStart' = c.replayStart
           /\ replayBoundary' = c.replayBoundary
           /\ IF fits
              THEN /\ log' = Append(log, kind)
                   /\ journal' = Append(c.journal, new)
                   /\ commits' = [x \in Commits' |-> IF x = new THEN "pending" ELSE commits[x]]
                   /\ wait' = c.wait
                   /\ UNCHANGED <<terminal, state, rec, active, streams, closer>>
              ELSE /\ journal' = c.journal
                   /\ FailTerminal(Interrupted)
                   /\ UNCHANGED log
    /\ runner' = Signalled
    /\ UNCHANGED <<old, generation, offset, restart, failedClose, closing, closed, aborted,
                   outputVars>>

SendAudio == Admit("audio")
Commit    == Admit("commit")

\* What close() does after the drain and abort() at once.
EndNow ==
    /\ closed' = TRUE
    /\ closing' = TRUE
    /\ closer' = "closing"
    /\ state' = "closed"
    /\ wait' = NoWait
    /\ rec' = Interrupted
    /\ commits' = Rejected
    /\ runner' = Signalled

Unended == <<log, journal, old, cursor, replayStart, replayBoundary, generation, offset, restart,
             failedClose, outputVars>>

\* close(): no more commands; wait until the journal is drained.
Close ==
    /\ closer = "none"
    /\ IF terminal
       THEN EndNow
       ELSE /\ closing' = TRUE
            /\ closer' = IF cursor >= Len(journal) THEN "drained" ELSE "draining"
            /\ runner' = Signalled
            /\ UNCHANGED <<closed, state, wait, rec, commits>>
    /\ UNCHANGED <<Unended, terminal, aborted, active, streams>>

Drained ==
    /\ closer = "drained"
    /\ EndNow
    /\ UNCHANGED <<Unended, terminal, aborted, active, streams>>

\* The drain times out: a terminal failure, and the rest of close() at once.
DrainTimeout ==
    /\ closer = "draining"
    /\ terminal' = TRUE
    /\ CloseActive
    /\ EndNow
    /\ UNCHANGED <<Unended, aborted>>

\* abort(), which overtakes a close() that is still draining: what that close()
\* does next has been done.  On a stream that failed it does what close() does.
Abort ==
    /\ ~Ended
    /\ aborted' = TRUE
    /\ EndNow
    /\ UNCHANGED <<Unended, terminal, active, streams>>

\* The last awaits of close() and abort(): the close of the failed stream, which
\* may reject, then the close of the active one.
CloseTail ==
    /\ closer = "closing" /\ failedClose # "pending"
    /\ IF failedClose = "failed"
       THEN closer' = "threw" /\ UNCHANGED <<failedClose, active, streams>>
       ELSE closer' = "done" /\ failedClose' = "none" /\ CloseActive
    /\ UNCHANGED <<journalVars, state, generation, offset, rec, restart, wait, closing, terminal,
                   closed, aborted, outputVars, runner>>

-----------------------------------------------------------------------------
(***************************************************************************)
(* Failure of a generation, and the loop that writes the journal.          *)
(***************************************************************************)
\* #handleGenerationFailure for the current generation and its active stream.
GenerationFailure(retriable) ==
    /\ held' = 0
    /\ replayStart' = ReplayFrom
    /\ cursor' = ReplayFrom
    /\ replayBoundary' = Len(journal)
    /\ failedClose' = "pending"
    /\ mustReplay' = [g \in Generations |->
                        IF g = generation + 1 THEN Audio \ old ELSE mustReplay[g]]
    /\ IF closing \/ ~retriable
       THEN FailTerminal(Interrupted) /\ UNCHANGED restart
       ELSE /\ state' = "recovering"
            /\ wait' = NoWait
            /\ CloseActive
            /\ IF rec.pc = "none"
               THEN rec' = [NoRecovery EXCEPT !.pc = "close"] /\ UNCHANGED restart
               ELSE rec' = Interrupted /\ restart' = TRUE
            /\ UNCHANGED <<terminal, commits, closer>>
    /\ UNCHANGED <<log, journal, old, generation, offset, closing, closed, aborted, spoke>>

\* The provider's events end, raise, or carry another session's identity.
StreamFails(retriable) ==
    /\ ~Ended /\ active
    /\ GenerationFailure(retriable)
    /\ runner' = Signalled
    /\ UNCHANGED sent

\* One turn of #runJournal: leave, wait for work, or start the next write.
RunJournal ==
    /\ runner.pc = "check"
    /\ runner' = IF Ended THEN [Idle EXCEPT !.pc = "done"]
                 ELSE IF cursor >= Len(journal)
                 THEN [Idle EXCEPT !.pc = IF closing THEN "done" ELSE "waiting"]
                 ELSE IF ~active \/ state \notin {"healthy", "probationary"}
                 THEN Idle
                 ELSE [pc |-> "writing", gen |-> generation, cmd |-> journal[cursor + 1]]
    /\ UNCHANGED <<journalVars, streamVars, recoveryVars, closeVars, outputVars>>

Current == runner.gen = generation /\ active

\* The provider accepted the write in flight.  The answer of a stream that is
\* no longer the active one changes nothing; once the stream ended it is not
\* told apart from a refusal.
WriteAccepted ==
    /\ runner.pc = "writing" /\ (Current \/ ~Ended)
    /\ sent' = [sent EXCEPT ![runner.gen] = Append(@, runner.cmd)]
    /\ runner' = [Idle EXCEPT !.pc = "check"]
    /\ IF ~Current
       THEN UNCHANGED <<old, commits, journal, cursor, replayStart, replayBoundary, wait, rec,
                        closer>>
       ELSE LET aged    == old \ {runner.cmd}
                settled == [c \in Commits |-> IF c = runner.cmd /\ ~Settled(c)
                                              THEN "resolved" ELSE commits[c]]
                stable  == wait.set /\ wait.stable /\ cursor + 1 >= wait.boundary
                j       == Compacted(cursor + 1, aged, SettledIn(settled))
            IN  /\ old' = aged
                /\ commits' = settled
                /\ journal' = j.journal
                /\ cursor' = j.cursor
                /\ replayStart' = j.replayStart
                /\ replayBoundary' = j.replayBoundary
                /\ wait' = IF stable THEN NoWait ELSE j.wait
                /\ rec' = IF stable THEN [rec EXCEPT !.pc = "stable"] ELSE rec
                /\ closer' = IF closer = "draining" /\ cursor + 1 >= Len(journal)
                             THEN "drained" ELSE closer
    /\ UNCHANGED <<log, streamVars, restart, failedClose, closing, terminal, closed, aborted,
                   held, spoke, mustReplay>>

\* The write is refused or times out, or the stream was told to stop.
WriteFails(retriable) ==
    /\ runner.pc = "writing"
    /\ runner' = [Idle EXCEPT !.pc = "check"]
    /\ IF Current /\ ~Ended
       THEN GenerationFailure(retriable)
       ELSE UNCHANGED <<journalVars, streamVars, recoveryVars, closeVars, held, spoke, mustReplay>>
    /\ UNCHANGED sent

\* #forwardGenerationEvent of an endpoint, published or held until the replay
\* is over; `full' when the public event queue cannot take it.
Endpoint(full) ==
    /\ active /\ ~closed
    /\ LET hold == state # "healthy" \/ cursor < replayBoundary
           fail == IF hold THEN held >= MaxBufferedCommands ELSE full
       IN  /\ held' = IF hold /\ ~fail THEN held + 1 ELSE held
           /\ spoke' = IF ~hold /\ ~fail THEN spoke \cup {generation} ELSE spoke
           /\ IF fail
              THEN FailTerminal(Interrupted) /\ runner' = Signalled
              ELSE UNCHANGED <<terminal, state, wait, rec, commits, active, streams, closer,
                               runner>>
    /\ UNCHANGED <<log, journal, old, cursor, replayStart, replayBoundary, generation, offset,
                   restart, failedClose, closing, closed, aborted, sent, mustReplay>>

-----------------------------------------------------------------------------
(***************************************************************************)
(* Recovery.                                                               *)
(***************************************************************************)
At(pc)   == [rec EXCEPT !.pc = pc]
Returned == [NoRecovery EXCEPT !.pc = "finish"]

\* The recovery loop fails the stream and returns; #startRecovery ends with it.
GiveUp == FailTerminal(NoRecovery) /\ runner' = Signalled /\ restart' = FALSE

\* The recovery loop goes on.
GoTo(next) ==
    rec' = next /\ UNCHANGED <<terminal, state, wait, commits, active, streams, closer, runner>>

\* One more quick failure, and the checks at the top of the loop; `source' is the
\* restart source left behind.
Retry(source) ==
    LET next == [rec EXCEPT !.quick = @ + 1]
    IN  IF \/ next.quick >= MaxQuickFailures
           \/ failedClose = "none" /\ rec.attempts >= MaxAttempts
        THEN GiveUp
        ELSE /\ GoTo([next EXCEPT !.pc = IF failedClose = "none" THEN "sleep" ELSE "close"])
             /\ restart' = source

\* What no step of the recovery loop changes but the ones that say so.
RecoveryFrame == UNCHANGED <<log, journal, old, closing, closed, aborted, sent, mustReplay>>
Unmoved == UNCHANGED <<cursor, replayStart, replayBoundary, generation, offset, held, spoke>>

\* closeSttStreamBounded of the failed stream settles.
FailedStreamCloses ==
    /\ failedClose = "pending"
    /\ failedClose' \in {"ok", "failed"}
    /\ UNCHANGED <<journalVars, streamVars, rec, restart, wait, closeVars, outputVars, runner>>

\* The failed stream is closed, or closing it failed or took too long.
RecoverAfterClose ==
    /\ rec.pc = "close" /\ ~Ended
    /\ failedClose' = IF failedClose = "ok" THEN "none" ELSE failedClose
    /\ \/ GiveUp
       \/ failedClose = "ok" /\ rec.attempts < MaxAttempts /\ GoTo(At("sleep")) /\ UNCHANGED restart
    /\ RecoveryFrame /\ Unmoved

\* The backoff ends: open the next generation, unless the time is used up.
RecoverAfterSleep ==
    /\ rec.pc = "sleep" /\ ~Ended
    /\ \/ GiveUp
       \/ /\ rec' = [rec EXCEPT !.pc = "open", !.attempts = @ + 1]
          /\ state' = "opening"
          /\ runner' = Signalled
          /\ UNCHANGED <<restart, terminal, wait, commits, active, streams, closer>>
    /\ RecoveryFrame /\ Unmoved /\ UNCHANGED failedClose

\* provider.open answers in time.
OpenSucceeds ==
    /\ rec.pc = "open" /\ ~Ended /\ generation < MaxGenerations
    /\ rec' = At("opened")
    /\ streams' = streams \cup {generation + 1}
    /\ UNCHANGED <<journalVars, state, generation, active, offset, restart, wait, failedClose,
                   closeVars, outputVars, runner>>

\* provider.open fails, times out (a late stream is closed when it comes), or
\* opens a stream with another timestamp origin, which is closed.
OpenFails(retriable) ==
    /\ rec.pc = "open" /\ ~Ended
    /\ IF retriable THEN Retry(restart) ELSE GiveUp
    /\ RecoveryFrame /\ Unmoved /\ UNCHANGED failedClose

\* #generationAudioOffset: where the first chunk to be replayed starts.
AudioOffset ==
    LET replayed == {journal[i] : i \in (replayStart + 1)..Len(journal)} \cap Audio
    IN  IF replayed = {} THEN Cardinality(Audio)
        ELSE Rank(CHOOSE a \in replayed : \A b \in replayed : a <= b)

\* Bug: whether the stream ended while provider.open was answering is not asked.
BugAdopt ==
    /\ rec.pc = "opened"
    /\ generation' = generation + 1
    /\ active' = TRUE
    /\ offset' = [offset EXCEPT ![generation + 1] = AudioOffset]
    /\ state' = "probationary"
    /\ wait' = [set |-> TRUE, boundary |-> replayBoundary, stable |-> FALSE]
    /\ rec' = At("wait")
    /\ runner' = Signalled
    /\ RecoveryFrame
    /\ UNCHANGED <<commits, cursor, replayStart, replayBoundary, terminal, closer, restart,
                   failedClose, held, spoke, streams>>

\* The opened stream becomes the next generation, on probation; or it is closed
\* because the stream ended meanwhile.
Adopt ==
    /\ rec.pc = "opened"
    /\ IF Ended
       THEN /\ streams' = streams \ {generation + 1}
            /\ rec' = NoRecovery
            /\ UNCHANGED <<generation, active, offset, state, wait, runner>>
       ELSE /\ generation' = generation + 1
            /\ active' = TRUE
            /\ offset' = [offset EXCEPT ![generation + 1] = AudioOffset]
            /\ state' = "probationary"
            /\ wait' = [set |-> TRUE, boundary |-> replayBoundary, stable |-> FALSE]
            /\ rec' = At("wait")
            /\ runner' = Signalled
            /\ UNCHANGED streams
    /\ RecoveryFrame
    /\ UNCHANGED <<commits, cursor, replayStart, replayBoundary, terminal, closer, restart,
                   failedClose, held, spoke>>

\* Bug: the timer alone ends the probation.
BugStableTimer ==
    /\ wait.set /\ ~wait.stable /\ ~Ended
    /\ wait' = NoWait /\ rec' = At("stable")
    /\ UNCHANGED <<journalVars, streamVars, restart, failedClose, closeVars, outputVars, runner>>

\* The stable timer: probation ends once the replay is done too.
StableTimer ==
    /\ wait.set /\ ~wait.stable /\ ~Ended
    /\ IF cursor >= wait.boundary
       THEN wait' = NoWait /\ rec' = At("stable")
       ELSE wait' = [wait EXCEPT !.stable = TRUE] /\ UNCHANGED rec
    /\ UNCHANGED <<journalVars, streamVars, restart, failedClose, closeVars, outputVars, runner>>

\* The deadline timer of the recovery.
DeadlineTimer ==
    /\ wait.set /\ ~Ended
    /\ wait' = NoWait /\ rec' = At("exhausted")
    /\ UNCHANGED <<journalVars, streamVars, restart, failedClose, closeVars, outputVars, runner>>

\* The generation is stable, unless it failed after the wait was settled; held
\* endpoints are published, unless the queue is full.
RecoverStable(full) ==
    /\ rec.pc = "stable" /\ ~Ended
    /\ IF ~active \/ state # "probationary"
       THEN Retry(FALSE) /\ Unmoved
       ELSE /\ replayStart' = cursor
            /\ replayBoundary' = 0
            /\ held' = 0
            /\ spoke' = IF held > 0 /\ ~full THEN spoke \cup {generation} ELSE spoke
            /\ IF held > 0 /\ full
               THEN GiveUp
               ELSE /\ state' = "healthy"
                    /\ rec' = Returned
                    /\ runner' = Signalled
                    /\ UNCHANGED <<restart, terminal, wait, commits, active, streams, closer>>
            /\ UNCHANGED <<cursor, generation, offset>>
    /\ RecoveryFrame /\ UNCHANGED failedClose

\* The generation failed on probation, or the deadline passed.
RecoverFailed ==
    /\ rec.pc \in {"failed", "exhausted"} /\ ~Ended
    /\ IF rec.pc = "exhausted" THEN GiveUp ELSE Retry(restart)
    /\ RecoveryFrame /\ Unmoved /\ UNCHANGED failedClose

\* The stream ended while the recovery loop was waiting: the loop returns, and
\* #startRecovery with it.
RecoverEnded ==
    /\ Ended /\ rec.pc \in {"close", "sleep", "open", "stable", "failed", "exhausted"}
    /\ rec' = NoRecovery /\ restart' = FALSE
    /\ RecoveryFrame /\ Unmoved
    /\ UNCHANGED <<terminal, state, wait, commits, active, streams, closer, runner, failedClose>>

\* Bug: the restart source is dropped.
BugRecoverFinally ==
    /\ rec.pc = "finish"
    /\ restart' = FALSE
    /\ rec' = NoRecovery
    /\ RecoveryFrame /\ Unmoved
    /\ UNCHANGED <<terminal, state, wait, commits, active, streams, closer, runner, failedClose>>

\* The end of #startRecovery: a generation that failed after the loop returned
\* starts the next recovery.
RecoverFinally ==
    /\ rec.pc = "finish"
    /\ restart' = FALSE
    /\ rec' = IF restart /\ ~Ended /\ state = "recovering" /\ ~active
              THEN [NoRecovery EXCEPT !.pc = "close"] ELSE NoRecovery
    /\ RecoveryFrame /\ Unmoved
    /\ UNCHANGED <<terminal, state, wait, commits, active, streams, closer, runner, failedClose>>

-----------------------------------------------------------------------------
WriteOutcome == WriteAccepted \/ \E retriable \in BOOLEAN : WriteFails(retriable)

RecoverStep ==
    \/ RecoverAfterClose \/ RecoverAfterSleep
    \/ OpenSucceeds \/ Adopt \/ StableTimer \/ DeadlineTimer
    \/ \E b \in BOOLEAN : OpenFails(b) \/ RecoverStable(b)
    \/ RecoverFailed \/ RecoverEnded \/ RecoverFinally

SttNext ==
    \/ SendAudio \/ Commit \/ Close \/ Abort \/ Age
    \/ Drained \/ DrainTimeout \/ CloseTail
    \/ RunJournal \/ WriteOutcome
    \/ \E b \in BOOLEAN : StreamFails(b) \/ Endpoint(b)
    \/ FailedStreamCloses \/ RecoverStep

SttSpec == SttInit /\ [][SttNext]_vars

-----------------------------------------------------------------------------
\* What a generation was sent is a stretch of the log: its audio starts where
\* its offset says (timestamps are shifted by it), has no gap, repeats nothing
\* and keeps the order of admission, and two chunks that a commit separated are
\* still separated by one.  Writes in flight, compaction and replay move the
\* three indices of the journal; a slip of one would show here.
GapFree ==
    \A g \in Generations : \A i \in DOMAIN sent[g] :
        /\ IsAudio(sent[g][i]) =>
             Rank(sent[g][i]) = offset[g] + Cardinality({k \in 1..(i - 1) : IsAudio(sent[g][k])})
        /\ i > 1 =>
             /\ sent[g][i - 1] < sent[g][i]
             /\ IsAudio(sent[g][i - 1]) /\ IsAudio(sent[g][i]) => sent[g][i] = sent[g][i - 1] + 1

\* A recovered generation is declared healthy, and an endpoint is published from
\* it, only when it has been sent all the audio that was undelivered or in the
\* uncertain window when its predecessor failed; no endpoint stays held by then.
ReplayInFull ==
    /\ \A g \in Generations :
         g \in spoke \/ (g = generation /\ state = "healthy") => mustReplay[g] \subseteq Range(sent[g])
    /\ state = "healthy" => held = 0

\* No admitted audio is dropped silently: while the stream lives, a chunk was
\* accepted by some generation or is still to be written, and after a graceful
\* close every chunk was accepted and every commit kept its promise.
NoAudioLost ==
    /\ ~Ended => \A a \in Audio \ Accepted : \E i \in (cursor + 1)..Len(journal) : journal[i] = a
    /\ closed /\ ~terminal /\ ~aborted
         => Audio \subseteq Accepted /\ \A c \in Commits : commits[c] = "resolved"

\* A commit's promise is kept only when all the audio admitted before it was
\* accepted, and is broken only when the stream failed or closed; none is left
\* open once it did.
CommitsAreBarriers ==
    \A c \in Commits :
        /\ commits[c] = "resolved" => \A a \in Audio : a < c => a \in Accepted
        /\ commits[c] = "rejected" => Ended
        /\ Ended => commits[c] # "pending"

\* After a terminal failure, or once close() or abort() returned, no provider
\* stream is left open but the one the recovery loop is about to close.
NothingLeaks ==
    terminal \/ closer \in {"done", "threw"}
        => streams \subseteq (IF rec.pc = "opened" THEN {generation + 1} ELSE {})

\* Nobody waits for a signal that was already given.  A stream without a provider
\* has a recovery loop that will go on, or one that returned and will be started
\* again; the journal loop sleeps only when there is nothing it may write; close()
\* waits only for a journal that is not drained.
NobodySleepsThroughWork ==
    /\ ~Ended /\ ~active => rec.pc # "none" /\ (rec.pc = "finish" => restart)
    /\ runner.pc = "waiting" => Ended \/ ~(cursor < Len(journal) /\ active /\ state \in {"healthy", "probationary"})
    /\ closer = "draining" => ~Ended /\ cursor < Len(journal) /\ runner.pc # "done"
    /\ rec.pc = "wait" => wait.set
=============================================================================
