---------------------------- MODULE PipelineTurn ----------------------------
(***************************************************************************)
(* A turn of the voice pipeline and its durable record (pipeline-loop.ts,  *)
(* runtime-turns.ts, persistence-policy.ts).  Transcripts are answered one *)
(* after the other: the turn is started in the store, spoken, and ended    *)
(* there.  A barge-in starts an interruption checkpoint beside the turn.   *)
(* Every write may fail, commit and be reported as failed, or outlive its  *)
(* deadline and commit later; the loop then holds new turns until it has   *)
(* read what became of the turn, or ends the session.                      *)
(*                                                                         *)
(* JavaScript is single threaded: an action is what runs between two       *)
(* awaits.  A turn is its sequence number.  A critical write has a slot    *)
(* named for what it does and the turn it is about.  Deadlines are steps   *)
(* that may happen at any time.                                            *)
(* The generation of a degradation is left out: only the loop both marks   *)
(* and clears it, so it always matches.  An answer voiced while it is still *)
(* being generated ends its playback here all the same.                    *)
(***************************************************************************)
EXTENDS Naturals, FiniteSets

CONSTANTS
    MaxTurns,   \* bound: transcripts of the call
    MaxFaults   \* bound: writes and reads the store fails or lets time out

ASSUME TurnAssumption == MaxTurns \in Nat \ {0} /\ MaxFaults \in Nat

VARIABLES
    turns,      \* the store: status of each turn
    session,    \* the store: status of the session
    writes,     \* critical writes in flight, by slot
    fenced,     \* the runtime's lease was taken over
    faults,     \* faults left
    queue,      \* transcripts waiting on #turnChain
    loop,       \* #handleTranscript: where it is and what it holds
    waitsFor,   \* the late writes #recoverFailedTurn waits for
    ctl,        \* #active
    health,     \* #checkpoint- and #nonCheckpointPersistenceDegraded
    cp,         \* persistInterruptionCheckpoint and #persistenceGate
    fin,        \* #endSessionAfterPersistenceFailure
    shutdown,   \* the input ended other than by completing
    receipt,    \* history: how a turn's output was confirmed
    reported,   \* history: the status of each turn_completed event
    history     \* what the conversation policy remembers of a turn

storeVars == <<turns, session, writes, fenced, faults>>
loopVars  == <<queue, loop, waitsFor>>
cpVars    == <<cp, fin>>
sayVars   == <<receipt, reported, history>>
vars == <<storeVars, loopVars, ctl, health, cpVars, shutdown, sayVars>>

Turn == 1 .. MaxTurns
Slot == {<<"start", 0>>, <<"session", 0>>}
        \cup ({"status", "end", "fail", "recover", "abandon", "checkpoint"} \X Turn)
Terminal == {"completed", "cancelled", "failed"}
Open == {"started", "thinking", "calling_tool", "speaking", "interrupted"}

Free == [to |-> "none", st |-> "none", wait |-> "none"]
NoControl == [active |-> FALSE, aborted |-> FALSE, cause |-> "none",
              delivered |-> FALSE, audioError |-> FALSE]

StartSlot == <<"start", 0>>
SessionSlot == <<"session", 0>>
Mine(op) == <<op, loop.turn>>

\* How a turn's output was taken for delivered: its audio was confirmed (or accepted, by
\* a transport that confirms nothing), the answer was empty, or its text was accepted
\* before or after the run shut down.
Receipt == {"none", "audio", "empty", "text", "late"}

OpenTurns == {t \in Turn : turns[t] \in Open}
Present == {t \in Turn : turns[t] # "absent"}
LastStarted == Cardinality(Present)
Degraded(h) == h.cp \/ h.other
Ending == fin # "no"
TerminalShutdown == shutdown \/ Ending

Write == [to : Open \cup Terminal \cup {"none"},
          st : {"none", "sent", "done", "refused"},
          wait : {"none", "awaited", "tracked", "dropped", "abandoning"}]

LoopState ==
    [pc : {"idle", "gate", "start", "think", "llm", "calling", "tools", "more",
           "say", "speaking", "play", "text", "deliver", "end", "caught",
           "failing", "recover", "inspect", "recovering", "ending", "ended"},
     turn : 0 .. MaxTurns, seq : 0 .. MaxTurns, retry : BOOLEAN]

Control == [active : BOOLEAN, aborted : BOOLEAN, cause : {"none", "barge_in", "other"},
            delivered : BOOLEAN, audioError : BOOLEAN]

Health == [cp : BOOLEAN, other : BOOLEAN]

CheckpointState == [pc : {"off", "wait", "write", "late", "ending", "failed"},
                    turn : 0 .. MaxTurns]

\* Store, loop, checkpoint and shutdown stay within their types; in particular only a
\* terminal status is ever reported of a turn.
TurnTypeOK ==
    /\ turns \in [Turn -> Open \cup Terminal \cup {"absent"}]
    /\ session \in {"active", "failed", "ended"}
    /\ writes \in [Slot -> Write]
    /\ fenced \in BOOLEAN /\ faults \in 0 .. MaxFaults
    /\ queue \in 0 .. MaxTurns
    /\ loop \in LoopState
    /\ waitsFor \subseteq Slot
    /\ ctl \in Control
    /\ health \in Health
    /\ cp \in CheckpointState
    /\ fin \in {"no", "closing", "write", "done"}
    /\ shutdown \in BOOLEAN
    /\ receipt \in [Turn -> Receipt]
    /\ reported \in [Turn -> Terminal \cup {"none"}]
    /\ history \in [Turn -> {"none", "turn", "interrupted"}]

TurnInit ==
    /\ turns = [t \in Turn |-> "absent"]
    /\ session = "active"
    /\ writes = [s \in Slot |-> Free]
    /\ fenced = FALSE
    /\ faults = MaxFaults
    /\ queue = MaxTurns
    /\ loop = [pc |-> "idle", turn |-> 0, seq |-> 0, retry |-> TRUE]
    /\ waitsFor = {}
    /\ ctl = NoControl
    /\ health = [cp |-> FALSE, other |-> FALSE]
    /\ cp = [pc |-> "off", turn |-> 0]
    /\ fin = "no"
    /\ shutdown = FALSE
    /\ receipt = [t \in Turn |-> "none"]
    /\ reported = [t \in Turn |-> "none"]
    /\ history = [t \in Turn |-> "none"]

-----------------------------------------------------------------------------
(***************************************************************************)
(* The store.  A transaction reads the records it depends on and commits   *)
(* in one step; what it answers is "done" or "refused".                    *)
(***************************************************************************)
AllowedFrom(to) ==
    CASE to = "thinking"     -> {"started", "calling_tool"}
      [] to = "calling_tool" -> {"thinking"}
      [] to = "speaking"     -> {"thinking", "calling_tool"}

\* A turn may start in an active session that has no turn under way.
StartCommits == session = "active" /\ OpenTurns = {}

\* updateTurnStatus leaves a terminal or interrupted turn as it is.
StatusAfter(t, to) ==
    IF turns[t] \in AllowedFrom(to) THEN to ELSE turns[t]

StatusRefused(t, to) ==
    turns[t] \notin AllowedFrom(to) \cup Terminal \cup {"interrupted", to}

\* endTurn: the first terminal status of a turn stands.
EndAfter(t, to) == IF turns[t] \in Terminal THEN turns[t] ELSE to

\* checkpointTurnInterruption never touches a turn that has ended.
BugCheckpointAfter(t) == "interrupted"
CheckpointAfter(t) == IF turns[t] \in Terminal THEN turns[t] ELSE "interrupted"

\* endSession ends the turns still under way with the session.
TurnsEndedWith(to) ==
    [t \in Turn |-> IF turns[t] \in Open THEN to ELSE turns[t]]

Commit(s) ==
    LET w == writes[s]
        op == s[1]
        t == s[2]
        Answer(a) == writes' = [writes EXCEPT ![s].st = a]
        Put(v) == turns' = [turns EXCEPT ![t] = v] /\ Answer("done")
    IN  /\ w.st = "sent" /\ ~fenced
        /\ \/ /\ op = "start"
              /\ IF StartCommits
                   THEN /\ turns' = [turns EXCEPT ![LastStarted + 1] = "started"]
                        /\ Answer("done")
                   ELSE UNCHANGED turns /\ Answer("refused")
              /\ UNCHANGED session
           \/ /\ op = "status"
              /\ IF StatusRefused(t, w.to)
                   THEN UNCHANGED turns /\ Answer("refused")
                   ELSE Put(StatusAfter(t, w.to))
              /\ UNCHANGED session
           \/ /\ op \in {"end", "fail", "recover", "abandon"}
              /\ Put(EndAfter(t, w.to))
              /\ UNCHANGED session
           \/ /\ op = "checkpoint"
              /\ Put(CheckpointAfter(t))
              /\ UNCHANGED session
           \/ /\ op = "session"
              /\ session' = IF session = "active" THEN "failed" ELSE session
              /\ turns' = IF session = "active" THEN TurnsEndedWith(w.to) ELSE turns
              /\ Answer("done")
        /\ UNCHANGED <<fenced, faults, loopVars, ctl, health, cpVars, shutdown, sayVars>>

\* What the caller of a write may be told: its answer, a lost connection (the
\* write may have committed), a refusal, or that criticalWrite's deadline passed.
Outcomes(s) ==
    (IF writes[s].st = "done" THEN {"ok"} ELSE {})
    \cup (IF writes[s].st = "refused" \/ (writes[s].st = "sent" /\ fenced)
            THEN {"refused"} ELSE {})
    \cup (IF faults > 0 /\ writes[s].st # "none" THEN {"unavailable", "timeout"} ELSE {})

\* A write that timed out stays in flight; its settlement is tracked or dropped.
Told(s, o, wait) ==
    [writes EXCEPT ![s] = IF o = "timeout" THEN [@ EXCEPT !.wait = wait] ELSE Free]

Charged(o) == faults' = IF o \in {"unavailable", "timeout"} THEN faults - 1 ELSE faults

Send(ws, s, to) ==
    [ws EXCEPT ![s] = [to |-> to, st |-> "sent", wait |-> "awaited"]]

Tracked(ws) == {s \in Slot : ws[s].wait \in {"tracked", "abandoning"}}

\* A late write settles: it has committed, or it never will.  A turn that was
\* started late is abandoned: it is ended before the settlement resolves.
LateSettles(s) ==
    /\ writes[s].wait \in {"tracked", "dropped"}
    /\ IF s = StartSlot /\ writes[s].st = "done"
         THEN /\ writes' = Send([writes EXCEPT ![s].wait = "abandoning"],
                                <<"abandon", LastStarted>>, "cancelled")
              /\ UNCHANGED waitsFor
         ELSE /\ writes' = [writes EXCEPT ![s] = Free]
              /\ waitsFor' = waitsFor \ {s}
    /\ UNCHANGED <<turns, session, fenced, faults, queue, loop, ctl, health,
                   cpVars, shutdown, sayVars>>

\* #abandonLateTurn swallows whatever its endTurn throws.
LateTurnAbandoned(t) ==
    LET s == <<"abandon", t>> IN
    /\ writes[s].wait = "awaited"
    /\ \E o \in Outcomes(s) :
         /\ Charged(o)
         /\ writes' = [Told(s, o, "dropped") EXCEPT ![StartSlot] = Free]
    /\ waitsFor' = waitsFor \ {StartSlot}
    /\ UNCHANGED <<turns, session, fenced, queue, loop, ctl, health,
                   cpVars, shutdown, sayVars>>

-----------------------------------------------------------------------------
(***************************************************************************)
(* Persistence health.  #syncPersistenceHealth aborts the active turn      *)
(* while persistence is degraded.                                          *)
(***************************************************************************)
Silenced(h, c) ==
    IF Degraded(h) /\ c.active THEN [c EXCEPT !.aborted = TRUE] ELSE c

Sync(h, c) ==
    /\ health' = h
    /\ ctl' = Silenced(h, c)

Marked == [health EXCEPT !.other = TRUE]
Cleared == [health EXCEPT !.other = FALSE]

AbortActive(c) ==
    IF c.active /\ c.cause = "none" /\ ~c.delivered
      THEN [c EXCEPT !.cause = "other", !.aborted = TRUE]
      ELSE c

At(pc) == [loop EXCEPT !.pc = pc]
NextTurn == [loop EXCEPT !.pc = "idle", !.turn = 0, !.retry = TRUE]

\* The end of #handleTranscript for a turn that reached the caller: what the
\* turn_completed event and the conversation policy say, and #active = null.
Finish(status, remembered) ==
    /\ reported' = [reported EXCEPT ![loop.turn] = status]
    /\ history' = [history EXCEPT ![loop.turn] = remembered]
    /\ loop' = NextTurn

\* #endSessionAfterPersistenceFailure runs once: its first caller waits for it,
\* a later one returns at once.
BeginEnding ==
    /\ fin' = IF fin = "no" THEN "closing" ELSE fin
    /\ loop' = At(IF fin = "no" THEN "ending" ELSE "ended")

-----------------------------------------------------------------------------
(***************************************************************************)
(* #handleTranscript: admission and the start of the turn.                 *)
(***************************************************************************)
TurnChainRuns ==
    /\ loop.pc = "idle" /\ queue > 0
    /\ queue' = queue - 1
    /\ loop' = At("gate")
    /\ UNCHANGED <<storeVars, waitsFor, ctl, health, cpVars, shutdown, sayVars>>

\* The checkpoint of the turn before is awaited before its outcome is looked at.
BugGateSettled == TRUE
GateSettled == cp.pc \in {"off", "failed"}

GateClosed ==
    /\ loop.pc = "gate" /\ GateSettled
    /\ \/ /\ Ending
          /\ loop' = NextTurn
          /\ UNCHANGED <<health, ctl, fin>>
       \/ /\ ~Ending /\ (cp.pc = "failed" \/ Degraded(health))
          /\ Sync(Marked, ctl)
          /\ BeginEnding
    /\ UNCHANGED <<storeVars, queue, waitsFor, cp, shutdown, sayVars>>

StartTurn ==
    /\ loop.pc = "gate" /\ GateSettled
    /\ ~Ending /\ cp.pc # "failed" /\ ~Degraded(health)
    /\ writes' = Send(writes, StartSlot, "started")
    /\ loop' = At("start")
    /\ UNCHANGED <<turns, session, fenced, faults, queue, waitsFor, ctl, health,
                   cpVars, shutdown, sayVars>>

\* A turn that cannot be started is looked for in the store when the backend was
\* unavailable; any other failure leaves no time to look and ends the session.
StartFailed(o, ws) ==
    /\ Sync(Marked, ctl)
    /\ IF o = "refused"
         THEN BeginEnding /\ UNCHANGED waitsFor
         ELSE loop' = At("recover") /\ waitsFor' = Tracked(ws) /\ UNCHANGED fin

TurnStarted ==
    /\ loop.pc = "start"
    /\ \E o \in Outcomes(StartSlot) :
         /\ Charged(o)
         /\ \/ /\ o = "ok"
               /\ writes' = Send(Told(StartSlot, o, "tracked"), <<"status", LastStarted>>, "thinking")
               /\ loop' = [loop EXCEPT !.pc = "think", !.turn = LastStarted, !.seq = LastStarted]
               /\ UNCHANGED <<waitsFor, ctl, health, fin>>
            \/ /\ o # "ok"
               /\ writes' = Told(StartSlot, o, "tracked")
               /\ StartFailed(o, writes')
    /\ UNCHANGED <<turns, session, fenced, queue, cp, shutdown, sayVars>>

\* The turn becomes active; a shutdown met meanwhile aborts it at once.
TurnActivated ==
    /\ loop.pc = "think"
    /\ \E o \in Outcomes(Mine("status")) :
         /\ Charged(o)
         /\ writes' = Told(Mine("status"), o, "tracked")
         /\ \/ /\ o = "ok"
               /\ loop' = At("llm")
               /\ ctl' = [NoControl EXCEPT !.active = TRUE, !.aborted = shutdown,
                                           !.cause = IF shutdown THEN "other" ELSE "none"]
               /\ UNCHANGED <<waitsFor, health, fin>>
            \/ o # "ok" /\ StartFailed(o, writes')
    /\ UNCHANGED <<turns, session, fenced, queue, cp, shutdown, sayVars>>

-----------------------------------------------------------------------------
(***************************************************************************)
(* #handleTranscript: the answer.                                          *)
(***************************************************************************)
\* A completion ends with text, with tool calls, by stalling under the policy
\* that interrupts, or by throwing.  An aborted one ends with what it has.
LlmEnds ==
    /\ loop.pc \in {"llm", "more"}
    /\ \/ /\ loop' = At("say")
          /\ ctl' \in {ctl, AbortActive(ctl)}
          /\ UNCHANGED writes
       \/ /\ loop.pc = "llm" /\ ~ctl.aborted
          /\ writes' = Send(writes, Mine("status"), "calling_tool")
          /\ loop' = At("calling")
          /\ UNCHANGED ctl
       \/ /\ loop' = At("caught")
          /\ UNCHANGED <<writes, ctl>>
    /\ UNCHANGED <<turns, session, fenced, faults, queue, waitsFor, health,
                   cpVars, shutdown, sayVars>>

CallingTool ==
    /\ loop.pc = "calling"
    /\ \E o \in Outcomes(Mine("status")) :
         /\ Charged(o)
         /\ writes' = Told(Mine("status"), o, "tracked")
         /\ \/ o = "ok" /\ loop' = At("tools") /\ UNCHANGED <<ctl, health>>
            \/ o # "ok" /\ loop' = At("caught") /\ Sync(Marked, ctl)
    /\ UNCHANGED <<turns, session, fenced, queue, waitsFor, cpVars, shutdown, sayVars>>

\* The tool calls are written (module ToolIdempotency); a write of theirs that
\* fails degrades persistence and throws.
ToolsRun ==
    /\ loop.pc = "tools"
    /\ \/ /\ loop' = At(IF ctl.aborted THEN "say" ELSE "more")
          /\ UNCHANGED <<faults, ctl, health>>
       \/ /\ faults > 0 /\ faults' = faults - 1
          /\ Sync(Marked, ctl)
          /\ loop' = At("caught")
    /\ UNCHANGED <<turns, session, writes, fenced, queue, waitsFor, cpVars, shutdown, sayVars>>

\* A call without a voice goes straight on to the text.
Speak ==
    /\ loop.pc = "say"
    /\ \/ loop' = At("text") /\ UNCHANGED writes
       \/ /\ ~ctl.aborted
          /\ writes' = Send(writes, Mine("status"), "speaking")
          /\ loop' = At("speaking")
    /\ UNCHANGED <<turns, session, fenced, faults, queue, waitsFor, ctl, health,
                   cpVars, shutdown, sayVars>>

\* A "speaking" write that fails is taken for a failure of the voice: the turn
\* goes on without audio.
SpeakingWritten ==
    /\ loop.pc = "speaking"
    /\ \E o \in Outcomes(Mine("status")) :
         /\ Charged(o)
         /\ writes' = Told(Mine("status"), o, "tracked")
         /\ \/ o = "ok" /\ loop' = At("play") /\ UNCHANGED <<ctl, health>>
            \/ /\ o # "ok" /\ loop' = At("text")
               /\ Sync(Marked, AbortActive([Silenced(Marked, ctl) EXCEPT !.audioError = TRUE]))
    /\ UNCHANGED <<turns, session, fenced, queue, waitsFor, cpVars, shutdown, sayVars>>

\* A transport that confirms playout does so only for a turn not aborted meanwhile.  One
\* that confirms nothing, and an answer with nothing to say, do not look at the abort:
\* the transport being either, no way of delivering is guarded.
PlaybackEnds ==
    /\ loop.pc = "play"
    /\ loop' = At("text")
    /\ \/ \E how \in {"audio", "empty"} :
            /\ ctl' = [ctl EXCEPT !.delivered = TRUE]
            /\ receipt' = [receipt EXCEPT ![loop.turn] = how]
       \/ UNCHANGED <<ctl, receipt>>
       \/ /\ ctl' = AbortActive([ctl EXCEPT !.audioError = TRUE])
          /\ UNCHANGED receipt
    /\ UNCHANGED <<storeVars, queue, waitsFor, health, cpVars, shutdown,
                   reported, history>>

\* The text is sent unless the run has shut down or the turn was cancelled by
\* anything but the caller's speech; after a barge-in nothing is sent.
MaySendText ==
    /\ ~TerminalShutdown
    /\ ~ctl.aborted \/ ctl.audioError
    /\ ctl.cause # "barge_in"

\* What endTurn is asked for.  An acceptance that arrives after the shutdown
\* does not revive the turn.
BugOutcome(text) == IF ctl.delivered \/ text THEN "completed" ELSE "cancelled"
Outcome(text) ==
    IF ctl.delivered \/ (text /\ ~TerminalShutdown) THEN "completed" ELSE "cancelled"

EndTurn(text) ==
    /\ writes' = Send(writes, Mine("end"), Outcome(text))
    /\ ctl' = [ctl EXCEPT !.delivered = @ \/ text]
    /\ loop' = At("end")

DeliverText ==
    /\ loop.pc = "text"
    /\ \/ MaySendText /\ loop' = At("deliver") /\ UNCHANGED <<writes, ctl>>
       \/ EndTurn(FALSE)
    /\ UNCHANGED <<turns, session, fenced, faults, queue, waitsFor, health,
                   cpVars, shutdown, sayVars>>

TextDelivered ==
    /\ loop.pc = "deliver"
    /\ \E text \in BOOLEAN :
         /\ EndTurn(text)
         /\ receipt' = IF ~text \/ ctl.delivered THEN receipt
                       ELSE [receipt EXCEPT ![loop.turn] = IF TerminalShutdown THEN "late" ELSE "text"]
    /\ UNCHANGED <<turns, session, fenced, faults, queue, waitsFor, health,
                   cpVars, shutdown, reported, history>>

\* What the loop remembers and reports is the record endTurn returned, which
\* another writer may have made.
Remembered(asked, status) ==
    CASE status = "completed" -> "turn"
      [] status = "cancelled" /\ asked = "cancelled" /\ ctl.cause = "barge_in" -> "interrupted"
      [] OTHER -> "none"

BugRecorded(w) == w.to
Recorded(w) == turns[loop.turn]

TurnEnded ==
    /\ loop.pc = "end"
    /\ \E o \in Outcomes(Mine("end")) :
         /\ Charged(o)
         /\ writes' = Told(Mine("end"), o, "tracked")
         /\ \/ /\ o = "ok"
               /\ Finish(Recorded(writes[Mine("end")]),
                         Remembered(writes[Mine("end")].to, Recorded(writes[Mine("end")])))
               /\ ctl' = NoControl
               /\ UNCHANGED <<health>>
            \/ /\ o # "ok" /\ loop' = At("caught")
               /\ Sync(Marked, ctl)
               /\ UNCHANGED <<reported, history>>
    /\ UNCHANGED <<turns, session, fenced, queue, waitsFor, cpVars, shutdown, receipt>>

-----------------------------------------------------------------------------
(***************************************************************************)
(* #handleTranscript: the error path, and #recoverFailedTurn.              *)
(***************************************************************************)
\* A terminal record was found or written: the loop reports it and, if
\* persistence was degraded by the turn, clears it.
Settled(status) ==
    /\ IF health.other THEN Sync(Cleared, NoControl)
                       ELSE ctl' = NoControl /\ UNCHANGED <<health>>
    /\ Finish(status, Remembered("failed", status))

ToRecover(ws) ==
    /\ loop' = [loop EXCEPT !.pc = "recover"]
    /\ waitsFor' = Tracked(ws)

\* readTerminalTurn and the same test in #recoverFailedTurn.
BugFoundTerminal(t) == turns[t] # "absent"
FoundTerminal(t) == turns[t] \in Terminal

Caught ==
    /\ loop.pc = "caught"
    /\ \E read \in BOOLEAN :
         /\ read \/ faults > 0
         /\ faults' = IF read THEN faults ELSE faults - 1
         /\ \/ /\ read /\ FoundTerminal(loop.turn)
               /\ Settled(turns[loop.turn])
               /\ UNCHANGED <<writes, waitsFor>>
            \/ /\ ~read \/ ~FoundTerminal(loop.turn)
               /\ IF health.other
                    THEN ToRecover(writes) /\ UNCHANGED writes
                    ELSE /\ writes' = Send(writes, Mine("fail"), "failed")
                         /\ loop' = At("failing")
                         /\ UNCHANGED waitsFor
               /\ UNCHANGED <<ctl, health, reported, history>>
    /\ UNCHANGED <<turns, session, fenced, queue, cpVars, shutdown, receipt>>

\* The loop's own deadline may pass first; it then does not track the write.
FailWritten ==
    /\ loop.pc = "failing"
    /\ \E o \in Outcomes(Mine("fail")), wait \in {"tracked", "dropped"} :
         /\ Charged(o)
         /\ writes' = Told(Mine("fail"), o, wait)
         /\ \/ /\ o = "ok"
               /\ Settled(turns[loop.turn])
               /\ UNCHANGED waitsFor
            \/ /\ o # "ok"
               /\ Sync(Marked, ctl)
               /\ ToRecover(writes')
               /\ UNCHANGED <<reported, history>>
    /\ UNCHANGED <<turns, session, fenced, queue, cpVars, shutdown, receipt>>

\* A turn whose start failed has no control and is neither reported nor
\* remembered; only the health it degraded is cleared.
Recovered(status) ==
    IF ctl.active
      THEN Settled(status)
      ELSE /\ Sync(Cleared, ctl)
           /\ loop' = NextTurn
           /\ UNCHANGED <<reported, history>>

LateWritesSettled ==
    /\ loop.pc = "recover" /\ waitsFor = {}
    /\ loop' = At("inspect")
    /\ UNCHANGED <<storeVars, queue, waitsFor, ctl, health, cpVars, shutdown, sayVars>>

\* The one with the lowest sequence.
Earliest(ts) == CHOOSE t \in ts : \A u \in ts : t <= u

\* The turn under recovery; a start that was not answered is looked for by its
\* sequence, the session's current turn first.
Candidate ==
    LET Newer == {t \in Present : t > loop.seq}
    IN  CASE loop.turn # 0 -> loop.turn
          [] loop.turn = 0 /\ OpenTurns # {} /\ OpenTurns \cap Newer # {} -> Earliest(OpenTurns \cap Newer)
          [] loop.turn = 0 /\ OpenTurns = {} /\ Newer # {} -> Earliest(Newer)
          [] OTHER -> 0

Inspect ==
    /\ loop.pc = "inspect"
    /\ \E read, cutoff \in BOOLEAN :
         LET t == IF read THEN Candidate ELSE loop.turn IN
         /\ read \/ faults > 0
         /\ faults' = IF read THEN faults ELSE faults - 1
         /\ \/ /\ read /\ t # 0 /\ FoundTerminal(t)
               /\ Recovered(turns[t])
               /\ UNCHANGED <<writes, waitsFor>>
            \/ /\ ~(read /\ t # 0 /\ FoundTerminal(t))
               /\ IF t # 0 /\ loop.retry /\ cutoff
                    THEN /\ writes' = Send(writes, <<"recover", t>>, "failed")
                         /\ loop' = [loop EXCEPT !.pc = "recovering", !.turn = t]
                         /\ UNCHANGED waitsFor
                    ELSE /\ loop' = [loop EXCEPT !.pc = "recover", !.turn = t]
                         /\ waitsFor' = Tracked(writes)
                         /\ UNCHANGED writes
               /\ UNCHANGED <<ctl, health, reported, history>>
    /\ UNCHANGED <<turns, session, fenced, queue, cpVars, shutdown, receipt>>

\* Only a write that was certainly not left in flight is tried again.
RecoveryWritten ==
    /\ loop.pc = "recovering"
    /\ \E o \in Outcomes(Mine("recover")) :
         /\ Charged(o)
         /\ writes' = Told(Mine("recover"), o, "tracked")
         /\ \/ /\ o = "ok"
               /\ Recovered(turns[loop.turn])
               /\ UNCHANGED waitsFor
            \/ /\ o # "ok"
               /\ loop' = [loop EXCEPT !.pc = "recover", !.retry = @ /\ o = "unavailable"]
               /\ waitsFor' = Tracked(writes')
               /\ Sync(Marked, ctl)
               /\ UNCHANGED <<reported, history>>
    /\ UNCHANGED <<turns, session, fenced, queue, cpVars, shutdown, receipt>>

\* The window closed: the session is ended, and a write in flight is left alone.
RecoveryGivesUp ==
    /\ loop.pc \in {"recover", "inspect", "recovering"}
    /\ BeginEnding
    /\ writes' = IF loop.pc = "recovering"
                   THEN [writes EXCEPT ![Mine("recover")].wait = "dropped"] ELSE writes
    /\ waitsFor' = {}
    /\ UNCHANGED <<turns, session, fenced, faults, queue, ctl, health,
                   cp, shutdown, sayVars>>

LoopEnds ==
    /\ loop.pc = "ended" \/ (loop.pc = "ending" /\ fin = "done")
    /\ IF ctl.active
         THEN Finish("failed", "none") /\ ctl' = NoControl
         ELSE loop' = NextTurn /\ UNCHANGED <<ctl, reported, history>>
    /\ UNCHANGED <<storeVars, queue, waitsFor, health, cpVars, shutdown, receipt>>

-----------------------------------------------------------------------------
(***************************************************************************)
(* The interruption checkpoint, which runs beside the turn.  Its attempts  *)
(* and its recovery grace are one loop: both end at the same deadline.     *)
(***************************************************************************)
\* #interrupt; a barge-in is not raised once the output was delivered.
Interrupt(cause) ==
    /\ ctl.active /\ ctl.cause = "none"
    /\ cause = "barge_in" => ~ctl.delivered
    /\ ctl' = [ctl EXCEPT !.cause = cause, !.aborted = TRUE]
    /\ cp' = [pc |-> "wait", turn |-> loop.turn]
    /\ UNCHANGED <<storeVars, loopVars, health, fin, shutdown, sayVars>>

CheckpointAttempt ==
    /\ cp.pc = "wait"
    /\ writes' = Send(writes, <<"checkpoint", cp.turn>>, "interrupted")
    /\ cp' = [cp EXCEPT !.pc = "write"]
    /\ UNCHANGED <<turns, session, fenced, faults, loopVars, ctl, health, fin,
                   shutdown, sayVars>>

\* onFatal ends the session and is awaited unless the session is ending already.
CheckpointFatal ==
    /\ fin' = IF fin = "no" THEN "closing" ELSE fin
    /\ cp' = [cp EXCEPT !.pc = IF fin = "no" THEN "ending" ELSE "failed"]

\* A checkpoint that timed out is not tried again before it has settled.
BugRetryAfter == "wait"
RetryAfter == "late"

CheckpointWritten ==
    /\ cp.pc = "write"
    /\ \E o \in Outcomes(<<"checkpoint", cp.turn>>) :
         /\ Charged(o)
         /\ writes' = Told(<<"checkpoint", cp.turn>>, o, "tracked")
         /\ \/ /\ o = "ok"
               /\ Sync([health EXCEPT !.cp = FALSE], ctl)
               /\ cp' = [cp EXCEPT !.pc = "off"]
               /\ UNCHANGED fin
            \/ /\ o # "ok"
               /\ Sync([health EXCEPT !.cp = TRUE], ctl)
               /\ CASE o = "unavailable" -> cp' = [cp EXCEPT !.pc = "wait"] /\ UNCHANGED fin
                    [] o = "timeout"     -> cp' = [cp EXCEPT !.pc = RetryAfter] /\ UNCHANGED fin
                    [] o = "refused"     -> CheckpointFatal
    /\ UNCHANGED <<turns, session, fenced, loopVars, shutdown, sayVars>>

LateCheckpointSettled ==
    /\ cp.pc = "late" /\ writes[<<"checkpoint", cp.turn>>].st = "none"
    /\ cp' = [cp EXCEPT !.pc = "wait"]
    /\ UNCHANGED <<storeVars, loopVars, ctl, health, fin, shutdown, sayVars>>

\* The deadline passed: a write in flight is handed to the ending session.
CheckpointGivesUp ==
    /\ cp.pc \in {"wait", "write", "late"}
    /\ writes' = IF cp.pc = "write"
                   THEN [writes EXCEPT ![<<"checkpoint", cp.turn>>].wait = "dropped"] ELSE writes
    /\ Sync([health EXCEPT !.cp = TRUE], ctl)
    /\ CheckpointFatal
    /\ UNCHANGED <<turns, session, fenced, faults, loopVars, shutdown, sayVars>>

CheckpointEnds ==
    /\ cp.pc = "ending" /\ fin = "done"
    /\ cp' = [cp EXCEPT !.pc = "failed"]
    /\ UNCHANGED <<storeVars, loopVars, ctl, health, fin, shutdown, sayVars>>

-----------------------------------------------------------------------------
(***************************************************************************)
(* #endSessionAfterPersistenceFailure.  The call is closed and the writes  *)
(* in flight are given a bounded time to settle, so it may go on at once.  *)
(***************************************************************************)
CallClosed ==
    /\ fin = "closing"
    /\ fin' = "write"
    /\ writes' = Send(writes, SessionSlot, "failed")
    /\ UNCHANGED <<turns, session, fenced, faults, loopVars, ctl, health, cp,
                   shutdown, sayVars>>

SessionEndWritten ==
    /\ fin = "write"
    /\ \E o \in Outcomes(SessionSlot) :
         /\ Charged(o)
         /\ \/ /\ o = "unavailable"
               /\ writes' = Send(writes, SessionSlot, "failed")
               /\ UNCHANGED fin
            \/ /\ writes' = Told(SessionSlot, o, "dropped")
               /\ fin' = "done"
    /\ UNCHANGED <<turns, session, fenced, loopVars, ctl, health, cp, shutdown, sayVars>>

-----------------------------------------------------------------------------
(***************************************************************************)
(* What happens around the loop.                                           *)
(***************************************************************************)
\* The caller hangs up, the transport or the transcriber fails, or the run is
\* cancelled: #latchInputShutdown.
Shutdown ==
    /\ ~shutdown
    /\ shutdown' = TRUE
    /\ ctl' = AbortActive(ctl)
    /\ UNCHANGED <<storeVars, loopVars, health, cpVars, sayVars>>

\* The host ends the session (module SessionEnd), whatever the turn is doing.
HostEndsSession(to) ==
    /\ session = "active" /\ ~fenced /\ faults > 0
    /\ faults' = faults - 1
    /\ session' = "ended"
    /\ turns' = TurnsEndedWith(to)
    /\ UNCHANGED <<writes, fenced, loopVars, ctl, health, cpVars, shutdown, sayVars>>

\* Another runtime takes the session over (module SessionLease).
LeaseLost ==
    /\ ~fenced /\ fenced' = TRUE
    /\ faults > 0 /\ faults' = faults - 1
    /\ UNCHANGED <<turns, session, writes, loopVars, ctl, health, cpVars,
                   shutdown, sayVars>>

Store == (\E s \in Slot : Commit(s) \/ LateSettles(s)) \/ (\E t \in Turn : LateTurnAbandoned(t))

Loop ==
    \/ TurnChainRuns \/ GateClosed \/ StartTurn \/ TurnStarted \/ TurnActivated
    \/ LlmEnds \/ CallingTool \/ ToolsRun \/ Speak \/ SpeakingWritten \/ PlaybackEnds
    \/ DeliverText \/ TextDelivered \/ TurnEnded
    \/ Caught \/ FailWritten \/ LateWritesSettled \/ Inspect \/ RecoveryWritten
    \/ RecoveryGivesUp \/ LoopEnds

Checkpoint ==
    \/ CheckpointAttempt \/ CheckpointWritten \/ LateCheckpointSettled
    \/ CheckpointGivesUp \/ CheckpointEnds

EndOfSession == CallClosed \/ SessionEndWritten

Environment ==
    \/ Shutdown \/ LeaseLost
    \/ \E cause \in {"barge_in", "other"} : Interrupt(cause)
    \/ \E to \in {"cancelled", "failed"} : HostEndsSession(to)

TurnNext ==
    Store \/ Loop \/ Checkpoint \/ EndOfSession
    \/ Environment

TurnSpec == TurnInit /\ [][TurnNext]_vars

-----------------------------------------------------------------------------
\* A turn's first terminal status is its last: neither a late write, a late
\* checkpoint nor the end of the session changes it (runtime-turns.ts).
TerminalIsFinal ==
    [][\A t \in Turn : turns[t] \in Terminal => turns'[t] = turns[t]]_vars

\* What the loop says of a turn is what the store holds: a turn_completed event
\* carries the stored status, only a stored completion is remembered as an answer
\* and only a stored cancellation as an interrupted one, although deadlines pass
\* before commits and the session may be ended from outside.  A failure that could
\* not be confirmed is reported only when the session is being ended.
ReportsWhatIsStored ==
    \A t \in Turn :
      /\ reported[t] \in {"completed", "cancelled"} => turns[t] = reported[t]
      /\ reported[t] = "failed" => turns[t] = "failed" \/ Ending
      /\ history[t] = "turn" => turns[t] = "completed"
      /\ history[t] = "interrupted" => turns[t] = "cancelled"

\* A turn stands as completed, or is remembered as answered, only if its output was
\* taken for delivered: its audio was confirmed (or accepted, by a transport that
\* confirms nothing), its text was accepted before the run shut down (#handleTranscript,
\* acceptedAfterTerminalShutdown), or its answer was empty, which completes the turn
\* with nothing heard even after a barge-in (speak).  A turn whose voice failed or was
\* cut off, and one whose text was accepted late, never is, although writes that time
\* out commit later, and recovery and the end of the session write the turn too.
CompletedWasDelivered ==
    \A t \in Turn :
      turns[t] = "completed" \/ history[t] = "turn" => receipt[t] \in {"audio", "text", "empty"}

\* No turn is left behind: between two turns, and when the loop asks the store for a
\* new one, every turn has ended in the store, also one whose start was answered late,
\* was reported as failed after it committed, or was interrupted.  Otherwise the
\* session is being ended.  So the store never has to refuse a turn because another
\* is under way (turn.already_active).
NoTurnLeftBehind ==
    \/ loop.pc \in {"idle", "gate"}
    \/ loop.pc = "start" /\ writes[StartSlot].st = "sent"
    => OpenTurns = {} \/ Ending

\* While persistence is degraded no turn goes on talking: the active turn has been
\* aborted, whichever of the loop and the checkpoint met the failure, and a turn that
\* starts finds persistence healthy (#syncPersistenceHealth, #persistenceGate).
DegradedIsSilent ==
    /\ Degraded(health) /\ ctl.active => ctl.aborted
    /\ loop.pc = "start" /\ writes[StartSlot].wait = "awaited" => ~Degraded(health)

\* One interruption checkpoint of a turn is in flight at a time: a checkpoint that
\* timed out is not sent again before it has settled (persistence-policy.ts).
OneCheckpoint ==
    [][\A t \in Turn :
         writes[<<"checkpoint", t>>].wait \in {"tracked", "dropped"}
           => writes'[<<"checkpoint", t>>].wait # "awaited"]_vars
=============================================================================
