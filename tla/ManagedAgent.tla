---------------------------- MODULE ManagedAgent ----------------------------
(***************************************************************************)
(* The managed voice agent (managed-agent.ts): calls are started, claimed, *)
(* run, cancelled and finalized while the agent starts its runtime once,   *)
(* and stop() drains every call before it stops the runtime, up to a       *)
(* deadline.                                                               *)
(*                                                                         *)
(* An action is what runs between two awaits.  The runtime, the call       *)
(* transport, the snapshot loader and the pipeline are external: each of   *)
(* their promises may resolve, reject or stay pending for ever.  Left out: *)
(* the validation of options and capabilities, which error and terminal    *)
(* source a call reports, and the flags behind healthCheck.                *)
(***************************************************************************)
EXTENDS Naturals, FiniteSets

CONSTANT Call   \* bound: the calls of start()

VARIABLES
    rec,        \* ManagedStartRecord of each call, and what it holds
    lifecycle,  \* #lifecycle
    runtime,    \* #runtimeStartState; "idle" when there is no start promise
    rtStop,     \* #runtimeStopPromise
    gate,       \* where #stopGate waits
    stopResult, \* how stop() settled
    stopLater   \* the runtime is stopped as soon as its late start fulfils

agentVars == <<lifecycle, runtime, rtStop, gate, stopResult, stopLater>>
vars == <<rec, agentVars>>

(***************************************************************************)
(* pc        where start() is                                              *)
(* sig, halt record.factorySignal and record.runSignal are aborted (both   *)
(*           are dropped with the finalization: nobody reads them after)   *)
(* rt        the start promise of the runtime, while the call awaits it    *)
(* session   the session behind record.attachment, attached once it is set *)
(* handle    the call handle, accepted once handleAccepted is set          *)
(* final     record.finalization; outcome is finalizationOutcome           *)
(* stopping  session.stop() waits for finalSession                         *)
(* late      lateCleanupPending                                            *)
(* listed    the record is in #records, its abort listeners registered     *)
(***************************************************************************)
Record ==
    [pc : {"idle", "preflight", "runtime", "attach", "handle", "failing", "threw",
           "returned"},
     state : {"created", "starting", "attached", "deferred", "running", "finalizing",
              "settled"},
     sig : BOOLEAN, halt : BOOLEAN,
     rt : {"none", "pending", "ok", "failed"},
     session : {"none", "opening", "active", "ending", "ended", "endFailed"},
     attached : BOOLEAN,
     handle : {"none", "making", "open", "closing", "closed", "closeFailed"},
     accepted : BOOLEAN,
     run : {"none", "going", "done"},
     final : {"none", "pending", "ok", "failed", "timedOut"},
     outcome : {"none", "ok", "failed"},
     stopping : BOOLEAN, late : BOOLEAN, listed : BOOLEAN]

NoRecord ==
    [pc |-> "idle", state |-> "created", sig |-> FALSE, halt |-> FALSE,
     rt |-> "none", session |-> "none", attached |-> FALSE,
     handle |-> "none", accepted |-> FALSE, run |-> "none", final |-> "none",
     outcome |-> "none", stopping |-> FALSE, late |-> FALSE, listed |-> FALSE]

AgentInit ==
    /\ rec = [c \in Call |-> NoRecord]
    /\ lifecycle = "accepting" /\ runtime = "idle"
    /\ rtStop = "none" /\ gate = "none" /\ stopResult = "none"
    /\ stopLater = FALSE

Put(c, r) == rec' = [rec EXCEPT ![c] = r]

-----------------------------------------------------------------------------
(***************************************************************************)
(* Finalization.                                                           *)
(***************************************************************************)

\* #finalizeStartup, #finalizeRun and #cleanupRecord: once per record, the handle
\* is closed and the session ended, concurrently.
Finalize(r) ==
    IF r.final # "none" THEN r
    ELSE [r EXCEPT !.state = "finalizing", !.final = "pending",
                   !.sig = FALSE, !.halt = FALSE, !.rt = "none",
                   !.handle = IF r.accepted THEN "closing" ELSE @,
                   !.session = IF r.attached THEN "ending" ELSE @]

Barrier(r) ==
    /\ r.accepted => r.handle # "closing"
    /\ r.attached => r.session # "ending"

\* #maybeResolveCleanup: the record is forgotten once nothing late is pending.
BugResolved(r) == IF r.state = "settled" THEN [r EXCEPT !.listed = FALSE] ELSE r
Resolved(r) == IF r.state = "settled" /\ ~r.late THEN [r EXCEPT !.listed = FALSE] ELSE r

\* finalizationOutcome keeps its first result.
Told(r, result) == [r EXCEPT !.outcome = IF @ = "none" THEN result ELSE @,
                             !.stopping = FALSE]

Settled(r, result) ==
    Resolved([Told(r, IF result = "ok" THEN "ok" ELSE "failed") EXCEPT
                !.final = result, !.state = "settled",
                !.pc = IF @ = "failing" THEN "threw" ELSE @])

FinalizationSettles(c) ==
    LET r == rec[c] IN
    /\ r.final = "pending" /\ Barrier(r)
    /\ Put(c, Settled(r, IF \/ r.attached /\ r.session = "endFailed"
                            \/ r.accepted /\ r.handle = "closeFailed"
                         THEN "failed" ELSE "ok"))
    /\ UNCHANGED agentVars

\* MANAGED_STOP_DRAIN_TIMEOUT_MS: the caller is told, the cleanup goes on.
FinalizationTimesOut(c) ==
    LET r == rec[c] IN
    /\ r.final = "pending" /\ ~Barrier(r)
    /\ Put(c, Settled(r, "timedOut"))
    /\ UNCHANGED agentVars

\* A late attachment or handle has been cleaned up.
AfterLate(r, isLate) == IF isLate THEN Resolved([r EXCEPT !.late = FALSE]) ELSE r

SessionEnds(c) ==
    LET r == rec[c] IN
    /\ r.session = "ending"
    /\ \E s \in {"ended", "endFailed"} :
         Put(c, AfterLate([r EXCEPT !.session = s], ~r.attached))
    /\ UNCHANGED agentVars

HandleCloses(c) ==
    LET r == rec[c] IN
    /\ r.handle = "closing"
    /\ \E h \in {"closed", "closeFailed"} :
         Put(c, AfterLate([r EXCEPT !.handle = h], ~r.accepted))
    /\ UNCHANGED agentVars

-----------------------------------------------------------------------------
(***************************************************************************)
(* start().  A value that resolved just before the signal fired still      *)
(* reaches #prepareStart, so the steps that take one do not ask for the    *)
(* signal first; #assertStartupOpen does.                                  *)
(***************************************************************************)
BugOpen(r) == ~r.sig
Open(r) == ~r.sig /\ lifecycle = "accepting"

Start(c) ==
    /\ rec[c].pc = "idle" /\ lifecycle = "accepting"
    /\ Put(c, [rec[c] EXCEPT !.pc = "preflight"])
    /\ UNCHANGED agentVars

\* The snapshot loader failed or ran out of time, or a check of the options failed.
PreflightFails(c) ==
    /\ rec[c].pc = "preflight"
    /\ Put(c, [rec[c] EXCEPT !.pc = "threw"])
    /\ UNCHANGED agentVars

\* callerAborted and generationAborted: the loader is no longer waited for.
BugPreflightEnds(r) == r.sig
PreflightEnds(r) == r.sig \/ lifecycle # "accepting"

PreflightAborted(c) ==
    /\ rec[c].pc = "preflight" /\ PreflightEnds(rec[c])
    /\ Put(c, [rec[c] EXCEPT !.pc = "threw"])
    /\ UNCHANGED agentVars

\* The record is made and listed, and #ensureRuntimeStarted called.
PreflightDone(c) ==
    /\ rec[c].pc = "preflight" /\ Open(rec[c])
    /\ \E factory \in BOOLEAN :
         Put(c, [rec[c] EXCEPT
                   !.pc = "runtime", !.state = "starting", !.listed = TRUE,
                   !.accepted = ~factory,
                   !.handle = IF factory THEN "none" ELSE "open",
                   !.rt = IF runtime = "fulfilled" THEN "ok" ELSE "pending"])
    /\ runtime' = IF runtime = "idle" THEN "starting" ELSE runtime
    /\ UNCHANGED <<lifecycle, rtStop, gate, stopResult, stopLater>>

\* The call of a handle that was given cannot be described: the record is listed, and
\* nothing finalizes it or closes its handle any more.  Nobody reads its signals.
SnapshotThrows(c) ==
    /\ rec[c].pc = "preflight" /\ Open(rec[c])
    /\ Put(c, [rec[c] EXCEPT !.pc = "threw", !.state = "starting", !.listed = TRUE,
                             !.accepted = TRUE, !.handle = "open"])
    /\ UNCHANGED agentVars

\* The catch clause of #prepareStart.
Failed(r) == Finalize([r EXCEPT !.pc = "failing"])

\* The session is handed to the caller.
Deferred(r) == [r EXCEPT !.state = "deferred", !.pc = "returned"]

RuntimeReady(c) ==
    LET r == rec[c] IN
    /\ r.pc = "runtime" /\ r.rt \in {"ok", "failed"}
    /\ Put(c, IF r.rt = "ok" /\ Open(r)
              THEN [r EXCEPT !.pc = "attach", !.rt = "none", !.session = "opening"]
              ELSE Failed(r))
    /\ UNCHANGED agentVars

\* startAttachedSession resolved; the attachment may be lost already.  A handle that
\* start() was given is already accepted, and may belong to another call.
Attached(c) ==
    /\ rec[c].pc = "attach"
    /\ \E lost, matches \in BOOLEAN :
         LET r == [rec[c] EXCEPT !.session = "active", !.attached = TRUE,
                                 !.state = "attached", !.sig = @ \/ lost]
         IN  Put(c, IF ~Open(r) THEN Failed(r)
                    ELSE IF ~r.accepted THEN [r EXCEPT !.pc = "handle", !.handle = "making"]
                    ELSE IF matches THEN Deferred(r) ELSE Failed(r))
    /\ UNCHANGED agentVars

AttachFails(c) ==
    /\ rec[c].pc = "attach"
    /\ Put(c, Failed([rec[c] EXCEPT !.session = "none"]))
    /\ UNCHANGED agentVars

\* The factory resolved; a handle for another call fails after it was accepted.
HandleMade(c) ==
    /\ rec[c].pc = "handle"
    /\ \E matches \in BOOLEAN :
         LET r == [rec[c] EXCEPT !.handle = "open", !.accepted = TRUE]
         IN  Put(c, IF matches /\ Open(r) THEN Deferred(r) ELSE Failed(r))
    /\ UNCHANGED agentVars

\* The factory rejected, or returned something that is not a handle.
FactoryFails(c) ==
    /\ rec[c].pc = "handle"
    /\ Put(c, Failed([rec[c] EXCEPT !.handle = "none"]))
    /\ UNCHANGED agentVars

\* #awaitStartup: the signal rejects the race, and what resolves later is cleaned up.
StartupAborted(c) ==
    LET r == rec[c] IN
    /\ r.sig /\ r.pc \in {"runtime", "attach", "handle"}
    /\ Put(c, Failed([r EXCEPT !.late = r.pc # "runtime"]))
    /\ UNCHANGED agentVars

LateAttachment(c) ==
    LET r == rec[c] IN
    /\ r.late /\ r.session = "opening"
    /\ \/ Put(c, [r EXCEPT !.session = "ending"])
       \/ Put(c, AfterLate([r EXCEPT !.session = "none"], TRUE))
    /\ UNCHANGED agentVars

LateHandle(c) ==
    LET r == rec[c] IN
    /\ r.late /\ r.handle = "making"
    /\ \/ Put(c, [r EXCEPT !.handle = "closing"])
       \/ Put(c, AfterLate([r EXCEPT !.handle = "none"], TRUE))
    /\ UNCHANGED agentVars

StartupTimesOut(c) ==
    /\ rec[c].pc \in {"runtime", "attach", "handle"}
    /\ Put(c, [rec[c] EXCEPT !.sig = TRUE])
    /\ UNCHANGED agentVars

-----------------------------------------------------------------------------
(***************************************************************************)
(* The call: claimed, run, cancelled by its caller, hung up.               *)
(***************************************************************************)

\* #claimRun; building the pipeline may throw.
Claim(c) ==
    /\ rec[c].state = "deferred"
    /\ \/ Put(c, [rec[c] EXCEPT !.state = "running", !.run = "going"])
       \/ Put(c, Finalize(rec[c]))
    /\ UNCHANGED agentVars

RunEnds(c) ==
    /\ rec[c].run = "going"
    /\ Put(c, Finalize([rec[c] EXCEPT !.run = "done"]))
    /\ UNCHANGED agentVars

\* complete(): the transport could not end the input in time.
EndInputFails(c) ==
    /\ rec[c].state = "running" /\ ~rec[c].halt
    /\ Put(c, [rec[c] EXCEPT !.halt = TRUE])
    /\ UNCHANGED agentVars

\* #stopDeferredRecord.
StopDeferred(r) == IF r.state = "deferred" THEN Finalize(r) ELSE r

\* The abort listeners of a record: both signals fire, a session nobody claimed is
\* finalized.
Abort(r) ==
    IF r.listed /\ r.final = "none"
    THEN StopDeferred([r EXCEPT !.sig = TRUE, !.halt = TRUE]) ELSE r

CallerAborts(c) ==
    /\ rec[c].pc \notin {"idle", "threw"} /\ rec[c].final = "none"
    /\ Put(c, Abort([rec[c] EXCEPT !.sig = TRUE]))
    /\ UNCHANGED agentVars

\* #observeRemoteHangup, from the attachment or from the handle.
Hangup(c) ==
    LET r == rec[c] IN
    /\ r.attached
    /\ \/ r.state = "deferred" /\ Put(c, Finalize(r))
       \/ r.state = "attached" /\ Put(c, [r EXCEPT !.sig = TRUE])
       \/ r.state = "running" /\ Put(c, [r EXCEPT !.halt = TRUE])
    /\ UNCHANGED agentVars

\* session.stop() cancels the run and waits for finalSession.
StopCall(c) ==
    LET r == rec[c] IN
    /\ r.pc = "returned" /\ r.outcome = "none"
    /\ Put(c, StopDeferred([r EXCEPT !.stopping = TRUE,
                                     !.halt = @ \/ r.state = "running"]))
    /\ UNCHANGED agentVars

StopCallTimesOut(c) ==
    /\ rec[c].stopping
    /\ Put(c, Told(rec[c], "failed"))
    /\ UNCHANGED agentVars

-----------------------------------------------------------------------------
(***************************************************************************)
(* The runtime and stop().                                                 *)
(***************************************************************************)
StopRuntime == rtStop' = IF rtStop = "none" THEN "pending" ELSE rtStop

RuntimeStarts ==
    /\ runtime = "starting"
    /\ runtime' = "fulfilled"
    /\ rec' = [c \in Call |-> IF rec[c].rt = "pending"
                              THEN [rec[c] EXCEPT !.rt = "ok"] ELSE rec[c]]
    /\ IF stopLater THEN StopRuntime ELSE UNCHANGED rtStop
    /\ stopLater' = FALSE
    /\ UNCHANGED <<lifecycle, gate, stopResult>>

\* While the agent accepts calls the promise is dropped and the next call retries.
RuntimeStartFails ==
    /\ runtime = "starting"
    /\ runtime' = IF lifecycle = "accepting" THEN "idle" ELSE "rejected"
    /\ rec' = [c \in Call |-> IF rec[c].rt = "pending"
                              THEN [rec[c] EXCEPT !.rt = "failed"] ELSE rec[c]]
    /\ stopLater' = FALSE
    /\ UNCHANGED <<lifecycle, rtStop, gate, stopResult>>

Stop ==
    /\ lifecycle = "accepting"
    /\ lifecycle' = "stopping"
    /\ gate' = IF runtime = "idle" THEN "records" ELSE "start"
    /\ rec' = [c \in Call |-> Abort(rec[c])]
    /\ UNCHANGED <<runtime, rtStop, stopResult, stopLater>>

GateStart ==
    /\ gate = "start" /\ runtime # "starting"
    /\ gate' = "records"
    /\ UNCHANGED <<rec, lifecycle, runtime, rtStop, stopResult, stopLater>>

\* #waitForRecords, then #stopRuntime if the runtime was started.
BugDrained == \A c \in Call : rec[c].run # "going"
Drained == \A c \in Call : ~rec[c].listed

GateRecords ==
    /\ gate = "records" /\ Drained
    /\ IF runtime = "fulfilled"
       THEN gate' = "runtime" /\ StopRuntime
       ELSE gate' = "open" /\ UNCHANGED rtStop
    /\ UNCHANGED <<rec, lifecycle, runtime, stopResult, stopLater>>

RuntimeStops ==
    /\ rtStop = "pending"
    /\ \E result \in {"done", "failed"} : rtStop' = result
    /\ UNCHANGED <<rec, lifecycle, runtime, gate, stopResult, stopLater>>

StopSettles ==
    /\ \/ gate = "open"
       \/ gate = "runtime" /\ rtStop \in {"done", "failed"}
    /\ stopResult = "none"
    /\ stopResult' = IF rtStop = "failed" THEN "failed" ELSE "ok"
    /\ lifecycle' = "stopped"
    /\ UNCHANGED <<rec, runtime, rtStop, gate, stopLater>>

\* #signalFinalizationDeadline: a run that does not come back is reported.
Deadline(r) ==
    IF r.listed /\ r.final = "none" /\ r.state = "running" THEN Told(r, "failed") ELSE r

StopTimesOut ==
    /\ lifecycle = "stopping"
    /\ lifecycle' = "stopped" /\ stopResult' = "timedOut"
    /\ rec' = [c \in Call |-> Deadline(rec[c])]
    /\ IF runtime = "fulfilled" THEN StopRuntime ELSE UNCHANGED rtStop
    /\ stopLater' = (runtime = "starting")
    /\ UNCHANGED <<runtime, gate>>

-----------------------------------------------------------------------------
\* What the event loop and the timers do by themselves.
Own(c) ==
    \/ FinalizationSettles(c) \/ FinalizationTimesOut(c)
    \/ RuntimeReady(c) \/ StartupAborted(c) \/ PreflightAborted(c)

AgentOwn == GateStart \/ GateRecords \/ StopSettles \/ StopTimesOut

\* What the callers and the external parts do.
Outside(c) ==
    \/ SessionEnds(c) \/ HandleCloses(c)
    \/ Start(c) \/ PreflightFails(c) \/ PreflightDone(c) \/ SnapshotThrows(c)
    \/ Attached(c) \/ AttachFails(c) \/ HandleMade(c) \/ FactoryFails(c)
    \/ LateAttachment(c) \/ LateHandle(c) \/ StartupTimesOut(c)
    \/ Claim(c) \/ RunEnds(c) \/ EndInputFails(c)
    \/ CallerAborts(c) \/ Hangup(c) \/ StopCall(c) \/ StopCallTimesOut(c)

AgentNext ==
    \/ \E c \in Call : Own(c) \/ Outside(c)
    \/ AgentOwn
    \/ RuntimeStarts \/ RuntimeStartFails \/ RuntimeStops \/ Stop

\* Microtasks run, and abort listeners and the timers of finalization and stop() fire;
\* runtime, transport, pipeline, snapshot loader and callers owe nothing.
AgentSpec ==
    /\ AgentInit /\ [][AgentNext]_vars
    /\ WF_vars(AgentOwn)
    /\ \A c \in Call : WF_vars(Own(c))

-----------------------------------------------------------------------------
\* Every record, and the lifecycle of the agent, stays within its type.
AgentTypeOK ==
    /\ rec \in [Call -> Record]
    /\ lifecycle \in {"accepting", "stopping", "stopped"}
    /\ runtime \in {"idle", "starting", "fulfilled", "rejected"}
    /\ rtStop \in {"none", "pending", "done", "failed"}
    /\ gate \in {"none", "start", "records", "runtime", "open"}
    /\ stopResult \in {"none", "ok", "failed", "timedOut"}
    /\ stopLater \in BOOLEAN

\* The agent forgets a call only when the session and the handle the call obtained,
\* however late, were told to end; and reports it finalized only when both did.
NoCallLeaks ==
    \A c \in Call : LET r == rec[c] IN
        /\ ~r.listed => /\ r.session \notin {"opening", "active"}
                        /\ r.handle \notin {"making", "open"}
        /\ r.outcome = "ok" => /\ r.attached => r.session = "ended"
                               /\ r.accepted => r.handle = "closed"

\* Short of its deadline stop() keeps the runtime up for every call: it is stopped
\* when each session has ended, or its cleanup has run out of time of its own.
RuntimeOutlivesCalls ==
    rtStop # "none" /\ stopResult # "timedOut" =>
        \A c \in Call : \/ rec[c].session \in {"none", "ended", "endFailed"}
                        \/ rec[c].final = "timedOut"

\* Once stop() was called no session is handed out, none begins to run, and every
\* pipeline that still runs has been told to end.
NothingBeginsAfterStop ==
    /\ [][lifecycle # "accepting" =>
            \A c \in Call : /\ rec'[c].pc = "returned" => rec[c].pc = "returned"
                            /\ rec'[c].run = "going" => rec[c].run = "going"]_vars
    /\ [](lifecycle # "accepting" =>
            \A c \in Call : rec[c].run = "going" => rec[c].halt)

\* stop() settles, and then every start() in progress throws, also one that waits for a
\* snapshot loader, the runtime, the session or the transport, and every finalSession
\* that was handed out settles, whatever hangs.
StopReachesEveryone ==
    /\ lifecycle = "stopping" ~> lifecycle = "stopped"
    /\ \A c \in Call :
         lifecycle = "stopped" ~> \/ rec[c].pc \in {"idle", "threw"}
                                  \/ rec[c].outcome # "none"

=============================================================================
