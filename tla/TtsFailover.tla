----------------------------- MODULE TtsFailover -----------------------------
(***************************************************************************)
(* One request to the text-to-speech failover provider (tts-failover.ts):  *)
(* synthesize opens the primary voice; a failure before the listener got   *)
(* anything of it switches to the fallback voice, unless the caller        *)
(* cancelled.  The result is an asynchronous generator the caller pulls    *)
(* one event at a time, and a cancel() it may call at any await.           *)
(*                                                                         *)
(* An action is what runs between two awaits, or between two microtasks    *)
(* where cancel() may run between them.  Which errors allow a fallback,    *)
(* and how the request is mapped for it, is one nondeterministic verdict.  *)
(* The provider streams are external: they open, fail, emit and end as     *)
(* they like, and never have to answer.  Left out: a return() before the   *)
(* first pull, which would leave the primary open; the runtime pulls first.*)
(***************************************************************************)
EXTENDS Naturals, Sequences

CONSTANTS
    MaxEvents,        \* bound: events a provider stream emits
    EventSizes,       \* estimateTtsEventBytes of an event that is not audio
    MaxPendingBytes   \* MAX_FAILOVER_PRE_AUDIO_EVENT_BYTES

ASSUME TtsAssumption ==
    /\ MaxEvents \in Nat /\ MaxPendingBytes \in Nat
    /\ EventSizes \subseteq Nat \ {0}

VARIABLES
    pc,             \* where synthesize, and then the generator, stands
    phase,          \* TtsFailoverPhase: "stream" once the caller has the stream
    usingFallback, sawAudio, cancelled, completed,
    committed,      \* primaryEventsCommitted
    pending,        \* pendingPrimaryEvents
    pendingBytes,   \* pendingPrimaryEventBytes
    out,            \* what the yields of the current iteration still owe
    finishing,      \* these are the yields after step.done
    aborted,        \* the caller's request.signal
    streams,        \* the provider stream of each voice
    made,           \* history: events pulled from each voice
    delivered       \* history: the events the caller got

flags   == <<usingFallback, sawAudio, committed, cancelled, completed>>
buffers == <<pending, pendingBytes, out, finishing>>
ttsVars == <<pc, phase, flags, buffers, aborted, streams, made, delivered>>

Voice == {"primary", "fallback"}
Event == [voice : Voice, n : 1..MaxEvents]

\* "absent": the provider refused; "broken": it failed and was not cancelled.
StreamState == {"none", "opening", "open", "absent", "done", "broken", "cancelled"}
Released == {"none", "absent", "done", "cancelled"}

\* Awaits of the code: the primary's and the fallback's synthesize, the two
\* microtasks between a won race and its user, the third one of the generator,
\* the next event, the cleanup of the failed primary.
Awaiting == {"opening", "opened", "checked", "starting", "started", "admitted",
             "adopting", "next", "closing"}
\* At rest: suspended before its start or at a yield, or over.
AtRest == {"start", "yield", "ended", "rejected", "handed"}

active == IF usingFallback THEN "fallback" ELSE "primary"

TtsInit ==
    /\ pc = "opening" /\ phase = "synthesize"
    /\ usingFallback = FALSE /\ sawAudio = FALSE /\ committed = FALSE
    /\ cancelled = FALSE /\ completed = FALSE
    /\ pending = <<>> /\ pendingBytes = 0 /\ out = <<>> /\ finishing = FALSE
    /\ aborted = FALSE
    /\ streams = [v \in Voice |-> IF v = "primary" THEN "opening" ELSE "none"]
    /\ made = [v \in Voice |-> 0]
    /\ delivered = <<>>

\* cancelStream: asked once; a stream that ended has nothing left to release.
Cancelled(s, v) ==
    IF s[v] \in {"open", "broken"} THEN [s EXCEPT ![v] = "cancelled"] ELSE s

\* The signal a provider is opened with.  The fallback of a running stream also
\* gets fallbackStartupController, which cancel() aborts.
BugCancelSignal == aborted
CancelSignal == aborted \/ cancelled

\* The finally clause: an incomplete stream nobody cancelled is released here.
Ended(s) ==
    /\ pc' = "ended"
    /\ streams' = IF cancelled THEN s ELSE Cancelled(s, active)

Completed(s) == pc' = "ended" /\ completed' = TRUE /\ streams' = s

-----------------------------------------------------------------------------
(***************************************************************************)
(* startFallback.  The verdict covers the capability, policy, mapping and  *)
(* validation checks; the cancellation is looked at around each of them.   *)
(* A refusal rejects synthesize, or ends the generator with the error.     *)
(***************************************************************************)
Refused(s) ==
    IF phase = "synthesize"
    THEN pc' = "rejected" /\ streams' = s
    ELSE Ended(s)

StartFallback(s) ==
    \/ /\ ~CancelSignal
       /\ pc' = "starting"
       /\ streams' = [s EXCEPT !["fallback"] = "opening"]
    \/ Refused(s)

\* The primary's synthesize.
PrimaryOpens ==
    /\ pc = "opening"
    /\ \/ /\ ~aborted
          /\ pc' = "opened"
          /\ streams' = [streams EXCEPT !["primary"] = "open"]
       \/ StartFallback([streams EXCEPT !["primary"] = "absent"])
    /\ UNCHANGED <<phase, flags, buffers, aborted, made, delivered>>

\* A signal that fires first wins the race, and startFallback refuses for the
\* same signal.  The stream that opens later is an orphan.
PrimaryAborted ==
    /\ pc = "opening"
    /\ aborted
    /\ Refused(streams)
    /\ UNCHANGED <<phase, flags, buffers, aborted, made, delivered>>

\* The microtasks after the race was won look at the signal once more each:
\* in synthesizeWithAbort, then in synthesize.
PrimaryChecked ==
    /\ pc \in {"opened", "checked"}
    /\ IF aborted
       THEN /\ pc' = "rejected"
            /\ streams' = Cancelled(streams, "primary")
            /\ UNCHANGED phase
       ELSE /\ pc' = IF pc = "opened" THEN "checked" ELSE "start"
            /\ phase' = IF pc = "opened" THEN phase ELSE "stream"
            /\ UNCHANGED streams
    /\ UNCHANGED <<flags, buffers, aborted, made, delivered>>

FallbackOpens ==
    /\ pc = "starting"
    /\ \/ /\ ~CancelSignal
          /\ pc' = "started"
          /\ streams' = [streams EXCEPT !["fallback"] = "open"]
       \/ Refused([streams EXCEPT !["fallback"] = "absent"])
    /\ UNCHANGED <<phase, flags, buffers, aborted, made, delivered>>

\* The signal rejects the race; the fallback that opens later is an orphan.
FallbackAborted ==
    /\ pc = "starting"
    /\ CancelSignal
    /\ Refused(streams)
    /\ UNCHANGED <<phase, flags, buffers, aborted, made, delivered>>

\* In synthesizeWithAbort, then in startFallback.  Before there is a generator
\* the caller gets the fallback stream itself.
FallbackChecked ==
    /\ pc \in {"started", "admitted"}
    /\ IF CancelSignal
       THEN Refused(Cancelled(streams, "fallback"))
       ELSE /\ pc' = IF pc = "started" THEN "admitted"
                     ELSE IF phase = "synthesize" THEN "handed" ELSE "adopting"
            /\ UNCHANGED streams
    /\ UNCHANGED <<phase, flags, buffers, aborted, made, delivered>>

\* The generator looks at `cancelled' a last time before it switches.
BugTooLate == FALSE
TooLate == cancelled

Adopt ==
    /\ pc = "adopting"
    /\ IF TooLate
       THEN /\ Ended(Cancelled(streams, "fallback"))
            /\ UNCHANGED usingFallback
       ELSE /\ pc' = "next" /\ usingFallback' = TRUE
            /\ UNCHANGED streams
    /\ UNCHANGED <<phase, sawAudio, committed, cancelled, completed, buffers,
                   aborted, made, delivered>>

\* Nobody waits for the stream any more: it is cancelled as soon as it opens.
Orphan(v) ==
    /\ streams[v] = "opening"
    /\ pc \in AtRest
    /\ \E late \in {"cancelled", "absent"} : streams' = [streams EXCEPT ![v] = late]
    /\ UNCHANGED <<pc, phase, flags, buffers, aborted, made, delivered>>

-----------------------------------------------------------------------------
(***************************************************************************)
(* The generator.  A yield hands over one event and suspends.  An event    *)
(* that resolved just before cancel() ran still reaches the generator, so  *)
(* the steps of pc = "next" do not ask whether the request was cancelled.  *)
(***************************************************************************)
Yield(events) ==
    /\ pc' = "yield"
    /\ delivered' = Append(delivered, Head(events))
    /\ out' = Tail(events)

\* The first audio, or the event that does not fit, follows what was held back.
BugHeldBack(e) == <<e>>
HeldBack(e) == Append(pending, e)

\* The pre-audio buffer is full.
BugOverflows(size) == pendingBytes > MaxPendingBytes
Overflows(size) == pendingBytes + size > MaxPendingBytes

Cleared == pending' = <<>> /\ pendingBytes' = 0

\* An event of the active stream: passed on, flushed behind the events held
\* back, or held back itself.
NextEvent(audio, size) ==
    /\ pc = "next"
    /\ made[active] < MaxEvents
    /\ made' = [made EXCEPT ![active] = @ + 1]
    /\ sawAudio' = (sawAudio \/ audio)
    /\ LET e == [voice |-> active, n |-> made[active] + 1]
       IN  \/ /\ usingFallback \/ sawAudio
              /\ Yield(<<e>>)
              /\ UNCHANGED <<pending, pendingBytes, committed>>
           \/ /\ ~usingFallback /\ ~sawAudio
              /\ audio \/ Overflows(size)
              /\ Yield(HeldBack(e)) /\ Cleared
              /\ committed' = (committed \/ ~audio)
           \/ /\ ~usingFallback /\ ~sawAudio
              /\ ~audio /\ ~Overflows(size)
              /\ pending' = Append(pending, e)
              /\ pendingBytes' = pendingBytes + size
              /\ UNCHANGED <<pc, out, delivered, committed>>
    /\ UNCHANGED <<phase, usingFallback, cancelled, completed, finishing,
                   aborted, streams>>

\* step.done: what is held back is yielded before the generator returns.
NextDone ==
    /\ pc = "next"
    /\ Cleared
    /\ LET s == IF streams[active] = "open"
                THEN [streams EXCEPT ![active] = "done"] ELSE streams
       IN  IF pending = <<>>
           THEN /\ Completed(s)
                /\ UNCHANGED <<out, finishing, delivered>>
           ELSE /\ Yield(pending) /\ finishing' = TRUE
                /\ streams' = s /\ UNCHANGED completed
    /\ UNCHANGED <<phase, usingFallback, sawAudio, committed, cancelled,
                   aborted, made>>

\* Only a primary nothing was heard of is replaced.
BugRethrows == usingFallback \/ sawAudio \/ cancelled
Rethrows == usingFallback \/ sawAudio \/ committed \/ cancelled

\* The catch clause of next().
NextThrows(s) ==
    /\ pc = "next"
    /\ IF Rethrows
       THEN Ended(s) /\ UNCHANGED <<pending, pendingBytes>>
       ELSE /\ pc' = "closing" /\ Cleared
            /\ streams' = Cancelled(s, active)
    /\ UNCHANGED <<phase, flags, out, finishing, aborted, made, delivered>>

NextFails ==
    NextThrows(IF streams[active] = "open"
               THEN [streams EXCEPT ![active] = "broken"] ELSE streams)

\* raceWithAbort: cancel() rejects the pending next().
NextAborted == cancelled /\ NextThrows(streams)

\* The cleanup of the primary settled, or its time was up.
PrimaryClosed ==
    /\ pc = "closing"
    /\ IF cancelled THEN Ended(streams) ELSE StartFallback(streams)
    /\ UNCHANGED <<phase, flags, buffers, aborted, made, delivered>>

-----------------------------------------------------------------------------
(* The caller.                                                             *)

\* The next pull: the rest of the current yields, the return after step.done,
\* or the test at the head of the loop.
Pull ==
    /\ pc \in {"start", "yield"}
    /\ IF out # <<>>
       THEN Yield(out) /\ UNCHANGED <<completed, streams>>
       ELSE /\ \/ finishing /\ Completed(streams)
               \/ /\ ~finishing /\ cancelled
                  /\ Ended(streams) /\ UNCHANGED completed
               \/ /\ ~finishing /\ ~cancelled
                  /\ pc' = "next" /\ UNCHANGED <<completed, streams>>
            /\ UNCHANGED <<out, delivered>>
    /\ UNCHANGED <<phase, usingFallback, sawAudio, committed, cancelled,
                   pending, pendingBytes, finishing, aborted, made>>

\* The caller leaves its loop: the generator's return() at a yield.
Leave ==
    /\ pc = "yield"
    /\ Ended(streams)
    /\ UNCHANGED <<phase, flags, buffers, aborted, made, delivered>>

Cancel ==
    /\ phase = "stream" /\ ~cancelled
    /\ cancelled' = TRUE
    /\ streams' = Cancelled(streams, active)
    /\ UNCHANGED <<pc, phase, usingFallback, sawAudio, committed, completed,
                   buffers, aborted, made, delivered>>

AbortRequest ==
    /\ ~aborted /\ aborted' = TRUE
    /\ UNCHANGED <<pc, phase, flags, buffers, streams, made, delivered>>

Settle ==
    \/ PrimaryAborted \/ PrimaryChecked
    \/ FallbackAborted \/ FallbackChecked \/ Adopt
    \/ NextAborted \/ PrimaryClosed

Provider ==
    \/ PrimaryOpens \/ FallbackOpens
    \/ \E v \in Voice : Orphan(v)
    \/ \E audio \in BOOLEAN, size \in EventSizes : NextEvent(audio, size)
    \/ NextDone \/ NextFails

TtsNext == Settle \/ Provider \/ Pull \/ Leave \/ Cancel \/ AbortRequest

TtsSpec == TtsInit /\ [][TtsNext]_ttsVars

\* The event loop runs every microtask, abort listeners fire, and a cleanup is
\* raced with a timer.  Providers and the caller owe nothing.
TtsFairSpec == TtsSpec /\ WF_ttsVars(Settle)

-----------------------------------------------------------------------------

\* The generator is at one of its awaits or at rest, and the pre-audio buffer never
\* holds more than MAX_FAILOVER_PRE_AUDIO_EVENT_BYTES.
TtsTypeOK ==
    /\ pc \in Awaiting \cup AtRest
    /\ phase \in {"synthesize", "stream"}
    /\ usingFallback \in BOOLEAN /\ sawAudio \in BOOLEAN /\ committed \in BOOLEAN
    /\ cancelled \in BOOLEAN /\ completed \in BOOLEAN
    /\ pending \in Seq(Event) /\ pendingBytes \in 0..MaxPendingBytes
    /\ out \in Seq(Event) /\ finishing \in BOOLEAN /\ aborted \in BOOLEAN
    /\ streams \in [Voice -> StreamState]
    /\ made \in [Voice -> 0..MaxEvents]
    /\ delivered \in Seq(Event)

\* Once the fallback voice is opened the caller has heard nothing of the
\* primary and never will: speech is not repeated in the other voice, whatever
\* the primary had emitted when it failed (the catch clause of the generator).
OneVoice ==
    streams["fallback"] # "none" =>
        \A i \in 1..Len(delivered) : delivered[i].voice = "fallback"

\* Nothing is skipped or reordered: the caller gets the active voice's events
\* in order from the first, and a generator that completes has delivered every
\* one, the events held back before the first audio included.
InOrderAndInFull ==
    /\ \A i \in 1..Len(delivered) : delivered[i] = [voice |-> active, n |-> i]
    /\ completed => Len(delivered) = made[active]

\* When the request is over, every provider stream it opened has ended or was
\* told to cancel, the fallback that opened during a cancel() included; and the
\* two voices are never open together.
NoStreamLeaks ==
    /\ pc \in {"ended", "rejected"} =>
         \A v \in Voice : streams[v] \in Released \cup {"opening"}
    /\ streams["fallback"] \in {"open", "broken"} => streams["primary"] \in Released

\* After cancel() the generator never waits for a provider again, and a request
\* whose signal fired while a voice was being opened is answered, though the
\* provider may never answer.
CancelIsPrompt ==
    /\ cancelled ~> [](pc \in AtRest)
    /\ (aborted /\ pc \in {"opening", "starting"}) ~> (pc \in AtRest)

=============================================================================
