-------------------------- MODULE TtsFailoverProofs --------------------------
(***************************************************************************)
(* Proofs about TtsFailover, for any number of events, any event sizes and *)
(* any bound on the events held back.                                      *)
(***************************************************************************)
EXTENDS TtsFailover, TLAPS

\* The awaits before the caller has a stream, those that open the fallback, and
\* the places where the generator reads its active stream.
Synthesizing == {"opening", "opened", "checked", "starting", "started", "admitted"}
Switching == {"starting", "started", "admitted", "adopting"}
Reading == {"start", "next", "yield"}

\* Where the request stands, against the flags.
PlaceInv ==
    /\ phase = "synthesize" =>
         pc \in Synthesizing \cup {"rejected", "handed"} /\ ~cancelled /\ ~usingFallback
    /\ phase = "stream" => pc \notin {"opening", "opened", "checked", "rejected", "handed"}
    /\ pc \in Switching \cup {"start", "closing"} => ~usingFallback
    /\ completed => pc = "ended"
    /\ finishing => pc \in {"yield", "ended"}

\* Where the request stands, against the provider streams.
StreamInv ==
    /\ streams["primary"] # "broken" /\ streams["fallback"] # "broken"
    /\ streams["primary"] = "opening" => pc \in {"opening", "rejected"}
    /\ pc = "opening" => streams["primary"] = "opening" /\ streams["fallback"] = "none"
    /\ pc \in {"opened", "checked", "start", "closing"} => streams["fallback"] = "none"
    /\ pc \in Switching \/ usingFallback => streams["fallback"] # "none"
    /\ streams["fallback"] # "none" /\ ~usingFallback =>
         pc \in Switching \cup {"ended", "rejected", "handed"}
    /\ streams["fallback"] = "opening" =>
         pc \in {"starting", "ended", "rejected"} /\ ~usingFallback
    /\ streams["fallback"] = "open" =>
         usingFallback \/ pc \in {"started", "admitted", "adopting", "handed"}
    /\ streams["fallback"] # "none" \/ pc \in {"closing", "ended"} =>
         streams["primary"] \in Released
    /\ pc \in {"ended", "rejected"} =>
         /\ streams["primary"] \in Released \cup {"opening"}
         /\ streams["fallback"] \in Released \cup {"opening"}
    /\ cancelled \/ finishing => streams[active] \in Released

\* Nothing of the primary was handed over while it can still be replaced.
SilentInv ==
    /\ streams["fallback"] # "none" /\ ~usingFallback => delivered = <<>>
    /\ pc = "closing" => delivered = <<>>
    /\ pc \in Reading /\ ~(usingFallback \/ sawAudio \/ committed \/ finishing) =>
         pc # "yield" /\ delivered = <<>>

\* The events handed over, owed by the current yields and held back are the
\* events of the active voice so far, in this order.
OrderInv ==
    /\ phase = "synthesize" \/ pc = "start" =>
         delivered = <<>> /\ pending = <<>> /\ made["primary"] = 0
    /\ ~usingFallback => made["fallback"] = 0
    /\ usingFallback \/ sawAudio \/ pc \in Switching \cup {"yield", "closing"} => pending = <<>>
    /\ pc \notin {"yield", "ended"} => out = <<>>
    /\ \A i \in 1..Len(delivered) : delivered[i] = [voice |-> active, n |-> i]
    /\ pc = "yield" =>
         /\ Len(delivered) + Len(out) = made[active]
         /\ \A i \in 1..Len(out) : out[i] = [voice |-> active, n |-> Len(delivered) + i]
    /\ pc \in {"start", "next"} =>
         /\ Len(delivered) + Len(pending) = made[active]
         /\ \A i \in 1..Len(pending) : pending[i] = [voice |-> active, n |-> Len(delivered) + i]
    /\ completed => Len(delivered) = made[active]

\* The inductive invariant.
TtsInv == TtsTypeOK /\ PlaceInv /\ StreamInv /\ SilentInv /\ OrderInv

-----------------------------------------------------------------------------

\* What appending an event does, and that it continues a run of events.
LEMMA AppendFacts ==
  ASSUME NEW es \in Seq(Event), NEW e \in Event
  PROVE  /\ Append(es, e) \in Seq(Event) /\ Append(es, e) # <<>>
         /\ Len(Append(es, e)) = Len(es) + 1
         /\ \A i \in 1..Len(es) : Append(es, e)[i] = es[i]
         /\ Append(es, e)[Len(es) + 1] = e
OBVIOUS

LEMMA AppendInOrder ==
  ASSUME NEW es \in Seq(Event), NEW e \in Event, NEW v \in Voice, NEW d \in Nat,
         \A i \in 1..Len(es) : es[i] = [voice |-> v, n |-> d + i],
         e = [voice |-> v, n |-> d + Len(es) + 1]
  PROVE  \A i \in 1..Len(Append(es, e)) : Append(es, e)[i] = [voice |-> v, n |-> d + i]
<1> SUFFICES ASSUME NEW i \in 1..Len(Append(es, e))
             PROVE  Append(es, e)[i] = [voice |-> v, n |-> d + i]
  OBVIOUS
<1>1. Len(es) \in Nat /\ i \in Nat
  OBVIOUS
<1>2. CASE i \in 1..Len(es)
  BY <1>2, AppendFacts
<1>3. CASE i = Len(es) + 1
  <2>1. d + Len(es) + 1 = d + i
    BY <1>1, <1>3
  <2> QED
    BY <1>3, <2>1, AppendFacts
<1> QED
  BY <1>1, <1>2, <1>3, AppendFacts

\* What Yield hands over and what it still owes.
LEMMA YieldFacts ==
  ASSUME NEW es \in Seq(Event), es # <<>>, Yield(es), delivered \in Seq(Event)
  PROVE  /\ pc' = "yield"
         /\ delivered' \in Seq(Event) /\ delivered' # <<>>
         /\ out' \in Seq(Event)
         /\ Len(delivered') = Len(delivered) + 1
         /\ Len(out') = Len(es) - 1
         /\ \A i \in 1..Len(delivered) : delivered'[i] = delivered[i]
         /\ delivered'[Len(delivered) + 1] = es[1]
         /\ \A i \in 1..Len(out') : out'[i] = es[i + 1]
BY DEF Yield

\* Events that continue the ones handed over still do after a yield.
LEMMA YieldInOrder ==
  ASSUME NEW es \in Seq(Event), es # <<>>, Yield(es), delivered \in Seq(Event),
         NEW v \in Voice,
         \A i \in 1..Len(delivered) : delivered[i] = [voice |-> v, n |-> i],
         \A i \in 1..Len(es) : es[i] = [voice |-> v, n |-> Len(delivered) + i]
  PROVE  /\ \A i \in 1..Len(delivered') : delivered'[i] = [voice |-> v, n |-> i]
         /\ \A i \in 1..Len(out') : out'[i] = [voice |-> v, n |-> Len(delivered') + i]
         /\ Len(delivered') + Len(out') = Len(delivered) + Len(es)
<1>0. /\ Len(delivered) \in Nat /\ Len(es) \in Nat \ {0}
      /\ Len(delivered') = Len(delivered) + 1 /\ Len(out') = Len(es) - 1
      /\ \A i \in 1..Len(delivered) : delivered'[i] = delivered[i]
      /\ delivered'[Len(delivered) + 1] = es[1]
      /\ \A i \in 1..Len(out') : out'[i] = es[i + 1]
  BY YieldFacts
<1>1. ASSUME NEW i \in 1..Len(delivered') PROVE delivered'[i] = [voice |-> v, n |-> i]
  <2>1. CASE i \in 1..Len(delivered)
    BY <1>0, <2>1
  <2>2. CASE i = Len(delivered) + 1
    BY <1>0, <2>2
  <2> QED
    BY <1>0, <2>1, <2>2
<1>2. ASSUME NEW i \in 1..Len(out')
      PROVE  out'[i] = [voice |-> v, n |-> Len(delivered') + i]
  <2>1. i + 1 \in 1..Len(es) /\ out'[i] = es[i + 1]
    BY <1>0
  <2>2. Len(delivered) + (i + 1) = Len(delivered') + i
    BY <1>0
  <2> QED
    BY <2>1, <2>2
<1> QED
  BY <1>0, <1>1, <1>2

\* The flush behind the events held back hands over all of them in order.
LEMMA FlushInOrder ==
  ASSUME delivered \in Seq(Event), pending \in Seq(Event),
         NEW v \in Voice, NEW e \in Event, Yield(HeldBack(e)),
         \A i \in 1..Len(delivered) : delivered[i] = [voice |-> v, n |-> i],
         \A i \in 1..Len(pending) : pending[i] = [voice |-> v, n |-> Len(delivered) + i],
         e = [voice |-> v, n |-> Len(delivered) + Len(pending) + 1]
  PROVE  /\ \A i \in 1..Len(delivered') : delivered'[i] = [voice |-> v, n |-> i]
         /\ \A i \in 1..Len(out') : out'[i] = [voice |-> v, n |-> Len(delivered') + i]
         /\ Len(delivered') + Len(out') = Len(delivered) + Len(pending) + 1
<1>1. Len(delivered) \in Nat /\ Len(pending) \in Nat
  OBVIOUS
<1>2. \A i \in 1..Len(Append(pending, e)) :
         Append(pending, e)[i] = [voice |-> v, n |-> Len(delivered) + i]
  BY <1>1, AppendInOrder
<1>3. /\ Append(pending, e) \in Seq(Event) /\ Append(pending, e) # <<>>
      /\ Len(Append(pending, e)) = Len(pending) + 1
  BY AppendFacts
<1>4. Yield(Append(pending, e))
  BY DEF HeldBack
<1>5. /\ \A i \in 1..Len(delivered') : delivered'[i] = [voice |-> v, n |-> i]
      /\ \A i \in 1..Len(out') : out'[i] = [voice |-> v, n |-> Len(delivered') + i]
      /\ Len(delivered') + Len(out') = Len(delivered) + Len(Append(pending, e))
  BY <1>2, <1>3, <1>4, YieldInOrder
<1> QED
  BY <1>1, <1>3, <1>5

\* Cancelling a voice releases it unless it is still being opened, and leaves
\* the other voice alone.
LEMMA CancelledFacts ==
  ASSUME NEW s \in [Voice -> StreamState], NEW v \in Voice
  PROVE  /\ Cancelled(s, v) \in [Voice -> StreamState]
         /\ \A w \in Voice : w # v => Cancelled(s, v)[w] = s[w]
         /\ s[v] \in {"open", "broken"} => Cancelled(s, v)[v] = "cancelled"
         /\ s[v] \notin {"open", "broken"} => Cancelled(s, v)[v] = s[v]
BY DEF Cancelled, StreamState

\* Every step keeps the types: events stay within the bounds, and what is held
\* back fits the buffer.
LEMMA TypeStep == TtsInv /\ [TtsNext]_ttsVars => TtsTypeOK'
<1> SUFFICES ASSUME TtsInv, [TtsNext]_ttsVars PROVE TtsTypeOK'
  OBVIOUS
<1> USE TtsAssumption DEF TtsInv, TtsTypeOK, active, Voice, Event, StreamState,
           Awaiting, AtRest, flags, buffers
<1>1. CASE PrimaryAborted
  BY <1>1 DEF PrimaryAborted, Refused, Ended, Cancelled
<1>2. CASE PrimaryChecked
  BY <1>2 DEF PrimaryChecked, Cancelled
<1>3. CASE FallbackAborted
  BY <1>3 DEF FallbackAborted, Refused, Ended, Cancelled, CancelSignal
<1>4. CASE FallbackChecked
  BY <1>4 DEF FallbackChecked, Refused, Ended, Cancelled, CancelSignal
<1>5. CASE Adopt
  BY <1>5 DEF Adopt, TooLate, Ended, Cancelled
<1>6. CASE NextAborted
  BY <1>6 DEF NextAborted, NextThrows, Rethrows, Ended, Cancelled, Cleared
<1>7. CASE PrimaryClosed
  BY <1>7 DEF PrimaryClosed, StartFallback, Refused, Ended, Cancelled, CancelSignal
<1>8. CASE PrimaryOpens
  BY <1>8 DEF PrimaryOpens, StartFallback, Refused, Ended, Cancelled, CancelSignal
<1>9. CASE FallbackOpens
  BY <1>9 DEF FallbackOpens, Refused, Ended, Cancelled, CancelSignal
<1>10. ASSUME NEW v \in Voice, Orphan(v) PROVE TtsTypeOK'
  BY <1>10 DEF Orphan
<1>11. ASSUME NEW audio \in BOOLEAN, NEW size \in EventSizes, NextEvent(audio, size)
      PROVE  TtsTypeOK'
  <2>1. /\ active \in Voice
        /\ made' = [made EXCEPT ![active] = @ + 1] /\ made[active] < MaxEvents
        /\ sawAudio' \in BOOLEAN
    BY <1>11 DEF NextEvent
  <2>2. made' \in [Voice -> 0..MaxEvents]
    BY <2>1
  <2> DEFINE e == [voice |-> active, n |-> made[active] + 1]
  <2>3. e \in Event
    BY <2>1
  <2>4. CASE (usingFallback \/ sawAudio) /\ Yield(<<e>>)
             /\ UNCHANGED <<pending, pendingBytes, committed>>
    <3>1. <<e>> \in Seq(Event) /\ <<e>> # <<>>
      BY <2>3
    <3> HIDE DEF e
    <3> QED
      BY <1>11, <2>1, <2>2, <2>4, <3>1, YieldFacts DEF NextEvent
  <2>5. CASE Yield(HeldBack(e)) /\ Cleared /\ committed' = (committed \/ ~audio)
    <3> HIDE DEF e
    <3>1. HeldBack(e) \in Seq(Event) /\ HeldBack(e) # <<>>
      BY <2>3, AppendFacts DEF HeldBack
    <3>2. pc' = "yield" /\ delivered' \in Seq(Event) /\ out' \in Seq(Event)
      BY <2>5, <3>1, YieldFacts
    <3>3. pending' = <<>> /\ pendingBytes' = 0 /\ committed' \in BOOLEAN
      BY <2>5 DEF Cleared
    <3> QED
      BY <1>11, <2>1, <2>2, <3>2, <3>3 DEF NextEvent
  <2>6. CASE /\ ~Overflows(size) /\ pending' = Append(pending, e)
             /\ pendingBytes' = pendingBytes + size
             /\ UNCHANGED <<pc, out, delivered, committed>>
    <3>1. size \in Nat
      BY TtsAssumption
    <3>2. pendingBytes' \in 0..MaxPendingBytes
      BY <2>6, <3>1 DEF Overflows
    <3>3. pending' \in Seq(Event)
      BY <2>3, <2>6
    <3> HIDE DEF e
    <3> QED
      BY <1>11, <2>1, <2>2, <2>6, <3>2, <3>3 DEF NextEvent
  <2> QED
    BY <1>11, <2>4, <2>5, <2>6 DEF NextEvent
<1>12. CASE NextDone
  <2>1. CASE pending = <<>>
    BY <1>12, <2>1 DEF NextDone, Completed, Cleared
  <2>2. CASE pending # <<>>
    <3>1. /\ Yield(pending) /\ Cleared /\ finishing' = TRUE
          /\ UNCHANGED <<phase, usingFallback, sawAudio, committed, cancelled,
                         completed, aborted, made>>
      BY <1>12, <2>2 DEF NextDone
    <3>2. streams' \in [Voice -> StreamState]
      BY <1>12, <2>2 DEF NextDone
    <3>3. pc' = "yield" /\ delivered' \in Seq(Event) /\ out' \in Seq(Event)
      BY <2>2, <3>1, YieldFacts
    <3> QED
      BY <3>1, <3>2, <3>3 DEF Cleared
  <2> QED
    BY <2>1, <2>2
<1>13. CASE NextFails
  <2> DEFINE s == IF streams[active] = "open"
                  THEN [streams EXCEPT ![active] = "broken"] ELSE streams
  <2>1. NextThrows(s) /\ s \in [Voice -> StreamState] /\ active \in Voice
    BY <1>13 DEF NextFails
  <2> HIDE DEF s
  <2>2. Cancelled(s, active) \in [Voice -> StreamState]
    BY <2>1, CancelledFacts
  <2>3. streams' \in [Voice -> StreamState]
    BY <2>1, <2>2 DEF NextThrows, Ended
  <2>4. pc' \in {"ended", "closing"}
    BY <2>1 DEF NextThrows, Ended
  <2>5. /\ \/ pending' = pending /\ pendingBytes' = pendingBytes
           \/ pending' = <<>> /\ pendingBytes' = 0
        /\ UNCHANGED <<phase, flags, out, finishing, aborted, made, delivered>>
    BY <2>1 DEF NextThrows, Cleared
  <2>6. pending' \in Seq(Event) /\ pendingBytes' \in 0..MaxPendingBytes
    <3>1. CASE pending' = pending /\ pendingBytes' = pendingBytes
      BY <3>1
    <3>2. CASE pending' = <<>> /\ pendingBytes' = 0
      BY <3>2
    <3> QED
      BY <2>5, <3>1, <3>2
  <2>7. pc' \in Awaiting \cup AtRest
    BY <2>4
  <2> QED
    BY <2>3, <2>5, <2>6, <2>7
<1>14. CASE Pull
  <2>1. CASE out # <<>>
    <3>1. /\ Yield(out)
          /\ UNCHANGED <<phase, usingFallback, sawAudio, committed, cancelled, completed,
                         pending, pendingBytes, finishing, aborted, made, streams>>
      BY <1>14, <2>1 DEF Pull
    <3>2. pc' = "yield" /\ delivered' \in Seq(Event) /\ out' \in Seq(Event)
      BY <2>1, <3>1, YieldFacts
    <3> QED
      BY <3>1, <3>2
  <2>2. CASE out = <<>>
    <3>1. Cancelled(streams, active) \in [Voice -> StreamState]
      BY CancelledFacts
    <3> QED
      BY <1>14, <2>2, <3>1 DEF Pull, Completed, Ended
  <2> QED
    BY <2>1, <2>2
<1>15. CASE Leave
  BY <1>15 DEF Leave, Ended, Cancelled
<1>16. CASE Cancel
  BY <1>16 DEF Cancel, Cancelled
<1>17. CASE AbortRequest
  BY <1>17 DEF AbortRequest
<1>18. CASE UNCHANGED ttsVars
  BY <1>18 DEF ttsVars
<1> QED
  BY <1>1, <1>2, <1>3, <1>4, <1>5, <1>6, <1>7, <1>8, <1>9, <1>10, <1>11, <1>12,
     <1>13, <1>14, <1>15, <1>16, <1>17, <1>18 DEF TtsNext, Settle, Provider

\* Every step keeps the flags in line with where the request stands.
LEMMA PlaceStep == TtsInv /\ [TtsNext]_ttsVars => PlaceInv'
<1> SUFFICES ASSUME TtsInv, [TtsNext]_ttsVars PROVE PlaceInv'
  OBVIOUS
<1> USE TtsAssumption DEF TtsInv, TtsTypeOK, PlaceInv, StreamInv, 
           active, Voice, Event, StreamState, Awaiting, AtRest, Synthesizing, Switching,
           Reading, Released, flags, buffers
<1>1. CASE PrimaryAborted
  BY <1>1 DEF PrimaryAborted, Refused, Ended, Cancelled
<1>2. CASE PrimaryChecked
  BY <1>2 DEF PrimaryChecked, Cancelled
<1>3. CASE FallbackAborted
  BY <1>3 DEF FallbackAborted, Refused, Ended, Cancelled, CancelSignal
<1>4. CASE FallbackChecked
  BY <1>4 DEF FallbackChecked, Refused, Ended, Cancelled, CancelSignal
<1>5. CASE Adopt
  BY <1>5 DEF Adopt, TooLate, Ended, Cancelled
<1>6. CASE NextAborted
  BY <1>6 DEF NextAborted, NextThrows, Rethrows, Ended, Cancelled, Cleared
<1>7. CASE PrimaryClosed
  BY <1>7 DEF PrimaryClosed, StartFallback, Refused, Ended, Cancelled, CancelSignal
<1>8. CASE PrimaryOpens
  BY <1>8 DEF PrimaryOpens, StartFallback, Refused, Ended, Cancelled, CancelSignal
<1>9. CASE FallbackOpens
  BY <1>9 DEF FallbackOpens, Refused, Ended, Cancelled, CancelSignal
<1>10. ASSUME NEW v \in Voice, Orphan(v) PROVE PlaceInv'
  BY <1>10 DEF Orphan
<1>11. ASSUME NEW audio \in BOOLEAN, NEW size \in EventSizes, NextEvent(audio, size)
      PROVE  PlaceInv'
  BY <1>11 DEF NextEvent, Yield, HeldBack, Overflows, Cleared
<1>12. CASE NextDone
  BY <1>12 DEF NextDone, Yield, Completed, Cleared
<1>13. CASE NextFails
  BY <1>13 DEF NextFails, NextThrows, Rethrows, Ended, Cancelled, Cleared
<1>14. CASE Pull
  BY <1>14 DEF Pull, Yield, Completed, Ended, Cancelled
<1>15. CASE Leave
  BY <1>15 DEF Leave, Ended, Cancelled
<1>16. CASE Cancel
  BY <1>16 DEF Cancel, Cancelled
<1>17. CASE AbortRequest
  BY <1>17 DEF AbortRequest
<1>18. CASE UNCHANGED ttsVars
  BY <1>18 DEF ttsVars
<1> QED
  BY <1>1, <1>2, <1>3, <1>4, <1>5, <1>6, <1>7, <1>8, <1>9, <1>10, <1>11, <1>12,
     <1>13, <1>14, <1>15, <1>16, <1>17, <1>18 DEF TtsNext, Settle, Provider

\* Every step keeps the provider streams in line with where the request stands.
LEMMA StreamStep == TtsInv /\ [TtsNext]_ttsVars => StreamInv'
<1> SUFFICES ASSUME TtsInv, [TtsNext]_ttsVars PROVE StreamInv'
  OBVIOUS
<1> USE TtsAssumption DEF TtsInv, TtsTypeOK, PlaceInv, StreamInv, 
           active, Voice, Event, StreamState, Awaiting, AtRest, Synthesizing, Switching,
           Reading, Released, flags, buffers
<1>1. CASE PrimaryAborted
  BY <1>1 DEF PrimaryAborted, Refused, Ended, Cancelled
<1>2. CASE PrimaryChecked
  BY <1>2 DEF PrimaryChecked, Cancelled
<1>3. CASE FallbackAborted
  BY <1>3 DEF FallbackAborted, Refused, Ended, Cancelled, CancelSignal
<1>4. CASE FallbackChecked
  BY <1>4 DEF FallbackChecked, Refused, Ended, Cancelled, CancelSignal
<1>5. CASE Adopt
  BY <1>5 DEF Adopt, TooLate, Ended, Cancelled
<1>6. CASE NextAborted
  BY <1>6 DEF NextAborted, NextThrows, Rethrows, Ended, Cancelled, Cleared
<1>7. CASE PrimaryClosed
  BY <1>7 DEF PrimaryClosed, StartFallback, Refused, Ended, Cancelled, CancelSignal
<1>8. CASE PrimaryOpens
  BY <1>8 DEF PrimaryOpens, StartFallback, Refused, Ended, Cancelled, CancelSignal
<1>9. CASE FallbackOpens
  BY <1>9 DEF FallbackOpens, Refused, Ended, Cancelled, CancelSignal
<1>10. ASSUME NEW v \in Voice, Orphan(v) PROVE StreamInv'
  BY <1>10 DEF Orphan
<1>11. ASSUME NEW audio \in BOOLEAN, NEW size \in EventSizes, NextEvent(audio, size)
      PROVE  StreamInv'
  BY <1>11 DEF NextEvent, Yield, HeldBack, Overflows, Cleared
<1>12. CASE NextDone
  BY <1>12 DEF NextDone, Yield, Completed, Cleared
<1>13. CASE NextFails
  <2> DEFINE s == IF streams[active] = "open"
                  THEN [streams EXCEPT ![active] = "broken"] ELSE streams
  <2>1. /\ NextThrows(s) /\ s \in [Voice -> StreamState] /\ active \in Voice
        /\ \A w \in Voice : w # active => s[w] = streams[w]
        /\ s[active] = IF streams[active] = "open" THEN "broken" ELSE streams[active]
    BY <1>13 DEF NextFails
  <2> HIDE DEF s
  <2>2. streams' = s \/ streams' = Cancelled(s, active)
    BY <2>1 DEF NextThrows, Ended
  <2>3. /\ Cancelled(s, active) \in [Voice -> StreamState]
        /\ \A w \in Voice : w # active => Cancelled(s, active)[w] = s[w]
        /\ s[active] \in {"open", "broken"} => Cancelled(s, active)[active] = "cancelled"
        /\ s[active] \notin {"open", "broken"} => Cancelled(s, active)[active] = s[active]
    BY <2>1, CancelledFacts
  <2>4. CASE usingFallback
    BY <2>1, <2>2, <2>3, <2>4 DEF NextThrows, Rethrows, Ended
  <2>5. CASE ~usingFallback
    BY <2>1, <2>2, <2>3, <2>5 DEF NextThrows, Rethrows, Ended
  <2> QED
    BY <2>4, <2>5
<1>14. CASE Pull
  <2>1. CASE out # <<>>
    BY <1>14, <2>1 DEF Pull, Yield
  <2>2. CASE out = <<>> /\ finishing
    BY <1>14, <2>2 DEF Pull, Completed
  <2>3. CASE out = <<>> /\ ~finishing /\ cancelled
    BY <1>14, <2>3 DEF Pull, Ended
  <2>4. CASE out = <<>> /\ ~finishing /\ ~cancelled
    BY <1>14, <2>4 DEF Pull
  <2> QED
    BY <2>1, <2>2, <2>3, <2>4
<1>15. CASE Leave
  BY <1>15 DEF Leave, Ended, Cancelled
<1>16. CASE Cancel
  <2>1. /\ streams' = Cancelled(streams, active) /\ phase = "stream"
        /\ cancelled' = TRUE /\ UNCHANGED <<pc, phase, usingFallback>>
    BY <1>16 DEF Cancel
  <2>2. CASE usingFallback
    BY <2>1, <2>2, CancelledFacts
  <2>3. CASE ~usingFallback
    BY <2>1, <2>3, CancelledFacts
  <2> QED
    BY <2>2, <2>3
<1>17. CASE AbortRequest
  BY <1>17 DEF AbortRequest
<1>18. CASE UNCHANGED ttsVars
  BY <1>18 DEF ttsVars
<1> QED
  BY <1>1, <1>2, <1>3, <1>4, <1>5, <1>6, <1>7, <1>8, <1>9, <1>10, <1>11, <1>12,
     <1>13, <1>14, <1>15, <1>16, <1>17, <1>18 DEF TtsNext, Settle, Provider

\* Every step keeps a replaceable primary unheard.
LEMMA SilentStep == TtsInv /\ [TtsNext]_ttsVars => SilentInv'
<1> SUFFICES ASSUME TtsInv, [TtsNext]_ttsVars PROVE SilentInv'
  OBVIOUS
<1> USE TtsAssumption DEF TtsInv, TtsTypeOK, PlaceInv, StreamInv, SilentInv, OrderInv,
           active, Voice, Event, StreamState, Awaiting, AtRest, Synthesizing, Switching,
           Reading, Released, flags, buffers
<1>1. CASE PrimaryAborted
  BY <1>1 DEF PrimaryAborted, Refused, Ended, Cancelled
<1>2. CASE PrimaryChecked
  BY <1>2 DEF PrimaryChecked, Cancelled
<1>3. CASE FallbackAborted
  BY <1>3 DEF FallbackAborted, Refused, Ended, Cancelled, CancelSignal
<1>4. CASE FallbackChecked
  BY <1>4 DEF FallbackChecked, Refused, Ended, Cancelled, CancelSignal
<1>5. CASE Adopt
  BY <1>5 DEF Adopt, TooLate, Ended, Cancelled
<1>6. CASE NextAborted
  BY <1>6 DEF NextAborted, NextThrows, Rethrows, Ended, Cancelled, Cleared
<1>7. CASE PrimaryClosed
  BY <1>7 DEF PrimaryClosed, StartFallback, Refused, Ended, Cancelled, CancelSignal
<1>8. CASE PrimaryOpens
  BY <1>8 DEF PrimaryOpens, StartFallback, Refused, Ended, Cancelled, CancelSignal
<1>9. CASE FallbackOpens
  BY <1>9 DEF FallbackOpens, Refused, Ended, Cancelled, CancelSignal
<1>10. ASSUME NEW v \in Voice, Orphan(v) PROVE SilentInv'
  BY <1>10 DEF Orphan
<1>11. ASSUME NEW audio \in BOOLEAN, NEW size \in EventSizes, NextEvent(audio, size)
      PROVE  SilentInv'
  <2>1. /\ pc = "next"
        /\ UNCHANGED <<phase, usingFallback, finishing, streams>>
    BY <1>11 DEF NextEvent
  <2>2. \/ pc' = "next" /\ UNCHANGED delivered /\ ~audio /\ UNCHANGED committed
        \/ pc' = "yield" /\ (usingFallback \/ sawAudio')
        \/ pc' = "yield" /\ committed'
    BY <1>11 DEF NextEvent, Yield
  <2>3. sawAudio => sawAudio'
    BY <1>11 DEF NextEvent
  <2> QED
    BY <2>1, <2>2, <2>3
<1>12. CASE NextDone
  BY <1>12 DEF NextDone, Yield, Completed, Cleared
<1>13. CASE NextFails
  <2> DEFINE s == IF streams[active] = "open"
                  THEN [streams EXCEPT ![active] = "broken"] ELSE streams
  <2>1. /\ NextThrows(s) /\ s \in [Voice -> StreamState] /\ active \in Voice
        /\ ~usingFallback => s["fallback"] = streams["fallback"]
    BY <1>13 DEF NextFails
  <2> HIDE DEF s
  <2>2. ~usingFallback => streams'["fallback"] = streams["fallback"]
    BY <2>1, CancelledFacts DEF NextThrows, Ended
  <2> QED
    BY <2>1, <2>2 DEF NextThrows, Rethrows, Ended
<1>14. CASE Pull
  <2>1. CASE out # <<>>
    BY <1>14, <2>1, YieldFacts DEF Pull
  <2>2. CASE out = <<>>
    BY <1>14, <2>2 DEF Pull, Completed, Ended, Cancelled
  <2> QED
    BY <2>1, <2>2
<1>15. CASE Leave
  BY <1>15 DEF Leave, Ended, Cancelled
<1>16. CASE Cancel
  BY <1>16 DEF Cancel, Cancelled
<1>17. CASE AbortRequest
  BY <1>17 DEF AbortRequest
<1>18. CASE UNCHANGED ttsVars
  BY <1>18 DEF ttsVars
<1> QED
  BY <1>1, <1>2, <1>3, <1>4, <1>5, <1>6, <1>7, <1>8, <1>9, <1>10, <1>11, <1>12,
     <1>13, <1>14, <1>15, <1>16, <1>17, <1>18 DEF TtsNext, Settle, Provider

\* Every step keeps the events in order.
LEMMA OrderStep == TtsInv /\ [TtsNext]_ttsVars => OrderInv'
<1> SUFFICES ASSUME TtsInv, [TtsNext]_ttsVars PROVE OrderInv'
  OBVIOUS
<1> USE TtsAssumption DEF TtsInv, TtsTypeOK, PlaceInv, StreamInv, SilentInv, OrderInv,
           active, Voice, Event, StreamState, Awaiting, AtRest, Synthesizing, Switching,
           Reading, Released, flags, buffers
<1>1. CASE PrimaryAborted
  BY <1>1 DEF PrimaryAborted, Refused, Ended, Cancelled
<1>2. CASE PrimaryChecked
  BY <1>2 DEF PrimaryChecked, Cancelled
<1>3. CASE FallbackAborted
  BY <1>3 DEF FallbackAborted, Refused, Ended, Cancelled, CancelSignal
<1>4. CASE FallbackChecked
  BY <1>4 DEF FallbackChecked, Refused, Ended, Cancelled, CancelSignal
<1>5. CASE Adopt
  <2>1. CASE cancelled
    BY <1>5, <2>1 DEF Adopt, TooLate, Ended
  <2>2. CASE ~cancelled
    <3>1. delivered = <<>> /\ pending = <<>> /\ made["fallback"] = 0
      BY <1>5 DEF Adopt
    <3> QED
      BY <1>5, <2>2, <3>1 DEF Adopt, TooLate
  <2> QED
    BY <2>1, <2>2
<1>6. CASE NextAborted
  BY <1>6 DEF NextAborted, NextThrows, Rethrows, Ended, Cancelled, Cleared
<1>7. CASE PrimaryClosed
  BY <1>7 DEF PrimaryClosed, StartFallback, Refused, Ended, Cancelled, CancelSignal
<1>8. CASE PrimaryOpens
  BY <1>8 DEF PrimaryOpens, StartFallback, Refused, Ended, Cancelled, CancelSignal
<1>9. CASE FallbackOpens
  BY <1>9 DEF FallbackOpens, Refused, Ended, Cancelled, CancelSignal
<1>10. ASSUME NEW v \in Voice, Orphan(v) PROVE OrderInv'
  BY <1>10 DEF Orphan
<1>11. ASSUME NEW audio \in BOOLEAN, NEW size \in EventSizes, NextEvent(audio, size)
      PROVE  OrderInv'
  <2> DEFINE e == [voice |-> active, n |-> made[active] + 1]
  <2>1. /\ active \in Voice /\ active' = active
        /\ e \in Event /\ e = [voice |-> active, n |-> made[active] + 1]
        /\ pc = "next" /\ phase = "stream" /\ ~completed /\ ~completed' /\ ~finishing
        /\ made' = [made EXCEPT ![active] = @ + 1] /\ made'[active] = made[active] + 1
        /\ UNCHANGED <<phase, usingFallback>>
        /\ ~usingFallback' => made'["fallback"] = 0
    BY <1>11 DEF NextEvent
  <2>0. /\ Len(delivered) \in Nat /\ Len(pending) \in Nat
        /\ \A i \in 1..Len(pending) : pending[i] = [voice |-> active, n |-> Len(delivered) + i]
        /\ e = [voice |-> active, n |-> Len(delivered) + Len(pending) + 1]
    BY <2>1
  <2> HIDE DEF e, active, Event, Voice
  <2>2. CASE /\ usingFallback \/ sawAudio
             /\ Yield(<<e>>)
             /\ UNCHANGED <<pending, pendingBytes, committed>>
    <3>1. /\ <<e>> \in Seq(Event) /\ <<e>> # <<>> /\ Len(<<e>>) = 1
          /\ <<e>>[1] = e
      BY <2>1
    <3>2. pending = <<>> /\ Len(delivered) = made[active]
      BY <2>1, <2>2
    <3>3. \A i \in 1..Len(<<e>>) : <<e>>[i] = [voice |-> active, n |-> Len(delivered) + i]
      BY <2>1, <3>1, <3>2
    <3>4. /\ \A i \in 1..Len(delivered') : delivered'[i] = [voice |-> active, n |-> i]
          /\ \A i \in 1..Len(out') : out'[i] = [voice |-> active, n |-> Len(delivered') + i]
          /\ Len(delivered') + Len(out') = Len(delivered) + 1
      BY <2>1, <2>2, <3>1, <3>3, YieldInOrder
    <3> QED
      BY <2>1, <2>2, <3>2, <3>4 DEF Yield
  <2>3. CASE Yield(HeldBack(e)) /\ Cleared
    <3>3. /\ \A i \in 1..Len(delivered') : delivered'[i] = [voice |-> active, n |-> i]
          /\ \A i \in 1..Len(out') : out'[i] = [voice |-> active, n |-> Len(delivered') + i]
          /\ Len(delivered') + Len(out') = Len(delivered) + Len(pending) + 1
      BY <2>0, <2>1, <2>3, FlushInOrder
    <3> QED
      BY <2>1, <2>3, <3>3 DEF Yield, Cleared
  <2>4. CASE /\ ~usingFallback /\ ~sawAudio /\ ~audio
             /\ pending' = Append(pending, e)
             /\ UNCHANGED <<pc, out, delivered, committed>>
    <3>1. ~sawAudio'
      BY <1>11, <2>4 DEF NextEvent
    <3>2. Len(pending') = Len(pending) + 1
      BY <2>1, <2>4, AppendFacts
    <3>3. \A i \in 1..Len(pending') :
             pending'[i] = [voice |-> active, n |-> Len(delivered) + i]
      BY <2>0, <2>1, <2>4, AppendInOrder
    <3> QED
      BY <2>1, <2>4, <3>1, <3>2, <3>3
  <2> QED
    BY <1>11, <2>2, <2>3, <2>4 DEF NextEvent, e, active
<1>12. CASE NextDone
  <2>1. /\ active \in Voice /\ active' = active /\ pc = "next" /\ phase = "stream"
        /\ pending' = <<>> /\ UNCHANGED <<phase, usingFallback, made>>
    BY <1>12 DEF NextDone, Cleared
  <2>2. CASE pending = <<>>
    BY <1>12, <2>1, <2>2 DEF NextDone, Completed
  <2>3. CASE pending # <<>>
    <3>1. Yield(pending) /\ UNCHANGED completed
      BY <1>12, <2>3 DEF NextDone
    <3>2. /\ \A i \in 1..Len(delivered') : delivered'[i] = [voice |-> active, n |-> i]
          /\ \A i \in 1..Len(out') : out'[i] = [voice |-> active, n |-> Len(delivered') + i]
          /\ Len(delivered') + Len(out') = Len(delivered) + Len(pending)
      BY <2>1, <2>3, <3>1, YieldInOrder
    <3> QED
      BY <2>1, <3>1, <3>2 DEF Yield
  <2> QED
    BY <2>2, <2>3
<1>13. CASE NextFails
  BY <1>13 DEF NextFails, NextThrows, Rethrows, Ended, Cancelled, Cleared
<1>14. CASE Pull
  <2>1. CASE out # <<>>
    <3>1. /\ Yield(out) /\ pc = "yield" /\ phase = "stream"
          /\ UNCHANGED <<completed, phase, usingFallback, pending, made, sawAudio>>
      BY <1>14, <2>1 DEF Pull
    <3>2. /\ \A i \in 1..Len(delivered') : delivered'[i] = [voice |-> active, n |-> i]
          /\ \A i \in 1..Len(out') : out'[i] = [voice |-> active, n |-> Len(delivered') + i]
          /\ Len(delivered') + Len(out') = Len(delivered) + Len(out)
      BY <2>1, <3>1, YieldInOrder
    <3> QED
      BY <3>1, <3>2 DEF Yield
  <2>2. CASE out = <<>>
    BY <1>14, <2>2 DEF Pull, Completed, Ended
  <2> QED
    BY <2>1, <2>2
<1>15. CASE Leave
  BY <1>15 DEF Leave, Ended, Cancelled
<1>16. CASE Cancel
  BY <1>16 DEF Cancel, Cancelled
<1>17. CASE AbortRequest
  BY <1>17 DEF AbortRequest
<1>18. CASE UNCHANGED ttsVars
  BY <1>18 DEF ttsVars
<1> QED
  BY <1>1, <1>2, <1>3, <1>4, <1>5, <1>6, <1>7, <1>8, <1>9, <1>10, <1>11, <1>12,
     <1>13, <1>14, <1>15, <1>16, <1>17, <1>18 DEF TtsNext, Settle, Provider

-----------------------------------------------------------------------------

\* The inductive invariant holds in every state of every behaviour.
THEOREM TtsInvariant == TtsSpec => []TtsInv
<1>1. TtsInit => TtsInv
  <2> SUFFICES ASSUME TtsInit PROVE TtsInv
    OBVIOUS
  <2> USE TtsAssumption DEF TtsInit, active, Voice
  <2>1. TtsTypeOK
    <3>1. <<>> \in Seq(Event)
      OBVIOUS
    <3>2. streams \in [Voice -> StreamState]
      BY DEF StreamState
    <3>3. made \in [Voice -> 0..MaxEvents] /\ pendingBytes \in 0..MaxPendingBytes
      OBVIOUS
    <3>4. pc \in Awaiting \cup AtRest
      BY DEF Awaiting
    <3> QED
      BY <3>1, <3>2, <3>3, <3>4 DEF TtsTypeOK
  <2>2. PlaceInv
    BY DEF PlaceInv, Synthesizing, Switching
  <2>3. StreamInv
    BY DEF StreamInv, Switching, Released
  <2>4. SilentInv
    BY DEF SilentInv, Reading
  <2>5. OrderInv
    BY DEF OrderInv
  <2> QED
    BY <2>1, <2>2, <2>3, <2>4, <2>5 DEF TtsInv
<1>2. TtsInv /\ [TtsNext]_ttsVars => TtsInv'
  BY TypeStep, PlaceStep, StreamStep, SilentStep, OrderStep DEF TtsInv
<1> QED
  BY <1>1, <1>2, PTL DEF TtsSpec

\* Every variable keeps its type, and the events held back fit the byte bound of
\* the pre-audio buffer.
THEOREM TypeCorrect == TtsSpec => []TtsTypeOK
<1>1. TtsInv => TtsTypeOK
  BY DEF TtsInv
<1> QED
  BY <1>1, TtsInvariant, PTL

\* The caller never hears both voices: the fallback is opened only while nothing
\* of the primary was handed over.
THEOREM OneVoiceOnly == TtsSpec => []OneVoice
<1>1. TtsInv => OneVoice
  <2> SUFFICES ASSUME TtsInv, streams["fallback"] # "none",
                      NEW i \in 1..Len(delivered)
               PROVE  delivered[i].voice = "fallback"
    BY DEF OneVoice
  <2>1. CASE usingFallback
    <3>1. delivered[i] = [voice |-> active, n |-> i] /\ active = "fallback"
      BY <2>1 DEF TtsInv, OrderInv, active
    <3> QED
      BY <3>1
  <2>2. CASE ~usingFallback
    <3>1. delivered = <<>>
      BY <2>2 DEF TtsInv, SilentInv
    <3> QED
      BY <3>1
  <2> QED
    BY <2>1, <2>2
<1> QED
  BY <1>1, TtsInvariant, PTL

\* The caller gets the active voice's events in order from the first, and all of
\* them when the generator completes.
THEOREM DeliversInOrderAndInFull == TtsSpec => []InOrderAndInFull
<1>1. TtsInv => InOrderAndInFull
  BY DEF TtsInv, OrderInv, InOrderAndInFull
<1> QED
  BY <1>1, TtsInvariant, PTL

\* A request that is over has left no provider stream running, and the voices
\* are never open together.
THEOREM LeaksNoStream == TtsSpec => []NoStreamLeaks
<1>1. TtsInv => NoStreamLeaks
  BY DEF TtsInv, StreamInv, NoStreamLeaks, Voice, Released
<1> QED
  BY <1>1, TtsInvariant, PTL

=============================================================================
