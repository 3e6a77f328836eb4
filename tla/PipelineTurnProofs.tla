------------------------- MODULE PipelineTurnProofs -------------------------
(***************************************************************************)
(* Proofs about PipelineTurn, for any number of turns and faults.          *)
(***************************************************************************)
EXTENDS PipelineTurn, FiniteSetTheorems, TLAPS

\* The writes that end a turn, and all that are about one.
Ends == {"end", "fail", "recover", "abandon"}
TurnOps == Ends \cup {"status", "checkpoint"}

Delivered(t) == receipt[t] \in {"audio", "empty", "text"}

\* From its activation to its end a turn is in the hands of the loop.
Answering == {"llm", "calling", "tools", "more", "say", "speaking", "play", "text", "deliver"}

\* Where the loop is with its turn, the active control, the checkpoint and the session.
Place ==
    /\ loop.pc \in {"idle", "gate", "start"} => loop.turn = 0
    /\ loop.pc \in Answering \cup {"think", "end", "caught", "failing", "recovering"} =>
          loop.turn # 0
    /\ loop.pc \in Answering \cup {"think"} \/ ctl.active =>
          loop.turn # 0 /\ loop.turn = loop.seq
    /\ ctl.active => loop.pc \notin {"idle", "gate", "start", "think"}
    /\ loop.pc \in {"start", "think"} => cp.pc = "off" /\ ~Degraded(health)
    /\ loop.pc \in {"ending", "ended"} => Ending
    /\ ctl.active /\ ctl.cause = "none" => cp.pc = "off"
    /\ Degraded(health) /\ ctl.active => ctl.aborted

\* What a write in flight asks for is in order, and a write that ended a turn has.
SlotOK(s) ==
    LET w == writes[s] IN
    /\ w.st = "none" <=> w.wait = "none"
    /\ w.st # "none" =>
         /\ s[1] \in TurnOps => turns[s[2]] # "absent"
         /\ s[1] = "status" => w.to \in {"thinking", "calling_tool", "speaking"}
         /\ s[1] \in Ends => w.to \in Terminal /\ (w.to = "completed" => Delivered(s[2]))
         /\ s[1] = "session" => w.to = "failed"
    /\ w.st = "done" /\ s[1] \in Ends => turns[s[2]] \in Terminal

Slots == \A s \in Slot : SlotOK(s)

\* A start that was not answered in time is waited for, or the session is being ended.
StartTracked ==
    LET w == writes[StartSlot] IN
    /\ w.wait # "dropped"
    /\ w.wait = "awaited" <=> loop.pc = "start"
    /\ w.wait # "none" => loop.turn = 0
    /\ w.wait \in {"tracked", "abandoning"} =>
          \/ loop.pc = "recover" /\ StartSlot \in waitsFor
          \/ Ending /\ loop.pc \in {"ending", "ended", "idle", "gate"}
    /\ w.st = "done" => LastStarted > loop.seq
    /\ w.wait = "abandoning" => w.st = "done"
    /\ \A t \in Turn :
          writes[<<"abandon", t>>].wait = "awaited" => w.wait = "abandoning" /\ t = LastStarted

\* A checkpoint that may be sent is not in flight.
CheckpointTracked ==
    /\ cp.pc # "off" => cp.turn # 0 /\ cp.turn <= loop.seq
    /\ cp.pc = "wait" => writes[<<"checkpoint", cp.turn>>].wait = "none"
    /\ cp.pc = "write" => writes[<<"checkpoint", cp.turn>>].wait = "awaited"
    /\ \A t \in Turn : writes[<<"checkpoint", t>>].wait # "none" => t <= loop.seq
    /\ loop.pc = "think" \/ (ctl.active /\ ctl.cause = "none") =>
          writes[<<"checkpoint", loop.turn>>].wait = "none"
    /\ loop.pc = "recovering" => writes[<<"recover", loop.turn>>].wait = "awaited"

\* Turns are numbered as they are stored, and only the last can be open.
InSequence ==
    /\ Present = 1 .. LastStarted
    /\ loop.seq <= LastStarted
    /\ loop.turn # 0 => loop.turn = LastStarted
    /\ OpenTurns \subseteq {LastStarted}
    /\ LastStarted + queue + (IF loop.pc = "gate" THEN 1 ELSE 0)
          + (IF writes[StartSlot].st = "sent" THEN 1 ELSE 0) <= MaxTurns

\* A receipt is made once, while the turn is spoken.
Receipts ==
    /\ \A t \in Turn : t > loop.seq => receipt[t] = "none"
    /\ loop.pc = "think" => receipt[loop.turn] = "none"
    /\ loop.pc \in Answering =>
          IF ctl.delivered THEN Delivered(loop.turn) ELSE receipt[loop.turn] = "none"

TurnInv ==
    /\ TurnTypeOK /\ Place /\ Slots /\ StartTracked /\ CheckpointTracked /\ InSequence
    /\ Receipts /\ NoTurnLeftBehind /\ ReportsWhatIsStored /\ CompletedWasDelivered

-----------------------------------------------------------------------------
(***************************************************************************)
(* Slots, and what a step does to the writes in them.                      *)
(***************************************************************************)
LEMMA SlotFacts ==
    /\ StartSlot \in Slot /\ StartSlot[1] = "start"
    /\ SessionSlot \in Slot /\ SessionSlot[1] = "session"
    /\ \A op \in TurnOps, t \in Turn :
          <<op, t>> \in Slot /\ <<op, t>>[1] = op /\ <<op, t>>[2] = t
    /\ \A s \in Slot : \/ s = StartSlot
                       \/ s = SessionSlot
                       \/ s[1] \in TurnOps /\ s[2] \in Turn /\ s = <<s[1], s[2]>>
  BY DEF Slot, StartSlot, SessionSlot, TurnOps, Ends

\* The caller of the write in slot s is told o.
Answered(s, o, wait) ==
    /\ writes' \in [Slot -> Write]
    /\ \A q \in Slot : q # s => writes'[q] = writes[q]
    /\ o \in {"ok", "refused", "unavailable", "timeout"}
    /\ writes[s].st # "none" /\ (o = "ok" => writes[s].st = "done")
    /\ IF o = "timeout"
         THEN /\ writes'[s].to = writes[s].to /\ writes'[s].st = writes[s].st
              /\ writes'[s].wait = wait
         ELSE writes'[s] = Free
    /\ faults' \in 0 .. MaxFaults

\* A write is sent.
Sent(s, to) ==
    /\ writes' \in [Slot -> Write]
    /\ \A q \in Slot : q # s => writes'[q] = writes[q]
    /\ writes'[s].to = to /\ writes'[s].st = "sent" /\ writes'[s].wait = "awaited"

LEMMA FreeIsWrite == Free \in Write /\ Free.to = "none" /\ Free.st = "none" /\ Free.wait = "none"
  BY DEF Free, Write

LEMMA ChargedFaults ==
    ASSUME TurnTypeOK, NEW o, Charged(o), o \in {"unavailable", "timeout"} => faults > 0
    PROVE  faults' \in 0 .. MaxFaults
  BY TurnAssumption DEF TurnTypeOK, Charged

LEMMA ToldAnswers ==
    ASSUME TurnTypeOK, NEW s \in Slot, NEW o \in Outcomes(s), NEW wait \in {"tracked", "dropped"},
           writes' = Told(s, o, wait), Charged(o)
    PROVE  Answered(s, o, wait)
<1>1. /\ o \in {"ok", "refused", "unavailable", "timeout"}
      /\ writes[s].st # "none" /\ (o = "ok" => writes[s].st = "done")
      /\ o \in {"unavailable", "timeout"} => faults > 0
  BY DEF Outcomes
<1>2. faults' \in 0 .. MaxFaults
  BY <1>1, ChargedFaults
<1>3. writes[s] \in Write
  BY DEF TurnTypeOK
<1>4. PICK w : w = IF o = "timeout" THEN [writes[s] EXCEPT !.wait = wait] ELSE Free
  OBVIOUS
<1>5. w \in Write /\ IF o = "timeout"
                       THEN /\ w.to = writes[s].to /\ w.st = writes[s].st
                            /\ w.wait = wait
                       ELSE w = Free
  <2>1. CASE o = "timeout"
    BY <1>3, <1>4, <2>1 DEF Write
  <2>2. CASE o # "timeout"
    BY <1>4, <2>2, FreeIsWrite
  <2> QED
    BY <2>1, <2>2
<1>6. writes' = [writes EXCEPT ![s] = w]
  BY <1>4 DEF Told
<1>7. /\ writes' \in [Slot -> Write] /\ writes'[s] = w
      /\ \A q \in Slot : q # s => writes'[q] = writes[q]
  BY <1>5, <1>6 DEF TurnTypeOK
<1> QED
  BY <1>1, <1>2, <1>5, <1>7 DEF Answered

LEMMA SendSends ==
    ASSUME TurnTypeOK, NEW s \in Slot, NEW to \in Open \cup Terminal,
           writes' = Send(writes, s, to)
    PROVE  Sent(s, to)
<1>1. PICK w : w = [to |-> to, st |-> "sent", wait |-> "awaited"]
  OBVIOUS
<1>2. w \in Write /\ w.to = to /\ w.st = "sent" /\ w.wait = "awaited"
  BY <1>1 DEF Write
<1>3. writes' = [writes EXCEPT ![s] = w]
  BY <1>1 DEF Send
<1> QED
  BY <1>2, <1>3 DEF TurnTypeOK, Sent

\* What was delivered of a turn stays delivered.
DeliveredKept == \A t \in Turn : Delivered(t) => Delivered(t)'

\* A write that is answered is in order, and so is what is left of it.
LEMMA AnsweredSlots ==
    ASSUME TurnInv, NEW s \in Slot, NEW o, NEW wait \in {"tracked", "dropped"},
           Answered(s, o, wait), UNCHANGED turns, DeliveredKept
    PROVE  Slots'
<1> SUFFICES ASSUME NEW q \in Slot PROVE SlotOK(q)'
  BY DEF Slots
<1>1. q[1] \in TurnOps => q[2] \in Turn
  BY SlotFacts DEF TurnOps, Ends
<1>2. SlotOK(q)
  BY DEF TurnInv, Slots
<1>3. CASE q # s
  BY <1>1, <1>2, <1>3 DEF Answered, SlotOK, DeliveredKept, TurnOps
<1>4. CASE q = s /\ o = "timeout"
  BY <1>1, <1>2, <1>4 DEF Answered, SlotOK, DeliveredKept, TurnOps
<1>5. CASE q = s /\ o # "timeout"
  BY <1>5, FreeIsWrite DEF Answered, SlotOK
<1> QED
  BY <1>3, <1>4, <1>5

LEMMA SentSlots ==
    ASSUME TurnInv, NEW s \in Slot, NEW to, Sent(s, to), UNCHANGED turns, DeliveredKept,
           s[1] \in TurnOps => turns[s[2]] # "absent",
           s[1] = "status" => to \in {"thinking", "calling_tool", "speaking"},
           s[1] \in Ends => to \in Terminal /\ (to = "completed" => Delivered(s[2])'),
           s[1] = "session" => to = "failed"
    PROVE  Slots'
<1> SUFFICES ASSUME NEW q \in Slot PROVE SlotOK(q)'
  BY DEF Slots
<1>1. q[1] \in TurnOps => q[2] \in Turn
  BY SlotFacts DEF TurnOps, Ends
<1>2. SlotOK(q)
  BY DEF TurnInv, Slots
<1>3. CASE q # s
  BY <1>1, <1>2, <1>3 DEF Sent, SlotOK, DeliveredKept, TurnOps
<1>4. CASE q = s
  BY <1>4 DEF Sent, SlotOK
<1> QED
  BY <1>3, <1>4

LEMMA SameSlots ==
    ASSUME TurnInv, UNCHANGED <<writes, turns>>, DeliveredKept
    PROVE  Slots'
<1> SUFFICES ASSUME NEW q \in Slot PROVE SlotOK(q)'
  BY DEF Slots
<1>1. q[1] \in TurnOps => q[2] \in Turn
  BY SlotFacts DEF TurnOps, Ends
<1>2. SlotOK(q)
  BY DEF TurnInv, Slots
<1> QED
  BY <1>1, <1>2 DEF SlotOK, DeliveredKept, TurnOps

-----------------------------------------------------------------------------
(***************************************************************************)
(* The shapes of a step of the loop.                                       *)
(***************************************************************************)

\* The slots whose writes others than the answer of a turn are about.
Aside == {"start", "abandon", "checkpoint"}

LEMMA LastStartedNat == LastStarted \in Nat
<1>1. IsFiniteSet(1 .. MaxTurns)
  BY FS_Interval, TurnAssumption
<1>2. Present \subseteq 1 .. MaxTurns
  BY DEF Present, Turn
<1>3. IsFiniteSet(Present)
  BY <1>1, <1>2, FS_Subset
<1> QED
  BY <1>3, FS_CardinalityType DEF LastStarted

LEMMA LoopFields ==
    ASSUME TurnInv
    PROVE  /\ loop \in LoopState /\ loop.turn \in 0 .. MaxTurns /\ loop.seq \in 0 .. MaxTurns
           /\ loop.retry \in BOOLEAN
  BY DEF TurnInv, TurnTypeOK, LoopState

LEMMA NextTurnFacts ==
    ASSUME TurnInv, loop' = NextTurn
    PROVE  loop' \in LoopState /\ loop'.pc = "idle" /\ loop'.turn = 0 /\ loop'.seq = loop.seq
<1>1. loop' = [loop EXCEPT !.pc = "idle", !.turn = 0, !.retry = TRUE]
  BY DEF NextTurn
<1>2. loop'.pc = "idle" /\ loop'.turn = 0 /\ loop'.seq = loop.seq
  BY <1>1, LoopFields DEF LoopState
<1>3. 0 \in 0 .. MaxTurns
  BY TurnAssumption
<1>4. loop' \in LoopState
  BY <1>1, <1>3, LoopFields DEF LoopState
<1> QED
  BY <1>2, <1>4

LEMMA AtFacts ==
    ASSUME TurnInv, NEW pc, loop' = At(pc),
           pc \in {"idle", "gate", "start", "think", "llm", "calling", "tools", "more",
                  "say", "speaking", "play", "text", "deliver", "end", "caught",
                  "failing", "recover", "inspect", "recovering", "ending", "ended"}
    PROVE  loop' \in LoopState /\ loop'.pc = pc /\ loop'.turn = loop.turn /\ loop'.seq = loop.seq
  BY LoopFields DEF At, LoopState

\* The start slot is free while the loop has a turn.
LEMMA TurnHasStarted ==
    ASSUME TurnInv, loop.turn # 0
    PROVE  /\ writes[StartSlot].wait = "none" /\ writes[StartSlot].st = "none"
           /\ \A t \in Turn : writes[<<"abandon", t>>].wait # "awaited"
           /\ loop.turn \in Turn /\ turns[loop.turn] # "absent"
           /\ loop.pc \notin {"idle", "gate", "start"}
<1>1. writes[StartSlot].wait = "none"
  BY DEF TurnInv, StartTracked
<1>2. writes[StartSlot].st = "none"
  BY <1>1, SlotFacts DEF TurnInv, Slots, SlotOK
<1>3. loop.turn \in Turn
  BY TurnAssumption DEF TurnInv, TurnTypeOK, LoopState, Turn
<1>4. loop.turn \in Present
  BY <1>3, TurnAssumption DEF TurnInv, InSequence, Turn
<1>5. loop.pc \notin {"idle", "gate", "start"}
  BY DEF TurnInv, Place
<1> QED
  BY <1>1, <1>2, <1>3, <1>4, <1>5 DEF TurnInv, StartTracked, Present

\* The loop goes on with the turn it has.
LEMMA GoesOn ==
    ASSUME TurnInv, loop.turn # 0,
           loop' \in LoopState, loop'.turn = loop.turn, loop'.seq = loop.seq,
           loop'.pc \notin {"idle", "gate", "start", "think"},
           loop'.pc = "recovering" => writes'[<<"recover", loop.turn>>].wait = "awaited",
           UNCHANGED <<turns, session, fenced, queue, cp, shutdown, reported, history>>,
           fin' \in {"no", "closing", "write", "done"}, fin # "no" => fin' # "no",
           faults' \in 0 .. MaxFaults, waitsFor' \subseteq Slot,
           ctl' \in Control, health' \in Health,
           ctl'.active /\ ctl'.cause = "none" =>
              \/ ctl.active /\ ctl.cause = "none"
              \/ loop.pc = "think",
           receipt' \in [Turn -> Receipt], DeliveredKept,
           writes' \in [Slot -> Write],
           \A s \in Slot : s[1] \in Aside => writes'[s] = writes[s],
           Slots', Place', Receipts'
    PROVE  TurnInv'
<1>1. /\ writes[StartSlot].wait = "none" /\ writes[StartSlot].st = "none"
      /\ \A t \in Turn : writes[<<"abandon", t>>].wait # "awaited"
      /\ loop.turn \in Turn /\ loop.pc \notin {"idle", "gate", "start"}
  BY TurnHasStarted
<1>2. /\ writes'[StartSlot] = writes[StartSlot]
      /\ \A t \in Turn : /\ writes'[<<"abandon", t>>] = writes[<<"abandon", t>>]
                         /\ writes'[<<"checkpoint", t>>] = writes[<<"checkpoint", t>>]
  BY SlotFacts DEF Aside, TurnOps, Ends
<1>3. TurnTypeOK'
  BY DEF TurnInv, TurnTypeOK
<1>4. StartTracked'
  BY <1>1, <1>2 DEF StartTracked
<1>5. CheckpointTracked'
  <2>1. CheckpointTracked /\ (cp.pc # "off" => cp.turn \in Turn)
    BY TurnAssumption DEF TurnInv, TurnTypeOK, CheckpointTracked, CheckpointState, Turn
  <2>2. loop'.pc = "think" \/ (ctl'.active /\ ctl'.cause = "none") =>
           writes[<<"checkpoint", loop.turn>>].wait = "none"
    BY <2>1 DEF CheckpointTracked
  <2>3. /\ cp'.pc # "off" => cp'.turn # 0 /\ cp'.turn <= loop'.seq
        /\ cp'.pc = "wait" => writes'[<<"checkpoint", cp'.turn>>].wait = "none"
        /\ cp'.pc = "write" => writes'[<<"checkpoint", cp'.turn>>].wait = "awaited"
        /\ \A t \in Turn : writes'[<<"checkpoint", t>>].wait # "none" => t <= loop'.seq
    BY <1>2, <2>1 DEF CheckpointTracked
  <2>4. writes'[<<"checkpoint", loop.turn>>] = writes[<<"checkpoint", loop.turn>>]
    BY <1>1, <1>2
  <2> QED
    BY <2>2, <2>3, <2>4 DEF CheckpointTracked
<1>6. InSequence'
  BY <1>1, <1>2 DEF TurnInv, InSequence, Present, OpenTurns, LastStarted
<1>7. NoTurnLeftBehind'
  BY DEF NoTurnLeftBehind
<1>8. ReportsWhatIsStored'
  BY DEF TurnInv, ReportsWhatIsStored, Ending
<1>9. CompletedWasDelivered'
  BY DEF TurnInv, CompletedWasDelivered, DeliveredKept, Delivered
<1> QED
  BY <1>3, <1>4, <1>5, <1>6, <1>7, <1>8, <1>9 DEF TurnInv

\* The loop is done with its transcript.
LEMMA IsDone ==
    ASSUME TurnInv, loop' = NextTurn, loop.pc \notin {"start", "recover"},
           OpenTurns = {} \/ Ending,
           UNCHANGED <<turns, session, fenced, queue, waitsFor, cp, fin, shutdown, receipt>>,
           faults' \in 0 .. MaxFaults, ctl' \in Control, ~ctl'.active, health' \in Health,
           reported' \in [Turn -> Terminal \cup {"none"}],
           history' \in [Turn -> {"none", "turn", "interrupted"}],
           ReportsWhatIsStored',
           writes' \in [Slot -> Write],
           \A s \in Slot : s[1] \in Aside => writes'[s] = writes[s],
           Slots'
    PROVE  TurnInv'
<1>1. /\ loop' \in LoopState /\ loop'.pc = "idle" /\ loop'.turn = 0 /\ loop'.seq = loop.seq
  BY NextTurnFacts
<1>2. /\ writes'[StartSlot] = writes[StartSlot]
      /\ \A t \in Turn : /\ writes'[<<"abandon", t>>] = writes[<<"abandon", t>>]
                         /\ writes'[<<"checkpoint", t>>] = writes[<<"checkpoint", t>>]
  BY SlotFacts DEF Aside, TurnOps, Ends
<1>3. TurnTypeOK'
  BY <1>1 DEF TurnInv, TurnTypeOK
<1>4. Place'
  BY <1>1 DEF Place, Answering
<1>5. StartTracked'
  <2>1. LastStarted' = LastStarted /\ Ending' = Ending
    BY DEF LastStarted, Present, Ending
  <2> QED
    BY <1>1, <1>2, <2>1 DEF TurnInv, StartTracked
<1>6. CheckpointTracked'
  <2>1. CheckpointTracked /\ (cp.pc # "off" => cp.turn \in Turn)
    BY TurnAssumption DEF TurnInv, TurnTypeOK, CheckpointTracked, CheckpointState, Turn
  <2> QED
    BY <1>1, <1>2, <2>1 DEF CheckpointTracked
<1>7. InSequence'
  <2>1. LastStarted \in Nat /\ queue \in Nat /\ LastStarted' = LastStarted /\ Present' = Present
    BY LastStartedNat DEF TurnInv, TurnTypeOK, LastStarted, Present
  <2>2. /\ Present = 1 .. LastStarted /\ loop.seq <= LastStarted
        /\ OpenTurns \subseteq {LastStarted}
    BY DEF TurnInv, InSequence
  <2>3. LastStarted + queue + 0 + (IF writes[StartSlot].st = "sent" THEN 1 ELSE 0) <= MaxTurns
    BY <2>1, TurnAssumption DEF TurnInv, InSequence
  <2> QED
    BY <1>1, <1>2, <2>1, <2>2, <2>3 DEF InSequence, OpenTurns
<1>8. Receipts'
  BY <1>1 DEF TurnInv, Receipts, Answering
<1>9. NoTurnLeftBehind'
  BY <1>1 DEF NoTurnLeftBehind, OpenTurns, Ending
<1>10. CompletedWasDelivered'
  BY DEF TurnInv, CompletedWasDelivered, ReportsWhatIsStored
<1> QED
  BY <1>3, <1>4, <1>5, <1>6, <1>7, <1>8, <1>9, <1>10 DEF TurnInv

\* What the loop says of its turn is what is stored.
LEMMA FinishReports ==
    ASSUME TurnInv, loop.turn \in Turn, NEW status, NEW remembered,
           \/ status = turns[loop.turn] /\ status \in Terminal
           \/ status = "failed" /\ Ending /\ remembered = "none",
           remembered \in {"none", "turn", "interrupted"},
           remembered = "turn" => status = "completed",
           remembered = "interrupted" => status = "cancelled",
           Finish(status, remembered), UNCHANGED <<turns, fin>>
    PROVE  /\ reported' \in [Turn -> Terminal \cup {"none"}]
           /\ history' \in [Turn -> {"none", "turn", "interrupted"}]
           /\ ReportsWhatIsStored' /\ loop' = NextTurn
<1>1. status \in Terminal
  BY DEF Terminal
<1>2. /\ reported' = [reported EXCEPT ![loop.turn] = status]
      /\ history' = [history EXCEPT ![loop.turn] = remembered]
      /\ loop' = NextTurn
  BY DEF Finish
<1>3. /\ reported' \in [Turn -> Terminal \cup {"none"}]
      /\ history' \in [Turn -> {"none", "turn", "interrupted"}]
  BY <1>1, <1>2 DEF TurnInv, TurnTypeOK
<1>4. ReportsWhatIsStored'
  <2> SUFFICES ASSUME NEW t \in Turn
               PROVE  /\ reported'[t] \in {"completed", "cancelled"} => turns[t] = reported'[t]
                      /\ reported'[t] = "failed" => turns[t] = "failed" \/ Ending
                      /\ history'[t] = "turn" => turns[t] = "completed"
                      /\ history'[t] = "interrupted" => turns[t] = "cancelled"
    BY DEF ReportsWhatIsStored, Ending
  <2>1. CASE t = loop.turn
    BY <1>2, <2>1 DEF TurnInv, TurnTypeOK
  <2>2. CASE t # loop.turn
    BY <1>2, <2>2 DEF TurnInv, TurnTypeOK, ReportsWhatIsStored
  <2> QED
    BY <2>1, <2>2
<1> QED
  BY <1>2, <1>3, <1>4

\* What the conversation policy remembers of a stored status.
LEMMA RememberedFacts ==
    ASSUME NEW asked, NEW status
    PROVE  /\ Remembered(asked, status) \in {"none", "turn", "interrupted"}
           /\ Remembered(asked, status) = "turn" => status = "completed"
           /\ Remembered(asked, status) = "interrupted" => status = "cancelled"
  BY DEF Remembered

-----------------------------------------------------------------------------
(***************************************************************************)
(* The control of the active turn and the health of persistence.           *)
(***************************************************************************)

\* The control n is what c was, perhaps aborted.
Kept(c, n) ==
    /\ n \in Control /\ n.active = c.active /\ n.delivered = c.delivered
    /\ n.cause = "none" => c.cause = "none"
    /\ c.aborted => n.aborted

LEMMA SilencedFacts ==
    ASSUME NEW h \in Health, NEW c \in Control, NEW n, n = Silenced(h, c)
    PROVE  Kept(c, n) /\ n.cause = c.cause /\ (Degraded(h) /\ n.active => n.aborted)
<1>1. CASE Degraded(h) /\ c.active
  <2>1. n = [c EXCEPT !.aborted = TRUE]
    BY <1>1 DEF Silenced
  <2> QED
    BY <2>1 DEF Kept, Control
<1>2. CASE ~(Degraded(h) /\ c.active)
  BY <1>2 DEF Silenced, Kept
<1> QED
  BY <1>1, <1>2

LEMMA AbortFacts ==
    ASSUME NEW c \in Control, NEW n, n = AbortActive(c)
    PROVE  Kept(c, n)
<1>1. CASE c.active /\ c.cause = "none" /\ ~c.delivered
  <2>1. n = [c EXCEPT !.cause = "other", !.aborted = TRUE]
    BY <1>1 DEF AbortActive
  <2> QED
    BY <2>1 DEF Kept, Control
<1>2. CASE ~(c.active /\ c.cause = "none" /\ ~c.delivered)
  BY <1>2 DEF AbortActive, Kept
<1> QED
  BY <1>1, <1>2

LEMMA HealthFacts ==
    ASSUME TurnInv
    PROVE  /\ Marked \in Health /\ Cleared \in Health /\ Degraded(Marked)
           /\ \A b \in BOOLEAN : [health EXCEPT !.cp = b] \in Health
  BY DEF TurnInv, TurnTypeOK, Marked, Cleared, Health, Degraded

LEMMA SyncFacts ==
    ASSUME TurnInv, NEW h \in Health, NEW c \in Control, Sync(h, c)
    PROVE  /\ health' \in Health /\ Kept(c, ctl') /\ ctl'.cause = c.cause
           /\ Degraded(health') /\ ctl'.active => ctl'.aborted
  BY SilencedFacts DEF Sync

LEMMA ControlFacts ==
    ASSUME TurnInv
    PROVE  /\ ctl \in Control /\ health \in Health /\ Kept(ctl, ctl)
           /\ NoControl \in Control /\ ~NoControl.active /\ faults \in 0 .. MaxFaults
           /\ ctl.active \in BOOLEAN /\ ctl.delivered \in BOOLEAN /\ ctl.aborted \in BOOLEAN
  BY DEF TurnInv, TurnTypeOK, Kept, NoControl, Control

-----------------------------------------------------------------------------
(***************************************************************************)
(* The answer.                                                             *)
(***************************************************************************)

\* A step within the answer that neither delivers nor confirms anything.
LEMMA AnswerMoves ==
    ASSUME TurnInv, loop.pc \in Answering,
           NEW pc \in Answering \cup {"caught", "end"}, loop' = At(pc),
           Kept(ctl, ctl'), health' \in Health,
           Degraded(health') /\ ctl'.active => ctl'.aborted,
           UNCHANGED <<turns, session, fenced, queue, waitsFor, cpVars, shutdown, sayVars>>,
           faults' \in 0 .. MaxFaults, writes' \in [Slot -> Write],
           \A s \in Slot : s[1] \in Aside => writes'[s] = writes[s],
           Slots'
    PROVE  TurnInv'
<1>1. /\ loop' \in LoopState /\ loop'.pc = pc /\ loop'.turn = loop.turn /\ loop'.seq = loop.seq
  BY AtFacts DEF Answering
<1>2. loop.turn # 0 /\ loop.turn = loop.seq
  BY DEF TurnInv, Place
<1>3. Place'
  BY <1>1, <1>2 DEF TurnInv, Place, Kept, Answering, cpVars
<1>4. Receipts' /\ DeliveredKept
  BY <1>1 DEF TurnInv, Receipts, DeliveredKept, Delivered, Kept, Answering, sayVars
<1>5. waitsFor' \subseteq Slot /\ fin' \in {"no", "closing", "write", "done"}
  BY DEF TurnInv, TurnTypeOK, cpVars
<1>6. /\ receipt' \in [Turn -> Receipt]
      /\ UNCHANGED <<turns, session, fenced, queue, cp, shutdown, reported, history>>
      /\ fin' = fin
  BY DEF TurnInv, TurnTypeOK, cpVars, sayVars
<1>7. loop'.pc \notin {"idle", "gate", "start", "think", "recovering"}
  BY <1>1 DEF Answering
<1>8. ctl' \in Control /\ (ctl'.active /\ ctl'.cause = "none" => ctl.active /\ ctl.cause = "none")
  BY DEF Kept
<1> QED
  BY <1>1, <1>2, <1>3, <1>4, <1>5, <1>6, <1>7, <1>8, GoesOn

\* A status write of the answer is sent: those before the voice, and not Aside.
LEMMA StatusSent ==
    ASSUME TurnInv, loop.turn # 0, NEW to \in {"thinking", "calling_tool", "speaking"},
           writes' = Send(writes, Mine("status"), to), UNCHANGED <<turns, receipt>>
    PROVE  /\ writes' \in [Slot -> Write] /\ Slots'
           /\ \A s \in Slot : s[1] \in Aside => writes'[s] = writes[s]
<1>1. /\ Mine("status") \in Slot /\ Mine("status")[1] = "status" /\ Mine("status")[2] = loop.turn
      /\ turns[loop.turn] # "absent"
  BY TurnHasStarted, SlotFacts DEF Mine, TurnOps
<1>2. Sent(Mine("status"), to)
  BY <1>1, SendSends DEF TurnInv, Open
<1>3. Slots'
  BY <1>1, <1>2, SentSlots DEF DeliveredKept, Delivered, Ends
<1> QED
  BY <1>1, <1>2, <1>3 DEF Sent, Aside

\* A write about the turn is answered.
LEMMA TurnWriteAnswered ==
    ASSUME TurnInv, loop.turn # 0, NEW op \in TurnOps \ Aside, NEW o \in Outcomes(Mine(op)),
           NEW wait \in {"tracked", "dropped"}, writes' = Told(Mine(op), o, wait), Charged(o),
           UNCHANGED <<turns, receipt>>
    PROVE  /\ writes' \in [Slot -> Write] /\ Slots' /\ faults' \in 0 .. MaxFaults
           /\ \A s \in Slot : s[1] \in Aside => writes'[s] = writes[s]
           /\ o = "ok" /\ op \in Ends => turns[loop.turn] \in Terminal
           /\ Answered(Mine(op), o, wait)
<1>1. /\ Mine(op) \in Slot /\ Mine(op)[1] = op /\ Mine(op)[2] = loop.turn
  BY TurnHasStarted, SlotFacts DEF Mine
<1>2. Answered(Mine(op), o, wait)
  BY <1>1, ToldAnswers DEF TurnInv
<1>3. Slots'
  BY <1>1, <1>2, AnsweredSlots DEF DeliveredKept, Delivered
<1>4. SlotOK(Mine(op))
  BY <1>1 DEF TurnInv, Slots
<1> QED
  BY <1>1, <1>2, <1>3, <1>4 DEF Answered, Aside, SlotOK

LEMMA LlmEndsKeeps == ASSUME TurnInv, LlmEnds PROVE TurnInv'
<1>1. /\ loop.pc \in Answering /\ loop.turn # 0
      /\ UNCHANGED <<turns, session, fenced, faults, queue, waitsFor, health,
                   cpVars, shutdown, sayVars>>
  BY DEF LlmEnds, TurnInv, Place, Answering
<1>2. Degraded(health') /\ ctl.active => ctl.aborted
  BY <1>1 DEF TurnInv, Place
<1>3. CASE loop' = At("say") /\ ctl' \in {ctl, AbortActive(ctl)} /\ UNCHANGED writes
  <2>1. Kept(ctl, ctl')
    BY <1>3, AbortFacts, ControlFacts
  <2>2. Slots' /\ writes' \in [Slot -> Write]
    BY <1>1, <1>3, SameSlots DEF DeliveredKept, Delivered, sayVars, TurnInv, TurnTypeOK
  <2> QED
    BY <1>1, <1>2, <1>3, <2>1, <2>2, ControlFacts, AnswerMoves DEF Kept, Answering
<1>4. CASE /\ writes' = Send(writes, Mine("status"), "calling_tool")
           /\ loop' = At("calling") /\ UNCHANGED ctl
  <2>1. /\ writes' \in [Slot -> Write] /\ Slots'
        /\ \A s \in Slot : s[1] \in Aside => writes'[s] = writes[s]
    BY <1>1, <1>4, StatusSent DEF sayVars
  <2> QED
    BY <1>1, <1>2, <1>4, <2>1, ControlFacts, AnswerMoves DEF Answering
<1>5. CASE loop' = At("caught") /\ UNCHANGED <<writes, ctl>>
  <2>1. Slots' /\ writes' \in [Slot -> Write]
    BY <1>1, <1>5, SameSlots DEF DeliveredKept, Delivered, sayVars, TurnInv, TurnTypeOK
  <2> QED
    BY <1>1, <1>2, <1>5, <2>1, ControlFacts, AnswerMoves DEF Answering
<1> QED
  BY <1>3, <1>4, <1>5 DEF LlmEnds

LEMMA CallingToolKeeps == ASSUME TurnInv, CallingTool PROVE TurnInv'
<1>1. /\ loop.pc \in Answering /\ loop.turn # 0
      /\ UNCHANGED <<turns, session, fenced, queue, waitsFor, cpVars, shutdown, sayVars>>
  BY DEF CallingTool, TurnInv, Place, Answering
<1>2. PICK o \in Outcomes(Mine("status")) :
         /\ Charged(o)
         /\ writes' = Told(Mine("status"), o, "tracked")
         /\ \/ o = "ok" /\ loop' = At("tools") /\ UNCHANGED <<ctl, health>>
            \/ o # "ok" /\ loop' = At("caught") /\ Sync(Marked, ctl)
  BY DEF CallingTool
<1>3. /\ writes' \in [Slot -> Write] /\ Slots' /\ faults' \in 0 .. MaxFaults
      /\ \A s \in Slot : s[1] \in Aside => writes'[s] = writes[s]
  BY <1>1, <1>2, TurnWriteAnswered DEF sayVars, TurnOps, Aside, Ends
<1>4. CASE loop' = At("tools") /\ UNCHANGED <<ctl, health>>
  BY <1>1, <1>3, <1>4, ControlFacts, AnswerMoves DEF Answering, TurnInv, Place
<1>5. CASE loop' = At("caught") /\ Sync(Marked, ctl)
  BY <1>1, <1>3, <1>5, ControlFacts, HealthFacts, SyncFacts, AnswerMoves
<1> QED
  BY <1>2, <1>4, <1>5

LEMMA ToolsRunKeeps == ASSUME TurnInv, ToolsRun PROVE TurnInv'
<1>1. /\ loop.pc \in Answering /\ loop.turn # 0
      /\ UNCHANGED <<turns, session, writes, fenced, queue, waitsFor, cpVars, shutdown, sayVars>>
  BY DEF ToolsRun, TurnInv, Place, Answering
<1>2. Slots' /\ writes' \in [Slot -> Write]
  BY <1>1, SameSlots DEF DeliveredKept, Delivered, sayVars, TurnInv, TurnTypeOK
<1>3. CASE \E pc \in {"say", "more"} : loop' = At(pc) /\ UNCHANGED <<faults, ctl, health>>
  BY <1>1, <1>2, <1>3, ControlFacts, AnswerMoves DEF Answering, TurnInv, Place
<1>4. CASE faults > 0 /\ faults' = faults - 1 /\ Sync(Marked, ctl) /\ loop' = At("caught")
  <2>1. faults' \in 0 .. MaxFaults
    BY <1>4, ControlFacts, TurnAssumption
  <2> QED
    BY <1>1, <1>2, <1>4, <2>1, ControlFacts, HealthFacts, SyncFacts, AnswerMoves
<1> QED
  BY <1>3, <1>4 DEF ToolsRun

LEMMA SpeakKeeps == ASSUME TurnInv, Speak PROVE TurnInv'
<1>1. /\ loop.pc \in Answering /\ loop.turn # 0
      /\ UNCHANGED <<turns, session, fenced, faults, queue, waitsFor, ctl, health,
                   cpVars, shutdown, sayVars>>
  BY DEF Speak, TurnInv, Place, Answering
<1>2. Degraded(health') /\ ctl'.active => ctl'.aborted
  BY <1>1 DEF TurnInv, Place
<1>3. CASE loop' = At("text") /\ UNCHANGED writes
  <2>1. Slots' /\ writes' \in [Slot -> Write]
    BY <1>1, <1>3, SameSlots DEF DeliveredKept, Delivered, sayVars, TurnInv, TurnTypeOK
  <2> QED
    BY <1>1, <1>2, <1>3, <2>1, ControlFacts, AnswerMoves DEF Answering
<1>4. CASE writes' = Send(writes, Mine("status"), "speaking") /\ loop' = At("speaking")
  <2>1. /\ writes' \in [Slot -> Write] /\ Slots'
        /\ \A s \in Slot : s[1] \in Aside => writes'[s] = writes[s]
    BY <1>1, <1>4, StatusSent DEF sayVars
  <2> QED
    BY <1>1, <1>2, <1>4, <2>1, ControlFacts, AnswerMoves DEF Answering
<1> QED
  BY <1>3, <1>4 DEF Speak

LEMMA SpeakingWrittenKeeps == ASSUME TurnInv, SpeakingWritten PROVE TurnInv'
<1>1. /\ loop.pc \in Answering /\ loop.turn # 0
      /\ UNCHANGED <<turns, session, fenced, queue, waitsFor, cpVars, shutdown, sayVars>>
  BY DEF SpeakingWritten, TurnInv, Place, Answering
<1> DEFINE m == [Silenced(Marked, ctl) EXCEPT !.audioError = TRUE]
           c == AbortActive(m)
<1>2. PICK o \in Outcomes(Mine("status")) :
         /\ Charged(o)
         /\ writes' = Told(Mine("status"), o, "tracked")
         /\ \/ o = "ok" /\ loop' = At("play") /\ UNCHANGED <<ctl, health>>
            \/ o # "ok" /\ loop' = At("text") /\ Sync(Marked, c)
  BY DEF SpeakingWritten
<1> HIDE DEF m, c
<1>3. /\ writes' \in [Slot -> Write] /\ Slots' /\ faults' \in 0 .. MaxFaults
      /\ \A s \in Slot : s[1] \in Aside => writes'[s] = writes[s]
  BY <1>1, <1>2, TurnWriteAnswered DEF sayVars, TurnOps, Aside, Ends
<1>4. CASE loop' = At("play") /\ UNCHANGED <<ctl, health>>
  BY <1>1, <1>3, <1>4, ControlFacts, AnswerMoves DEF Answering, TurnInv, Place
<1>5. CASE loop' = At("text") /\ Sync(Marked, c)
  <2>1. PICK a : a = Silenced(Marked, ctl)
    OBVIOUS
  <2>2. Kept(ctl, a)
    BY <2>1, SilencedFacts, ControlFacts, HealthFacts
  <2>3. m = [a EXCEPT !.audioError = TRUE]
    BY <2>1 DEF m
  <2>4. Kept(ctl, m) /\ m \in Control
    BY <2>2, <2>3 DEF Kept, Control
  <2>5. Kept(m, c) /\ c \in Control
    BY <2>4, AbortFacts DEF Kept, c
  <2>6. /\ health' \in Health /\ Kept(c, ctl')
        /\ Degraded(health') /\ ctl'.active => ctl'.aborted
    BY <1>5, <2>5, HealthFacts, SyncFacts
  <2>7. Kept(ctl, ctl')
    BY <2>4, <2>5, <2>6 DEF Kept
  <2> QED
    BY <1>1, <1>3, <1>5, <2>6, <2>7, AnswerMoves DEF Answering
<1> QED
  BY <1>2, <1>4, <1>5

LEMMA PlaybackEndsKeeps == ASSUME TurnInv, PlaybackEnds PROVE TurnInv'
<1>1. /\ loop.pc \in Answering /\ loop.turn # 0 /\ loop' = At("text")
      /\ UNCHANGED <<turns, session, writes, fenced, faults, queue, waitsFor, health, cp, fin,
                   shutdown, reported, history>>
  BY DEF PlaybackEnds, TurnInv, Place, Answering, storeVars, cpVars
<1>2. /\ loop.turn \in Turn /\ loop.turn = loop.seq /\ receipt \in [Turn -> Receipt]
      /\ writes' \in [Slot -> Write] /\ waitsFor' \subseteq Slot
      /\ fin' \in {"no", "closing", "write", "done"}
  BY <1>1, TurnHasStarted DEF TurnInv, TurnTypeOK, Place
<1>3. ASSUME NEW how \in {"audio", "empty"},
             ctl' = [ctl EXCEPT !.delivered = TRUE],
             receipt' = [receipt EXCEPT ![loop.turn] = how]
      PROVE  TurnInv'
  <2>1. /\ ctl' \in Control /\ ctl'.active = ctl.active /\ ctl'.cause = ctl.cause
        /\ ctl'.aborted = ctl.aborted /\ ctl'.delivered
    BY <1>3, ControlFacts DEF Control
  <2>2. /\ loop' \in LoopState /\ loop'.pc = "text" /\ loop'.turn = loop.turn /\ loop'.seq = loop.seq
    BY <1>1, AtFacts
  <2>3. /\ receipt' \in [Turn -> Receipt] /\ DeliveredKept
        /\ receipt'[loop.turn] \in {"audio", "empty"}
        /\ \A t \in Turn : t > loop.seq => receipt'[t] = receipt[t]
    BY <1>2, <1>3, LoopFields, TurnAssumption DEF DeliveredKept, Delivered, Turn, Receipt
  <2>4. Place'
    BY <1>1, <1>2, <2>1, <2>2 DEF TurnInv, Place, Answering
  <2>5. Receipts'
    BY <1>2, <2>1, <2>2, <2>3 DEF TurnInv, Receipts, Delivered, Answering
  <2>6. Slots'
    BY <1>1, <2>3, SameSlots
  <2>7. faults' \in 0 .. MaxFaults /\ health' \in Health
    BY <1>1, ControlFacts
  <2> QED
    BY <1>1, <1>2, <2>1, <2>2, <2>3, <2>4, <2>5, <2>6, <2>7, GoesOn
<1>4. CASE ctl' \in {ctl, AbortActive([ctl EXCEPT !.audioError = TRUE])} /\ UNCHANGED receipt
  <2>1. PICK m : m = [ctl EXCEPT !.audioError = TRUE]
    OBVIOUS
  <2>2. Kept(ctl, m) /\ m \in Control
    BY <2>1, ControlFacts DEF Kept, Control
  <2>3. Kept(m, AbortActive(m))
    BY <2>2, AbortFacts
  <2>4. Kept(ctl, ctl')
    BY <1>4, <2>1, <2>2, <2>3, ControlFacts DEF Kept
  <2>5. Degraded(health') /\ ctl'.active => ctl'.aborted
    BY <1>1, <2>4 DEF TurnInv, Place, Kept
  <2>6. Slots'
    BY <1>1, <1>4, SameSlots DEF DeliveredKept, Delivered
  <2> QED
    BY <1>1, <1>2, <1>4, <2>4, <2>5, <2>6, ControlFacts, AnswerMoves DEF Answering, cpVars, sayVars
<1> QED
  BY <1>3, <1>4 DEF PlaybackEnds

\* endTurn is asked for what was delivered.
LEMMA EndTurnKeeps ==
    ASSUME TurnInv, loop.pc \in {"text", "deliver"}, NEW text \in BOOLEAN, EndTurn(text),
           receipt' = IF ~text \/ ctl.delivered THEN receipt
                      ELSE [receipt EXCEPT ![loop.turn] = IF TerminalShutdown THEN "late" ELSE "text"],
           UNCHANGED <<turns, session, fenced, faults, queue, waitsFor, health,
                       cp, fin, shutdown, reported, history>>
    PROVE  TurnInv'
<1>1. /\ loop.pc \in Answering /\ loop.turn # 0 /\ loop.turn \in Turn /\ loop.turn = loop.seq
      /\ turns[loop.turn] # "absent" /\ receipt \in [Turn -> Receipt]
  BY TurnHasStarted DEF TurnInv, TurnTypeOK, Place, Answering
<1>2. /\ loop' \in LoopState /\ loop'.pc = "end" /\ loop'.turn = loop.turn /\ loop'.seq = loop.seq
  BY AtFacts DEF EndTurn
<1>3. /\ ctl' \in Control /\ ctl'.active = ctl.active /\ ctl'.cause = ctl.cause
      /\ ctl'.aborted = ctl.aborted
  <2>1. ctl' = [ctl EXCEPT !.delivered = ctl.delivered \/ text]
    BY DEF EndTurn
  <2>2. (ctl.delivered \/ text) \in BOOLEAN
    OBVIOUS
  <2>3. PICK b \in BOOLEAN : ctl' = [ctl EXCEPT !.delivered = b]
    BY <2>1, <2>2
  <2> QED
    BY <2>3, ControlFacts DEF Control
<1>4. IF ctl.delivered THEN Delivered(loop.turn) ELSE receipt[loop.turn] = "none"
  BY <1>1 DEF TurnInv, Receipts
<1>5. /\ receipt' \in [Turn -> Receipt]
      /\ \A t \in Turn : t # loop.turn => receipt'[t] = receipt[t]
      /\ ctl.delivered => receipt'[loop.turn] = receipt[loop.turn]
      /\ text /\ ~ctl.delivered /\ ~TerminalShutdown => receipt'[loop.turn] = "text"
  BY <1>1 DEF Receipt
<1>6. DeliveredKept /\ \A t \in Turn : t > loop.seq => receipt'[t] = receipt[t]
  BY <1>1, <1>4, <1>5, LoopFields, TurnAssumption DEF DeliveredKept, Delivered, Turn
<1>7. Outcome(text) \in Terminal /\ (Outcome(text) = "completed" => Delivered(loop.turn)')
  <2>1. Delivered(loop.turn)' <=> receipt'[loop.turn] \in {"audio", "empty", "text"}
    BY <1>2 DEF Delivered
  <2> QED
    BY <1>4, <1>5, <2>1 DEF Outcome, Terminal, Delivered
<1>8. PICK s : s = Mine("end")
  OBVIOUS
<1>9. /\ s \in Slot /\ s[1] = "end" /\ s[2] = loop.turn /\ s[2] = loop'.turn
      /\ Sent(s, Outcome(text))
  <2>1. s \in Slot /\ s[1] = "end" /\ s[2] = loop.turn
    BY <1>1, <1>8, SlotFacts DEF Mine, TurnOps, Ends
  <2>2. writes' = Send(writes, s, Outcome(text))
    BY <1>8 DEF EndTurn
  <2> QED
    BY <1>2, <1>7, <2>1, <2>2, SendSends DEF TurnInv
<1>10. Slots'
  <2>1. Outcome(text) = "completed" => Delivered(s[2])'
    BY <1>7, <1>9 DEF Delivered
  <2> QED
    BY <1>1, <1>6, <1>7, <1>9, <2>1, SentSlots DEF Ends
<1>11. Place'
  BY <1>1, <1>2, <1>3 DEF TurnInv, Place, Answering
<1>12. Receipts'
  BY <1>2, <1>6 DEF TurnInv, Receipts, Answering
<1>13. /\ writes' \in [Slot -> Write] /\ waitsFor' \subseteq Slot
       /\ fin' \in {"no", "closing", "write", "done"}
       /\ \A q \in Slot : q[1] \in Aside => writes'[q] = writes[q]
  BY <1>9 DEF Sent, Aside, TurnInv, TurnTypeOK
<1>14. faults' \in 0 .. MaxFaults /\ health' \in Health
  BY ControlFacts
<1> QED
  BY <1>1, <1>2, <1>3, <1>5, <1>6, <1>10, <1>11, <1>12, <1>13, <1>14, GoesOn

LEMMA DeliverTextKeeps == ASSUME TurnInv, DeliverText PROVE TurnInv'
<1>1. /\ loop.pc = "text" /\ loop.pc \in Answering
      /\ UNCHANGED <<turns, session, fenced, faults, queue, waitsFor, health, cp, fin,
                     shutdown, receipt, reported, history>>
  BY DEF DeliverText, Answering, cpVars, sayVars
<1>2. CASE loop' = At("deliver") /\ UNCHANGED <<writes, ctl>>
  <2>1. Slots' /\ writes' \in [Slot -> Write] /\ (Degraded(health') /\ ctl'.active => ctl'.aborted)
    BY <1>1, <1>2, SameSlots DEF DeliveredKept, Delivered, TurnInv, TurnTypeOK, Place
  <2> QED
    BY <1>1, <1>2, <2>1, ControlFacts, AnswerMoves DEF Answering, cpVars, sayVars
<1>3. CASE EndTurn(FALSE)
  BY <1>1, <1>3, EndTurnKeeps
<1> QED
  BY <1>2, <1>3 DEF DeliverText

LEMMA TextDeliveredKeeps == ASSUME TurnInv, TextDelivered PROVE TurnInv'
<1>1. /\ loop.pc = "deliver"
      /\ UNCHANGED <<turns, session, fenced, faults, queue, waitsFor, health, cp, fin,
                     shutdown, reported, history>>
  BY DEF TextDelivered, cpVars
<1>2. PICK text \in BOOLEAN :
         /\ EndTurn(text)
         /\ receipt' = IF ~text \/ ctl.delivered THEN receipt
                       ELSE [receipt EXCEPT ![loop.turn] = IF TerminalShutdown THEN "late" ELSE "text"]
  BY DEF TextDelivered
<1> QED
  BY <1>1, <1>2, EndTurnKeeps

-----------------------------------------------------------------------------
(***************************************************************************)
(* The end of the turn, the error path and the recovery.                   *)
(***************************************************************************)

\* The last turn is the only one that may be open.
LEMMA EndedIsAll ==
    ASSUME TurnInv, loop.turn # 0, turns[loop.turn] \in Terminal
    PROVE  OpenTurns = {}
<1>1. OpenTurns \subseteq {loop.turn}
  BY DEF TurnInv, InSequence
<1>2. turns[loop.turn] \notin Open
  BY DEF Terminal, Open
<1> QED
  BY <1>1, <1>2 DEF OpenTurns

LEMMA SettledKeeps ==
    ASSUME TurnInv, loop.turn # 0, turns[loop.turn] \in Terminal, Settled(turns[loop.turn]),
           loop.pc \notin {"start", "recover"},
           UNCHANGED <<turns, session, fenced, queue, waitsFor, cp, fin, shutdown, receipt>>,
           faults' \in 0 .. MaxFaults, writes' \in [Slot -> Write],
           \A s \in Slot : s[1] \in Aside => writes'[s] = writes[s],
           Slots'
    PROVE  TurnInv'
<1>1. loop.turn \in Turn
  BY TurnHasStarted
<1>2. Finish(turns[loop.turn], Remembered("failed", turns[loop.turn]))
  BY DEF Settled
<1>3. /\ reported' \in [Turn -> Terminal \cup {"none"}]
      /\ history' \in [Turn -> {"none", "turn", "interrupted"}]
      /\ ReportsWhatIsStored' /\ loop' = NextTurn
  BY <1>1, <1>2, FinishReports, RememberedFacts
<1>4. ctl' \in Control /\ ~ctl'.active /\ health' \in Health
  <2>1. CASE health.other
    <3>1. Sync(Cleared, NoControl)
      BY <2>1 DEF Settled
    <3> QED
      BY <3>1, SyncFacts, HealthFacts, ControlFacts DEF Kept
  <2>2. CASE ~health.other
    BY <2>2, ControlFacts DEF Settled
  <2> QED
    BY <2>1, <2>2
<1> QED
  BY <1>3, <1>4, EndedIsAll, IsDone

\* The loop leaves the answer for the error path or the recovery.
LEMMA TurnFails ==
    ASSUME TurnInv, loop.turn # 0,
           loop' \in LoopState, loop'.turn = loop.turn, loop'.seq = loop.seq,
           loop'.pc \in {"caught", "failing", "recover"},
           UNCHANGED <<turns, session, fenced, queue, cp, fin, shutdown, receipt, reported, history>>,
           waitsFor' \subseteq Slot, faults' \in 0 .. MaxFaults,
           Kept(ctl, ctl'), health' \in Health, Degraded(health') /\ ctl'.active => ctl'.aborted,
           writes' \in [Slot -> Write],
           \A s \in Slot : s[1] \in Aside => writes'[s] = writes[s],
           Slots'
    PROVE  TurnInv'
<1>1. Place'
  BY DEF TurnInv, Place, Kept, Answering
<1>2. Receipts' /\ DeliveredKept
  BY DEF TurnInv, Receipts, DeliveredKept, Delivered, Answering
<1>3. ctl' \in Control /\ (ctl'.active /\ ctl'.cause = "none" => ctl.active /\ ctl.cause = "none")
  BY DEF Kept
<1>4. /\ fin' \in {"no", "closing", "write", "done"}
      /\ receipt' \in [Turn -> Receipt]
  BY DEF TurnInv, TurnTypeOK
<1> QED
  BY <1>1, <1>2, <1>3, <1>4, GoesOn

LEMMA TrackedSlots == ASSUME NEW ws PROVE Tracked(ws) \subseteq Slot
  BY DEF Tracked

LEMMA TurnEndedKeeps == ASSUME TurnInv, TurnEnded PROVE TurnInv'
<1>1. /\ loop.pc = "end" /\ loop.turn # 0 /\ loop.turn \in Turn
      /\ UNCHANGED <<turns, session, fenced, queue, waitsFor, cp, fin, shutdown, receipt>>
  BY TurnHasStarted DEF TurnEnded, TurnInv, Place, cpVars
<1>2. PICK o \in Outcomes(Mine("end")) :
         /\ Charged(o)
         /\ writes' = Told(Mine("end"), o, "tracked")
         /\ \/ /\ o = "ok"
               /\ Finish(Recorded(writes[Mine("end")]),
                         Remembered(writes[Mine("end")].to, Recorded(writes[Mine("end")])))
               /\ ctl' = NoControl
               /\ UNCHANGED <<health>>
            \/ /\ o # "ok" /\ loop' = At("caught")
               /\ Sync(Marked, ctl)
               /\ UNCHANGED <<reported, history>>
  BY DEF TurnEnded
<1>3. /\ writes' \in [Slot -> Write] /\ Slots' /\ faults' \in 0 .. MaxFaults
      /\ \A s \in Slot : s[1] \in Aside => writes'[s] = writes[s]
      /\ o = "ok" => turns[loop.turn] \in Terminal
  BY <1>1, <1>2, TurnWriteAnswered DEF TurnOps, Aside, Ends
<1>4. CASE /\ o = "ok"
           /\ Finish(Recorded(writes[Mine("end")]),
                     Remembered(writes[Mine("end")].to, Recorded(writes[Mine("end")])))
           /\ ctl' = NoControl
           /\ UNCHANGED <<health>>
  <2>1. PICK status, remembered :
           /\ status = turns[loop.turn] /\ Finish(status, remembered)
           /\ remembered = Remembered(writes[Mine("end")].to, status)
    BY <1>4 DEF Recorded
  <2>2. /\ reported' \in [Turn -> Terminal \cup {"none"}]
        /\ history' \in [Turn -> {"none", "turn", "interrupted"}]
        /\ ReportsWhatIsStored' /\ loop' = NextTurn
    BY <1>1, <1>3, <1>4, <2>1, FinishReports, RememberedFacts
  <2>3. OpenTurns = {}
    BY <1>1, <1>3, <1>4, EndedIsAll
  <2> QED
    BY <1>1, <1>3, <1>4, <2>2, <2>3, ControlFacts, IsDone
<1>5. CASE /\ loop' = At("caught") /\ Sync(Marked, ctl) /\ UNCHANGED <<reported, history>>
  <2>1. loop' \in LoopState /\ loop'.pc = "caught" /\ loop'.turn = loop.turn /\ loop'.seq = loop.seq
    BY <1>5, AtFacts
  <2>2. waitsFor' \subseteq Slot
    BY <1>1 DEF TurnInv, TurnTypeOK
  <2> QED
    BY <1>1, <1>3, <1>5, <2>1, <2>2, ControlFacts, HealthFacts, SyncFacts, TurnFails
<1> QED
  BY <1>2, <1>4, <1>5

LEMMA CaughtKeeps == ASSUME TurnInv, Caught PROVE TurnInv'
<1>1. /\ loop.pc = "caught" /\ loop.turn # 0 /\ loop.turn \in Turn /\ turns[loop.turn] # "absent"
      /\ UNCHANGED <<turns, session, fenced, queue, cp, fin, shutdown, receipt>>
  BY TurnHasStarted DEF Caught, TurnInv, Place, cpVars
<1>2. /\ waitsFor \subseteq Slot /\ writes \in [Slot -> Write]
      /\ Degraded(health) /\ ctl.active => ctl.aborted
  BY DEF TurnInv, TurnTypeOK, Place
<1>3. faults' \in 0 .. MaxFaults
  BY ControlFacts, TurnAssumption DEF Caught
<1>4. CASE /\ FoundTerminal(loop.turn) /\ Settled(turns[loop.turn]) /\ UNCHANGED <<writes, waitsFor>>
  <2>1. Slots'
    BY <1>1, <1>4, SameSlots DEF DeliveredKept, Delivered
  <2> QED
    BY <1>1, <1>2, <1>3, <1>4, <2>1, SettledKeeps DEF FoundTerminal
<1>5. CASE /\ ToRecover(writes) /\ UNCHANGED <<writes, ctl, health, reported, history>>
  <2>1. loop' \in LoopState /\ loop'.pc = "recover" /\ loop'.turn = loop.turn /\ loop'.seq = loop.seq
    BY <1>5, AtFacts DEF ToRecover, At
  <2>2. Slots' /\ waitsFor' \subseteq Slot
    BY <1>1, <1>5, SameSlots, TrackedSlots DEF DeliveredKept, Delivered, ToRecover
  <2> QED
    BY <1>1, <1>2, <1>3, <1>5, <2>1, <2>2, ControlFacts, TurnFails
<1>6. CASE /\ writes' = Send(writes, Mine("fail"), "failed") /\ loop' = At("failing")
           /\ UNCHANGED <<waitsFor, ctl, health, reported, history>>
  <2>1. loop' \in LoopState /\ loop'.pc = "failing" /\ loop'.turn = loop.turn /\ loop'.seq = loop.seq
    BY <1>6, AtFacts
  <2>2. /\ Mine("fail") \in Slot /\ Mine("fail")[1] = "fail" /\ Mine("fail")[2] = loop.turn
    BY <1>1, SlotFacts DEF Mine, TurnOps, Ends
  <2>3. Sent(Mine("fail"), "failed")
    BY <1>6, <2>2, SendSends DEF TurnInv, Terminal
  <2>4. Slots'
    BY <1>1, <2>2, <2>3, SentSlots DEF DeliveredKept, Delivered, Ends, Terminal
  <2>5. writes' \in [Slot -> Write] /\ \A s \in Slot : s[1] \in Aside => writes'[s] = writes[s]
    BY <2>2, <2>3 DEF Sent, Aside
  <2> QED
    BY <1>1, <1>2, <1>3, <1>6, <2>1, <2>4, <2>5, ControlFacts, TurnFails
<1> QED
  BY <1>4, <1>5, <1>6 DEF Caught

LEMMA FailWrittenKeeps == ASSUME TurnInv, FailWritten PROVE TurnInv'
<1>1. /\ loop.pc = "failing" /\ loop.turn # 0
      /\ UNCHANGED <<turns, session, fenced, queue, cp, fin, shutdown, receipt>>
  BY DEF FailWritten, TurnInv, Place, cpVars
<1>2. PICK o \in Outcomes(Mine("fail")), wait \in {"tracked", "dropped"} :
         /\ Charged(o)
         /\ writes' = Told(Mine("fail"), o, wait)
         /\ \/ o = "ok" /\ Settled(turns[loop.turn]) /\ UNCHANGED waitsFor
            \/ /\ o # "ok" /\ Sync(Marked, ctl) /\ ToRecover(writes')
               /\ UNCHANGED <<reported, history>>
  BY DEF FailWritten
<1>3. /\ writes' \in [Slot -> Write] /\ Slots' /\ faults' \in 0 .. MaxFaults
      /\ \A s \in Slot : s[1] \in Aside => writes'[s] = writes[s]
      /\ o = "ok" => turns[loop.turn] \in Terminal
  BY <1>1, <1>2, TurnWriteAnswered DEF TurnOps, Aside, Ends
<1>4. CASE o = "ok" /\ Settled(turns[loop.turn]) /\ UNCHANGED waitsFor
  BY <1>1, <1>3, <1>4, SettledKeeps
<1>5. CASE Sync(Marked, ctl) /\ ToRecover(writes') /\ UNCHANGED <<reported, history>>
  <2>1. loop' \in LoopState /\ loop'.pc = "recover" /\ loop'.turn = loop.turn /\ loop'.seq = loop.seq
    BY <1>5, AtFacts DEF ToRecover, At
  <2>2. waitsFor' \subseteq Slot
    BY <1>5, TrackedSlots DEF ToRecover
  <2> QED
    BY <1>1, <1>3, <1>5, <2>1, <2>2, ControlFacts, HealthFacts, SyncFacts, TurnFails
<1> QED
  BY <1>2, <1>4, <1>5

LEMMA RecoveredKeeps ==
    ASSUME TurnInv, NEW status, Recovered(status), OpenTurns = {},
           ctl.active => status = turns[loop.turn] /\ status \in Terminal,
           loop.pc \in {"inspect", "recovering"},
           UNCHANGED <<turns, session, fenced, queue, waitsFor, cp, fin, shutdown, receipt>>,
           faults' \in 0 .. MaxFaults, writes' \in [Slot -> Write],
           \A s \in Slot : s[1] \in Aside => writes'[s] = writes[s],
           Slots'
    PROVE  TurnInv'
<1>1. CASE ctl.active
  <2>1. Settled(turns[loop.turn]) /\ loop.turn # 0
    BY <1>1 DEF Recovered, TurnInv, Place
  <2> QED
    BY <1>1, <2>1, SettledKeeps
<1>2. CASE ~ctl.active
  <2>1. Sync(Cleared, ctl) /\ loop' = NextTurn /\ UNCHANGED <<reported, history>>
    BY <1>2 DEF Recovered
  <2>2. ctl' \in Control /\ ~ctl'.active /\ health' \in Health
    BY <1>2, <2>1, SyncFacts, HealthFacts, ControlFacts DEF Kept
  <2>3. /\ reported' \in [Turn -> Terminal \cup {"none"}]
        /\ history' \in [Turn -> {"none", "turn", "interrupted"}]
        /\ ReportsWhatIsStored'
    BY <2>1 DEF TurnInv, TurnTypeOK, ReportsWhatIsStored, Ending
  <2> QED
    BY <2>1, <2>2, <2>3, IsDone
<1> QED
  BY <1>1, <1>2

\* The recovery goes on, perhaps with a turn it found.
LEMMA Adopts ==
    ASSUME TurnInv, loop.pc \in {"recover", "inspect", "recovering"},
           writes[StartSlot].wait = "none", NEW t, t = loop.turn \/ (loop.turn = 0 /\ t = LastStarted),
           t \in 0 .. MaxTurns, loop' \in LoopState, loop'.turn = t, loop'.seq = loop.seq,
           loop'.pc \in {"recover", "inspect", "recovering"},
           loop'.pc = "recovering" => t # 0 /\ writes'[<<"recover", t>>].wait = "awaited",
           UNCHANGED <<turns, session, fenced, queue, cp, fin, shutdown, receipt, reported, history>>,
           waitsFor' \subseteq Slot, faults' \in 0 .. MaxFaults,
           Kept(ctl, ctl'), health' \in Health, Degraded(health') /\ ctl'.active => ctl'.aborted,
           writes' \in [Slot -> Write],
           \A s \in Slot : s[1] \in Aside => writes'[s] = writes[s],
           Slots'
    PROVE  TurnInv'
<1>1. ctl.active => loop.turn # 0 /\ loop.turn = loop.seq
  BY DEF TurnInv, Place
<1>2. /\ writes'[StartSlot] = writes[StartSlot]
      /\ \A u \in Turn : /\ writes'[<<"abandon", u>>] = writes[<<"abandon", u>>]
                         /\ writes'[<<"checkpoint", u>>] = writes[<<"checkpoint", u>>]
  BY SlotFacts DEF Aside, TurnOps, Ends
<1>3. writes[StartSlot].st = "none"
  BY SlotFacts DEF TurnInv, Slots, SlotOK
<1>4. TurnTypeOK'
  BY DEF TurnInv, TurnTypeOK, Kept
<1>5. Place'
  BY <1>1 DEF TurnInv, Place, Kept, Answering
<1>6. StartTracked'
  BY <1>2, <1>3 DEF TurnInv, StartTracked
<1>7. CheckpointTracked'
  <2>1. CheckpointTracked /\ (cp.pc # "off" => cp.turn \in Turn)
    BY TurnAssumption DEF TurnInv, TurnTypeOK, CheckpointTracked, CheckpointState, Turn
  <2>2. ctl'.active /\ ctl'.cause = "none" =>
           writes'[<<"checkpoint", loop'.turn>>].wait = "none"
    <3> SUFFICES ASSUME ctl'.active, ctl'.cause = "none"
                 PROVE  writes'[<<"checkpoint", loop'.turn>>].wait = "none"
      OBVIOUS
    <3>1. ctl.active /\ ctl.cause = "none"
      BY DEF Kept
    <3>2. loop.turn \in Turn /\ t = loop.turn
      BY <1>1, <3>1, TurnHasStarted
    <3> QED
      BY <1>2, <2>1, <3>1, <3>2 DEF CheckpointTracked
  <2>3. /\ cp'.pc # "off" => cp'.turn # 0 /\ cp'.turn <= loop'.seq
        /\ cp'.pc = "wait" => writes'[<<"checkpoint", cp'.turn>>].wait = "none"
        /\ cp'.pc = "write" => writes'[<<"checkpoint", cp'.turn>>].wait = "awaited"
        /\ \A u \in Turn : writes'[<<"checkpoint", u>>].wait # "none" => u <= loop'.seq
    BY <1>2, <2>1 DEF CheckpointTracked
  <2> QED
    BY <2>2, <2>3 DEF CheckpointTracked
<1>8. InSequence'
  <2>1. LastStarted' = LastStarted /\ Present' = Present /\ OpenTurns' = OpenTurns
    BY DEF LastStarted, Present, OpenTurns
  <2>2. InSequence
    BY DEF TurnInv
  <2>3. loop'.turn # 0 => loop'.turn = LastStarted
    BY <2>2 DEF InSequence
  <2> QED
    BY <1>2, <2>1, <2>2, <2>3 DEF InSequence
<1>9. Receipts'
  BY DEF TurnInv, Receipts, Answering
<1>10. NoTurnLeftBehind' /\ ReportsWhatIsStored' /\ CompletedWasDelivered'
  BY DEF TurnInv, NoTurnLeftBehind, ReportsWhatIsStored, CompletedWasDelivered, Ending
<1> QED
  BY <1>4, <1>5, <1>6, <1>7, <1>8, <1>9, <1>10 DEF TurnInv

LEMMA LateWritesSettledKeeps == ASSUME TurnInv, LateWritesSettled PROVE TurnInv'
<1>1. /\ loop.pc = "recover" /\ waitsFor = {} /\ loop' = At("inspect")
      /\ UNCHANGED <<turns, session, writes, fenced, faults, queue, waitsFor, ctl, health, cp, fin,
                     shutdown, receipt, reported, history>>
  BY DEF LateWritesSettled, storeVars, cpVars, sayVars
<1>2. writes[StartSlot] \in Write /\ writes \in [Slot -> Write] /\ waitsFor \subseteq Slot
  BY SlotFacts DEF TurnInv, TurnTypeOK
<1>3. writes[StartSlot].wait = "none"
  BY <1>1, <1>2 DEF TurnInv, StartTracked, Write
<1>4. loop' \in LoopState /\ loop'.pc = "inspect" /\ loop'.turn = loop.turn /\ loop'.seq = loop.seq
  BY <1>1, AtFacts
<1>5. Slots'
  BY <1>1, SameSlots DEF DeliveredKept, Delivered
<1>6. Degraded(health') /\ ctl'.active => ctl'.aborted
  BY <1>1 DEF TurnInv, Place
<1> QED
  BY <1>1, <1>2, <1>3, <1>4, <1>5, <1>6, LoopFields, ControlFacts, Adopts

LEMMA EarliestFacts ==
    ASSUME NEW T, NEW m \in T, \A u \in T : m <= u
    PROVE  Earliest(T) \in T
  BY DEF Earliest

\* A start that was not answered is found as the last turn, or all turns have ended.
LEMMA CandidateFacts ==
    ASSUME TurnInv, NEW t, t = Candidate
    PROVE  /\ t = loop.turn \/ (loop.turn = 0 /\ t = LastStarted) \/ turns[t] \in Terminal
           /\ t # 0 => t \in Turn /\ turns[t] # "absent"
           /\ t # 0 /\ turns[t] \in Terminal => OpenTurns = {}
           /\ ctl.active => t = loop.turn
<1>1. CASE loop.turn # 0
  <2>1. t = loop.turn
    BY <1>1 DEF Candidate
  <2> QED
    BY <1>1, <2>1, TurnHasStarted, EndedIsAll
<1>2. CASE loop.turn = 0
  <2> DEFINE Newer == {u \in Present : u > loop.seq}
  <2>1. ~ctl.active
    BY <1>2 DEF TurnInv, Place
  <2>2. /\ Present = 1 .. LastStarted /\ OpenTurns \subseteq {LastStarted}
        /\ LastStarted \in Nat /\ loop.seq \in Nat /\ loop.seq <= LastStarted
        /\ Present \subseteq Turn /\ \A u \in Present : turns[u] # "absent"
    BY LastStartedNat, LoopFields, TurnAssumption DEF TurnInv, InSequence, Present
  <2>3. CASE OpenTurns # {} /\ OpenTurns \cap Newer # {}
    <3>1. OpenTurns \cap Newer = {LastStarted}
      BY <2>2, <2>3
    <3>2. t = Earliest({LastStarted})
      BY <1>2, <2>3, <3>1 DEF Candidate
    <3>3. t = LastStarted
      <4>1. LastStarted \in {LastStarted} /\ \A u \in {LastStarted} : LastStarted <= u
        BY <2>2
      <4>2. Earliest({LastStarted}) \in {LastStarted}
        BY <4>1, EarliestFacts
      <4> QED
        BY <3>2, <4>2
    <3>4. t \in OpenTurns /\ t \in Present
      BY <3>1, <3>3
    <3>5. turns[t] \notin Terminal
      BY <3>4 DEF OpenTurns, Open, Terminal
    <3> QED
      BY <1>2, <2>1, <2>2, <3>3, <3>4, <3>5
  <2>4. CASE OpenTurns = {} /\ Newer # {}
    <3>1. loop.seq + 1 \in Newer /\ \A u \in Newer : loop.seq + 1 <= u
      BY <2>2, <2>4
    <3>2. t = Earliest(Newer)
      BY <1>2, <2>4 DEF Candidate
    <3>3. t \in Present
      BY <3>1, <3>2, EarliestFacts
    <3>4. turns[t] \in Open \cup Terminal
      BY <2>2, <3>3 DEF TurnInv, TurnTypeOK
    <3>5. turns[t] \in Terminal
      BY <2>2, <2>4, <3>3, <3>4 DEF OpenTurns
    <3> QED
      BY <2>1, <2>2, <2>4, <3>3, <3>5
  <2>5. CASE ~(OpenTurns # {} /\ OpenTurns \cap Newer # {}) /\ ~(OpenTurns = {} /\ Newer # {})
    <3>1. t = 0
      BY <1>2, <2>5 DEF Candidate
    <3> QED
      BY <1>2, <2>1, <3>1
  <2> QED
    BY <2>3, <2>4, <2>5
<1> QED
  BY <1>1, <1>2

\* The recovery asks again, for the turn it looks at.
LEMMA RecoverSent ==
    ASSUME TurnInv, NEW t \in Turn, turns[t] # "absent",
           writes' = Send(writes, <<"recover", t>>, "failed"), UNCHANGED <<turns, receipt>>
    PROVE  /\ writes' \in [Slot -> Write] /\ Slots'
           /\ writes'[<<"recover", t>>].wait = "awaited"
           /\ \A s \in Slot : s[1] \in Aside => writes'[s] = writes[s]
<1>1. /\ <<"recover", t>> \in Slot /\ <<"recover", t>>[1] = "recover" /\ <<"recover", t>>[2] = t
  BY SlotFacts DEF TurnOps, Ends
<1>2. Sent(<<"recover", t>>, "failed")
  BY <1>1, SendSends DEF TurnInv, Terminal
<1>3. Slots'
  BY <1>1, <1>2, SentSlots DEF DeliveredKept, Delivered, Ends, Terminal
<1> QED
  BY <1>1, <1>2, <1>3 DEF Sent, Aside

LEMMA InspectKeeps == ASSUME TurnInv, Inspect PROVE TurnInv'
<1>1. /\ loop.pc = "inspect"
      /\ UNCHANGED <<turns, session, fenced, queue, cp, fin, shutdown, receipt>>
      /\ writes[StartSlot] \in Write /\ writes \in [Slot -> Write] /\ waitsFor \subseteq Slot
      /\ Degraded(health) /\ ctl.active => ctl.aborted
  BY SlotFacts DEF Inspect, cpVars, TurnInv, TurnTypeOK, Place
<1>2. writes[StartSlot].wait = "none"
  BY <1>1 DEF TurnInv, StartTracked, Write
<1>3. faults' \in 0 .. MaxFaults
  BY ControlFacts, TurnAssumption DEF Inspect
<1>0. PICK read \in BOOLEAN, cutoff \in BOOLEAN :
         LET t == IF read THEN Candidate ELSE loop.turn IN
         \/ /\ read /\ t # 0 /\ FoundTerminal(t)
            /\ Recovered(turns[t])
            /\ UNCHANGED <<writes, waitsFor>>
         \/ /\ ~(read /\ t # 0 /\ FoundTerminal(t))
            /\ \/ /\ t # 0 /\ loop.retry /\ cutoff
                  /\ writes' = Send(writes, <<"recover", t>>, "failed")
                  /\ loop' = [loop EXCEPT !.pc = "recovering", !.turn = t]
                  /\ UNCHANGED waitsFor
               \/ /\ loop' = [loop EXCEPT !.pc = "recover", !.turn = t]
                  /\ waitsFor' = Tracked(writes)
                  /\ UNCHANGED writes
            /\ UNCHANGED <<ctl, health, reported, history>>
  BY DEF Inspect
<1>4. PICK t :
         /\ t = IF read THEN Candidate ELSE loop.turn
         /\ \/ /\ read /\ t # 0 /\ FoundTerminal(t)
               /\ Recovered(turns[t])
               /\ UNCHANGED <<writes, waitsFor>>
            \/ /\ ~(read /\ t # 0 /\ FoundTerminal(t))
               /\ \/ /\ t # 0 /\ loop.retry /\ cutoff
                     /\ writes' = Send(writes, <<"recover", t>>, "failed")
                     /\ loop' = [loop EXCEPT !.pc = "recovering", !.turn = t]
                     /\ UNCHANGED waitsFor
                  \/ /\ loop' = [loop EXCEPT !.pc = "recover", !.turn = t]
                     /\ waitsFor' = Tracked(writes)
                     /\ UNCHANGED writes
               /\ UNCHANGED <<ctl, health, reported, history>>
  BY <1>0
<1>5. /\ t # 0 => t \in Turn /\ turns[t] # "absent"
      /\ ~(read /\ t # 0 /\ FoundTerminal(t)) =>
            t = loop.turn \/ (loop.turn = 0 /\ t = LastStarted)
  <2>1. CASE read
    <3>1. t = Candidate
      BY <1>4, <2>1
    <3>2. /\ t = loop.turn \/ (loop.turn = 0 /\ t = LastStarted) \/ turns[t] \in Terminal
          /\ t # 0 => t \in Turn /\ turns[t] # "absent"
      BY <3>1, CandidateFacts
    <3>3. t = 0 => t = loop.turn
      BY <3>1 DEF Candidate, TurnInv, InSequence
    <3> QED
      BY <2>1, <3>2, <3>3 DEF FoundTerminal
  <2>2. CASE ~read
    BY <1>4, <2>2, TurnHasStarted
  <2> QED
    BY <2>1, <2>2
<1>6. t \in 0 .. MaxTurns
  BY <1>5, TurnAssumption DEF Turn
<1>7. CASE /\ read /\ t # 0 /\ FoundTerminal(t)
           /\ Recovered(turns[t])
           /\ UNCHANGED <<writes, waitsFor>>
  <2>1. Slots'
    BY <1>1, <1>7, SameSlots DEF DeliveredKept, Delivered
  <2>2. t = Candidate /\ turns[t] \in Terminal
    BY <1>4, <1>7 DEF FoundTerminal
  <2>3. OpenTurns = {} /\ (ctl.active => t = loop.turn)
    BY <1>7, <2>2, CandidateFacts
  <2>4. PICK status : status = turns[t]
    OBVIOUS
  <2> QED
    BY <1>1, <1>3, <1>7, <2>1, <2>2, <2>3, <2>4, RecoveredKeeps
<1>8. CASE /\ ~(read /\ t # 0 /\ FoundTerminal(t)) /\ t # 0
           /\ writes' = Send(writes, <<"recover", t>>, "failed")
           /\ loop' = [loop EXCEPT !.pc = "recovering", !.turn = t]
           /\ UNCHANGED <<waitsFor, ctl, health, reported, history>>
  <2>1. loop' \in LoopState /\ loop'.pc = "recovering" /\ loop'.turn = t /\ loop'.seq = loop.seq
    BY <1>6, <1>8, LoopFields DEF LoopState
  <2>2. /\ writes' \in [Slot -> Write] /\ Slots'
        /\ writes'[<<"recover", t>>].wait = "awaited"
        /\ \A s \in Slot : s[1] \in Aside => writes'[s] = writes[s]
    BY <1>1, <1>5, <1>8, RecoverSent
  <2> QED
    BY <1>1, <1>2, <1>3, <1>5, <1>6, <1>8, <2>1, <2>2, ControlFacts, Adopts
<1>9. CASE /\ ~(read /\ t # 0 /\ FoundTerminal(t))
           /\ loop' = [loop EXCEPT !.pc = "recover", !.turn = t]
           /\ waitsFor' = Tracked(writes)
           /\ UNCHANGED <<writes, ctl, health, reported, history>>
  <2>1. loop' \in LoopState /\ loop'.pc = "recover" /\ loop'.turn = t /\ loop'.seq = loop.seq
    BY <1>6, <1>9, LoopFields DEF LoopState
  <2>2. Slots'
    BY <1>1, <1>9, SameSlots DEF DeliveredKept, Delivered
  <2> QED
    BY <1>1, <1>2, <1>3, <1>5, <1>6, <1>9, <2>1, <2>2, TrackedSlots, ControlFacts, Adopts
<1> QED
  BY <1>4, <1>7, <1>8, <1>9

LEMMA RecoveryWrittenKeeps == ASSUME TurnInv, RecoveryWritten PROVE TurnInv'
<1>1. /\ loop.pc = "recovering" /\ loop.turn # 0
      /\ UNCHANGED <<turns, session, fenced, queue, cp, fin, shutdown, receipt>>
  BY DEF RecoveryWritten, TurnInv, Place, cpVars
<1>2. PICK o \in Outcomes(Mine("recover")), b \in BOOLEAN :
         /\ Charged(o)
         /\ writes' = Told(Mine("recover"), o, "tracked")
         /\ \/ o = "ok" /\ Recovered(turns[loop.turn]) /\ UNCHANGED waitsFor
            \/ /\ o # "ok" /\ loop' = [loop EXCEPT !.pc = "recover", !.retry = b]
               /\ waitsFor' = Tracked(writes') /\ Sync(Marked, ctl)
               /\ UNCHANGED <<reported, history>>
  <2>1. PICK o \in Outcomes(Mine("recover")) :
         /\ Charged(o)
         /\ writes' = Told(Mine("recover"), o, "tracked")
         /\ \/ o = "ok" /\ Recovered(turns[loop.turn]) /\ UNCHANGED waitsFor
            \/ /\ o # "ok"
               /\ loop' = [loop EXCEPT !.pc = "recover", !.retry = @ /\ o = "unavailable"]
               /\ waitsFor' = Tracked(writes') /\ Sync(Marked, ctl)
               /\ UNCHANGED <<reported, history>>
    BY DEF RecoveryWritten
  <2>2. (loop.retry /\ o = "unavailable") \in BOOLEAN
    OBVIOUS
  <2> QED
    BY <2>1, <2>2
<1>3. /\ writes' \in [Slot -> Write] /\ Slots' /\ faults' \in 0 .. MaxFaults
      /\ \A s \in Slot : s[1] \in Aside => writes'[s] = writes[s]
      /\ o = "ok" => turns[loop.turn] \in Terminal
  BY <1>1, <1>2, TurnWriteAnswered DEF TurnOps, Aside, Ends
<1>4. CASE o = "ok" /\ Recovered(turns[loop.turn]) /\ UNCHANGED waitsFor
  <2>1. PICK status : status = turns[loop.turn]
    OBVIOUS
  <2>2. OpenTurns = {}
    BY <1>1, <1>3, <1>4, EndedIsAll
  <2> QED
    BY <1>1, <1>3, <1>4, <2>1, <2>2, RecoveredKeeps
<1>5. CASE /\ loop' = [loop EXCEPT !.pc = "recover", !.retry = b]
           /\ waitsFor' = Tracked(writes') /\ Sync(Marked, ctl)
           /\ UNCHANGED <<reported, history>>
  <2>1. loop' \in LoopState /\ loop'.pc = "recover" /\ loop'.turn = loop.turn /\ loop'.seq = loop.seq
    BY <1>5, LoopFields DEF LoopState
  <2> QED
    BY <1>1, <1>3, <1>5, <2>1, TrackedSlots, ControlFacts, HealthFacts, SyncFacts, TurnFails
<1> QED
  BY <1>2, <1>4, <1>5

\* The session begins to be ended; a start in flight is left to settle by itself.
LEMMA EndingBegins ==
    ASSUME TurnInv, BeginEnding,
           UNCHANGED <<turns, session, fenced, queue, cp, shutdown, receipt, reported, history>>,
           waitsFor' \subseteq Slot, faults' \in 0 .. MaxFaults,
           Kept(ctl, ctl'), health' \in Health, Degraded(health') /\ ctl'.active => ctl'.aborted,
           loop.pc \in {"start", "think"} => ~ctl'.active \/ ctl'.cause # "none",
           writes' \in [Slot -> Write],
           \A s \in Slot : s[1] \in {"abandon", "checkpoint"} => writes'[s] = writes[s],
           \/ writes'[StartSlot] = writes[StartSlot] /\ loop.pc # "start"
           \/ loop.pc = "start" /\ writes'[StartSlot] = Free,
           Slots'
    PROVE  TurnInv'
<1>1. PICK pc \in {"ending", "ended"} : loop' = At(pc)
  BY DEF BeginEnding
<1>2. /\ loop' \in LoopState /\ loop'.pc = pc /\ loop'.turn = loop.turn /\ loop'.seq = loop.seq
  BY <1>1, AtFacts
<1>3. fin' \in {"no", "closing", "write", "done"} /\ Ending'
  BY DEF BeginEnding, TurnInv, TurnTypeOK, Ending
<1>4. \A t \in Turn : /\ writes'[<<"abandon", t>>] = writes[<<"abandon", t>>]
                      /\ writes'[<<"checkpoint", t>>] = writes[<<"checkpoint", t>>]
  BY SlotFacts DEF TurnOps, Ends
<1>5. TurnTypeOK'
  BY <1>2, <1>3 DEF TurnInv, TurnTypeOK, Kept
<1>6. Place'
  BY <1>2, <1>3 DEF TurnInv, Place, Kept, Answering
<1>7. StartTracked'
  <2>1. StartTracked /\ LastStarted' = LastStarted
    BY DEF TurnInv, LastStarted, Present
  <2>2. CASE writes'[StartSlot] = writes[StartSlot] /\ loop.pc # "start"
    BY <1>2, <1>3, <1>4, <2>1, <2>2 DEF StartTracked
  <2>3. CASE loop.pc = "start" /\ writes'[StartSlot] = Free
    BY <1>2, <1>4, <2>1, <2>3, FreeIsWrite DEF StartTracked
  <2> QED
    BY <2>2, <2>3
<1>8. CheckpointTracked'
  <2>1. CheckpointTracked /\ (cp.pc # "off" => cp.turn \in Turn)
    BY TurnAssumption DEF TurnInv, TurnTypeOK, CheckpointTracked, CheckpointState, Turn
  <2>2. ctl'.active /\ ctl'.cause = "none" =>
           writes'[<<"checkpoint", loop'.turn>>].wait = "none"
    <3> SUFFICES ASSUME ctl'.active, ctl'.cause = "none"
                 PROVE  writes'[<<"checkpoint", loop'.turn>>].wait = "none"
      OBVIOUS
    <3>1. ctl.active /\ ctl.cause = "none"
      BY DEF Kept
    <3>2. loop.turn \in Turn
      BY <3>1, TurnHasStarted DEF TurnInv, Place
    <3> QED
      BY <1>2, <1>4, <2>1, <3>1, <3>2 DEF CheckpointTracked
  <2>3. /\ cp'.pc # "off" => cp'.turn # 0 /\ cp'.turn <= loop'.seq
        /\ cp'.pc = "wait" => writes'[<<"checkpoint", cp'.turn>>].wait = "none"
        /\ cp'.pc = "write" => writes'[<<"checkpoint", cp'.turn>>].wait = "awaited"
        /\ \A t \in Turn : writes'[<<"checkpoint", t>>].wait # "none" => t <= loop'.seq
    BY <1>2, <1>4, <2>1 DEF CheckpointTracked
  <2> QED
    BY <1>2, <2>2, <2>3 DEF CheckpointTracked
<1>9. InSequence'
  <2>1. /\ LastStarted' = LastStarted /\ Present' = Present /\ OpenTurns' = OpenTurns
        /\ LastStarted \in Nat /\ queue \in Nat
    BY LastStartedNat DEF LastStarted, Present, OpenTurns, TurnInv, TurnTypeOK
  <2>2. InSequence
    BY DEF TurnInv
  <2>3. writes'[StartSlot].st = "sent" => writes[StartSlot].st = "sent"
    BY FreeIsWrite
  <2>4. LastStarted + queue + 0 + (IF writes'[StartSlot].st = "sent" THEN 1 ELSE 0) <= MaxTurns
    BY <2>1, <2>2, <2>3, TurnAssumption DEF InSequence
  <2> QED
    BY <1>2, <2>1, <2>2, <2>4 DEF InSequence
<1>10. Receipts'
  BY <1>2 DEF TurnInv, Receipts, Answering
<1>11. NoTurnLeftBehind' /\ ReportsWhatIsStored' /\ CompletedWasDelivered'
  BY <1>3 DEF TurnInv, NoTurnLeftBehind, ReportsWhatIsStored, CompletedWasDelivered
<1> QED
  BY <1>5, <1>6, <1>7, <1>8, <1>9, <1>10, <1>11 DEF TurnInv

LEMMA RecoveryGivesUpKeeps == ASSUME TurnInv, RecoveryGivesUp PROVE TurnInv'
<1>1. /\ loop.pc \in {"recover", "inspect", "recovering"} /\ BeginEnding /\ waitsFor' = {}
      /\ writes' = IF loop.pc = "recovering"
                     THEN [writes EXCEPT ![Mine("recover")].wait = "dropped"] ELSE writes
      /\ UNCHANGED <<turns, session, fenced, faults, queue, ctl, health, cp, shutdown,
                     receipt, reported, history>>
  BY DEF RecoveryGivesUp, sayVars
<1>2. Degraded(health) /\ ctl.active => ctl.aborted
  BY DEF TurnInv, Place
<1>3. CASE loop.pc # "recovering"
  <2>1. Slots' /\ writes' \in [Slot -> Write]
    BY <1>1, <1>3, SameSlots DEF DeliveredKept, Delivered, TurnInv, TurnTypeOK
  <2> QED
    BY <1>1, <1>2, <1>3, <2>1, ControlFacts, EndingBegins
<1>4. CASE loop.pc = "recovering"
  <2>1. loop.turn # 0 /\ writes[Mine("recover")].wait = "awaited"
    BY <1>4 DEF TurnInv, Place, CheckpointTracked, Mine
  <2>2. PICK s : s = Mine("recover")
    OBVIOUS
  <2>3. s \in Slot /\ s[1] = "recover" /\ s[2] = loop.turn
    BY <2>1, <2>2, TurnHasStarted, SlotFacts DEF Mine, TurnOps, Ends
  <2>4. writes[s] \in Write /\ SlotOK(s) /\ writes[s].st # "none"
    BY <2>1, <2>2, <2>3 DEF TurnInv, TurnTypeOK, Slots, SlotOK
  <2>5. PICK w : w = [writes[s] EXCEPT !.wait = "dropped"]
    OBVIOUS
  <2>6. w \in Write /\ w.to = writes[s].to /\ w.st = writes[s].st /\ w.wait = "dropped"
    BY <2>4, <2>5 DEF Write
  <2>7. writes' = [writes EXCEPT ![s] = w]
    BY <1>1, <1>4, <2>2, <2>5
  <2>8. /\ writes' \in [Slot -> Write] /\ writes'[s] = w
        /\ \A q \in Slot : q # s => writes'[q] = writes[q]
    BY <2>3, <2>6, <2>7 DEF TurnInv, TurnTypeOK
  <2>9. Answered(s, "timeout", "dropped")
    BY <1>1, <2>4, <2>6, <2>8, ControlFacts DEF Answered
  <2>10. Slots'
    BY <1>1, <2>3, <2>9, AnsweredSlots DEF DeliveredKept, Delivered
  <2>11. /\ writes'[StartSlot] = writes[StartSlot]
         /\ \A q \in Slot : q[1] \in {"abandon", "checkpoint"} => writes'[q] = writes[q]
    BY <2>3, <2>8, SlotFacts
  <2> QED
    BY <1>1, <1>2, <1>4, <2>8, <2>10, <2>11, ControlFacts, EndingBegins
<1> QED
  BY <1>3, <1>4

LEMMA LoopEndsKeeps == ASSUME TurnInv, LoopEnds PROVE TurnInv'
<1>1. /\ loop.pc \in {"ended", "ending"} /\ Ending
      /\ UNCHANGED <<turns, session, writes, fenced, faults, queue, waitsFor, health, cp, fin,
                     shutdown, receipt>>
  BY DEF LoopEnds, storeVars, cpVars, TurnInv, Place
<1>2. Slots' /\ writes' \in [Slot -> Write]
  BY <1>1, SameSlots DEF DeliveredKept, Delivered, TurnInv, TurnTypeOK
<1>3. CASE ctl.active /\ Finish("failed", "none") /\ ctl' = NoControl
  <2>1. loop.turn \in Turn
    BY <1>3, TurnHasStarted DEF TurnInv, Place
  <2>2. /\ reported' \in [Turn -> Terminal \cup {"none"}]
        /\ history' \in [Turn -> {"none", "turn", "interrupted"}]
        /\ ReportsWhatIsStored' /\ loop' = NextTurn
    BY <1>1, <1>3, <2>1, FinishReports
  <2> QED
    BY <1>1, <1>2, <1>3, <2>2, ControlFacts, IsDone
<1>4. CASE ~ctl.active /\ loop' = NextTurn /\ UNCHANGED <<ctl, reported, history>>
  <2>1. /\ reported' \in [Turn -> Terminal \cup {"none"}]
        /\ history' \in [Turn -> {"none", "turn", "interrupted"}]
        /\ ReportsWhatIsStored'
    BY <1>1, <1>4 DEF TurnInv, TurnTypeOK, ReportsWhatIsStored, Ending
  <2> QED
    BY <1>1, <1>2, <1>4, <2>1, ControlFacts, IsDone
<1> QED
  BY <1>3, <1>4 DEF LoopEnds

-----------------------------------------------------------------------------
(***************************************************************************)
(* Admission and the start of a turn.                                      *)
(***************************************************************************)
LEMMA TurnChainRunsKeeps == ASSUME TurnInv, TurnChainRuns PROVE TurnInv'
<1>1. /\ loop.pc = "idle" /\ queue > 0 /\ queue' = queue - 1 /\ loop' = At("gate")
      /\ UNCHANGED <<turns, session, writes, fenced, faults, waitsFor, ctl, health, cp, fin,
                     shutdown, receipt, reported, history>>
  BY DEF TurnChainRuns, storeVars, cpVars, sayVars
<1>2. /\ loop' \in LoopState /\ loop'.pc = "gate" /\ loop'.turn = loop.turn /\ loop'.seq = loop.seq
  BY <1>1, AtFacts
<1>3. TurnTypeOK'
  <2>1. queue' \in 0 .. MaxTurns
    BY <1>1, TurnAssumption DEF TurnInv, TurnTypeOK
  <2> QED
    BY <1>1, <1>2, <2>1 DEF TurnInv, TurnTypeOK
<1>4. Place'
  BY <1>1, <1>2 DEF TurnInv, Place, Answering
<1>5. Slots'
  BY <1>1, SameSlots DEF DeliveredKept, Delivered
<1>6. StartTracked'
  BY <1>1, <1>2 DEF TurnInv, StartTracked, Ending, LastStarted, Present
<1>7. CheckpointTracked'
  BY <1>1, <1>2 DEF TurnInv, CheckpointTracked
<1>8. InSequence'
  <2>1. /\ LastStarted' = LastStarted /\ Present' = Present /\ OpenTurns' = OpenTurns
        /\ LastStarted \in Nat /\ queue \in Nat
    BY <1>1, LastStartedNat DEF LastStarted, Present, OpenTurns, TurnInv, TurnTypeOK
  <2>2. InSequence
    BY DEF TurnInv
  <2>3. LastStarted + queue' + 1 + (IF writes'[StartSlot].st = "sent" THEN 1 ELSE 0) <= MaxTurns
    BY <1>1, <2>1, <2>2, TurnAssumption DEF InSequence
  <2> QED
    BY <1>1, <1>2, <2>1, <2>2, <2>3 DEF InSequence
<1>9. Receipts'
  BY <1>1, <1>2 DEF TurnInv, Receipts, Answering
<1>10. NoTurnLeftBehind' /\ ReportsWhatIsStored' /\ CompletedWasDelivered'
  BY <1>1 DEF TurnInv, NoTurnLeftBehind, ReportsWhatIsStored, CompletedWasDelivered, OpenTurns, Ending
<1> QED
  BY <1>3, <1>4, <1>5, <1>6, <1>7, <1>8, <1>9, <1>10 DEF TurnInv

LEMMA GateClosedKeeps == ASSUME TurnInv, GateClosed PROVE TurnInv'
<1>1. /\ loop.pc = "gate" /\ ~ctl.active
      /\ UNCHANGED <<turns, session, writes, fenced, faults, queue, waitsFor, cp, shutdown,
                     receipt, reported, history>>
  BY DEF GateClosed, storeVars, sayVars, TurnInv, Place
<1>2. Slots' /\ writes' \in [Slot -> Write] /\ waitsFor' \subseteq Slot
  BY <1>1, SameSlots DEF DeliveredKept, Delivered, TurnInv, TurnTypeOK
<1>3. CASE Ending /\ loop' = NextTurn /\ UNCHANGED <<health, ctl, fin>>
  <2>1. /\ reported' \in [Turn -> Terminal \cup {"none"}]
        /\ history' \in [Turn -> {"none", "turn", "interrupted"}]
        /\ ReportsWhatIsStored'
    BY <1>1, <1>3 DEF TurnInv, TurnTypeOK, ReportsWhatIsStored, Ending
  <2> QED
    BY <1>1, <1>2, <1>3, <2>1, ControlFacts, IsDone
<1>4. CASE Sync(Marked, ctl) /\ BeginEnding
  BY <1>1, <1>2, <1>4, ControlFacts, HealthFacts, SyncFacts, EndingBegins DEF Kept
<1> QED
  BY <1>3, <1>4 DEF GateClosed

LEMMA StartTurnKeeps == ASSUME TurnInv, StartTurn PROVE TurnInv'
<1>1. /\ loop.pc = "gate" /\ loop.turn = 0 /\ ~Ending /\ cp.pc = "off" /\ ~Degraded(health)
      /\ writes' = Send(writes, StartSlot, "started") /\ loop' = At("start") /\ ~ctl.active
      /\ UNCHANGED <<turns, session, fenced, faults, queue, waitsFor, ctl, health, cp, fin,
                     shutdown, receipt, reported, history>>
  BY DEF StartTurn, GateSettled, cpVars, sayVars, TurnInv, Place
<1>2. /\ loop' \in LoopState /\ loop'.pc = "start" /\ loop'.turn = 0 /\ loop'.seq = loop.seq
  BY <1>1, AtFacts
<1>3. Sent(StartSlot, "started") /\ writes[StartSlot] \in Write
  BY <1>1, SlotFacts, SendSends DEF TurnInv, TurnTypeOK, Open
<1>4. writes[StartSlot].wait = "none" /\ writes[StartSlot].st = "none"
  <2>1. writes[StartSlot].wait = "none"
    BY <1>1, <1>3 DEF TurnInv, StartTracked, Write
  <2> QED
    BY <2>1, SlotFacts DEF TurnInv, Slots, SlotOK
<1>5. \A t \in Turn : /\ writes'[<<"abandon", t>>] = writes[<<"abandon", t>>]
                      /\ writes'[<<"checkpoint", t>>] = writes[<<"checkpoint", t>>]
  BY <1>3, SlotFacts DEF Sent, StartSlot, TurnOps, Ends
<1>6. TurnTypeOK'
  BY <1>1, <1>2, <1>3 DEF TurnInv, TurnTypeOK, Sent
<1>7. Place'
  BY <1>1, <1>2 DEF TurnInv, Place, Answering
<1>8. Slots'
  BY <1>1, <1>3, SlotFacts, SentSlots DEF DeliveredKept, Delivered, TurnOps, Ends
<1>9. StartTracked'
  BY <1>2, <1>3, <1>4, <1>5 DEF TurnInv, StartTracked, Sent
<1>10. CheckpointTracked'
  <2>1. CheckpointTracked
    BY DEF TurnInv
  <2> QED
    BY <1>1, <1>2, <1>5, <2>1 DEF CheckpointTracked
<1>11. InSequence'
  <2>1. /\ LastStarted' = LastStarted /\ Present' = Present /\ OpenTurns' = OpenTurns
        /\ LastStarted \in Nat /\ queue \in Nat
    BY <1>1, LastStartedNat DEF LastStarted, Present, OpenTurns, TurnInv, TurnTypeOK
  <2>2. InSequence
    BY DEF TurnInv
  <2>3. LastStarted + queue + 0 + 1 <= MaxTurns
    BY <1>1, <1>4, <2>1, <2>2, TurnAssumption DEF InSequence
  <2> QED
    BY <1>1, <1>2, <1>3, <2>1, <2>2, <2>3 DEF InSequence, Sent
<1>12. Receipts'
  BY <1>1, <1>2 DEF TurnInv, Receipts, Answering
<1>13. NoTurnLeftBehind' /\ ReportsWhatIsStored' /\ CompletedWasDelivered'
  BY <1>1 DEF TurnInv, NoTurnLeftBehind, ReportsWhatIsStored, CompletedWasDelivered, OpenTurns, Ending
<1> QED
  BY <1>6, <1>7, <1>8, <1>9, <1>10, <1>11, <1>12, <1>13 DEF TurnInv

\* A start that is not answered, or failed, is looked for.
LEMMA StartLost ==
    ASSUME TurnInv, loop.pc = "start", NEW o, Answered(StartSlot, o, "tracked"), o # "ok",
           Sync(Marked, ctl), loop' = At("recover"), waitsFor' = Tracked(writes'),
           UNCHANGED <<turns, session, fenced, queue, cp, fin, shutdown, receipt, reported, history>>
    PROVE  TurnInv'
<1>1. /\ loop' \in LoopState /\ loop'.pc = "recover" /\ loop'.turn = loop.turn /\ loop'.seq = loop.seq
      /\ loop.turn = 0 /\ ~ctl.active
  BY AtFacts DEF TurnInv, Place
<1>2. /\ health' \in Health /\ Kept(ctl, ctl') /\ ~ctl'.active /\ ctl' \in Control
  BY <1>1, ControlFacts, HealthFacts, SyncFacts DEF Kept
<1>3. \A t \in Turn : /\ writes'[<<"abandon", t>>] = writes[<<"abandon", t>>]
                      /\ writes'[<<"checkpoint", t>>] = writes[<<"checkpoint", t>>]
  BY SlotFacts DEF Answered, StartSlot, TurnOps, Ends
<1>4. writes'[StartSlot].wait \in {"none", "tracked"} /\ StartSlot \in Slot
      /\ (writes'[StartSlot].wait = "tracked" => StartSlot \in waitsFor')
      /\ writes'[StartSlot].st \in {"none", writes[StartSlot].st}
  BY SlotFacts, FreeIsWrite DEF Answered, Tracked
<1>5. TurnTypeOK'
  BY <1>1, <1>2, TrackedSlots DEF TurnInv, TurnTypeOK, Answered
<1>6. Place'
  BY <1>1, <1>2 DEF TurnInv, Place, Answering
<1>7. Slots'
  BY <1>4, AnsweredSlots DEF DeliveredKept, Delivered
<1>8. StartTracked'
  <2>1. StartTracked /\ LastStarted' = LastStarted
    BY DEF TurnInv, LastStarted, Present
  <2>2. \A t \in Turn : writes[<<"abandon", t>>].wait # "awaited"
    BY <2>1 DEF StartTracked
  <2> QED
    BY <1>1, <1>3, <1>4, <2>1, <2>2 DEF StartTracked
<1>9. CheckpointTracked'
  <2>1. CheckpointTracked /\ (cp.pc # "off" => cp.turn \in Turn)
    BY TurnAssumption DEF TurnInv, TurnTypeOK, CheckpointTracked, CheckpointState, Turn
  <2> QED
    BY <1>1, <1>2, <1>3, <2>1 DEF CheckpointTracked
<1>10. InSequence'
  <2>1. /\ LastStarted' = LastStarted /\ Present' = Present /\ OpenTurns' = OpenTurns
        /\ LastStarted \in Nat /\ queue \in Nat
    BY LastStartedNat DEF LastStarted, Present, OpenTurns, TurnInv, TurnTypeOK
  <2>2. InSequence
    BY DEF TurnInv
  <2>3. LastStarted + queue + 0 + (IF writes'[StartSlot].st = "sent" THEN 1 ELSE 0) <= MaxTurns
    BY <1>4, <2>1, <2>2, TurnAssumption DEF InSequence
  <2> QED
    BY <1>1, <2>1, <2>2, <2>3 DEF InSequence
<1>11. Receipts'
  BY <1>1 DEF TurnInv, Receipts, Answering
<1>12. NoTurnLeftBehind' /\ ReportsWhatIsStored' /\ CompletedWasDelivered'
  BY <1>1 DEF TurnInv, NoTurnLeftBehind, ReportsWhatIsStored, CompletedWasDelivered, Ending
<1> QED
  BY <1>5, <1>6, <1>7, <1>8, <1>9, <1>10, <1>11, <1>12 DEF TurnInv

LEMMA TurnStartedKeeps == ASSUME TurnInv, TurnStarted PROVE TurnInv'
<1>1. /\ loop.pc = "start" /\ loop.turn = 0 /\ ~ctl.active /\ cp.pc = "off" /\ ~Degraded(health)
      /\ UNCHANGED <<turns, session, fenced, queue, cp, shutdown, receipt, reported, history>>
  BY DEF TurnStarted, sayVars, TurnInv, Place
<1>2. PICK o \in Outcomes(StartSlot) :
         /\ Charged(o)
         /\ \/ /\ o = "ok"
               /\ writes' = Send(Told(StartSlot, o, "tracked"), <<"status", LastStarted>>, "thinking")
               /\ loop' = [loop EXCEPT !.pc = "think", !.turn = LastStarted, !.seq = LastStarted]
               /\ UNCHANGED <<waitsFor, ctl, health, fin>>
            \/ /\ o # "ok"
               /\ writes' = Told(StartSlot, o, "tracked")
               /\ StartFailed(o, writes')
  BY DEF TurnStarted
<1>3. CASE /\ o # "ok" /\ writes' = Told(StartSlot, o, "tracked") /\ StartFailed(o, writes')
  <2>1. Answered(StartSlot, o, "tracked")
    BY <1>2, <1>3, SlotFacts, ToldAnswers DEF TurnInv
  <2>2. CASE o = "refused" /\ BeginEnding /\ UNCHANGED waitsFor /\ Sync(Marked, ctl)
    <3>1. Slots' /\ writes' \in [Slot -> Write] /\ faults' \in 0 .. MaxFaults
      BY <1>1, <2>1, SlotFacts, AnsweredSlots DEF DeliveredKept, Delivered, Answered
    <3>2. /\ writes'[StartSlot] = Free
          /\ \A s \in Slot : s[1] \in {"abandon", "checkpoint"} => writes'[s] = writes[s]
      BY <2>1, <2>2, SlotFacts DEF Answered
    <3>3. waitsFor' \subseteq Slot
      BY <2>2 DEF TurnInv, TurnTypeOK
    <3> QED
      BY <1>1, <2>2, <3>1, <3>2, <3>3, ControlFacts, HealthFacts, SyncFacts, EndingBegins DEF Kept
  <2>3. CASE loop' = At("recover") /\ waitsFor' = Tracked(writes') /\ UNCHANGED fin /\ Sync(Marked, ctl)
    BY <1>1, <1>3, <2>1, <2>3, StartLost
  <2> QED
    BY <1>3, <2>2, <2>3 DEF StartFailed
<1>4. CASE /\ o = "ok"
           /\ writes' = Send(Told(StartSlot, o, "tracked"), <<"status", LastStarted>>, "thinking")
           /\ loop' = [loop EXCEPT !.pc = "think", !.turn = LastStarted, !.seq = LastStarted]
           /\ UNCHANGED <<waitsFor, ctl, health, fin>>
  <2>1. PICK n : n = LastStarted
    OBVIOUS
  <2>2. /\ writes[StartSlot].st = "done" /\ writes[StartSlot].wait = "awaited"
        /\ \A t \in Turn : writes[<<"abandon", t>>].wait # "awaited"
    BY <1>1, <1>2, <1>4 DEF Outcomes, TurnInv, StartTracked
  <2>3. /\ n \in Turn /\ n > loop.seq /\ n # 0 /\ n \in Present /\ n \in 0 .. MaxTurns
        /\ LastStarted' = n /\ Present' = Present /\ OpenTurns' = OpenTurns
    <3>1. n \in Nat /\ n > loop.seq /\ loop.seq \in Nat /\ Present = 1 .. n /\ Present \subseteq Turn
      BY <2>1, <2>2, LastStartedNat, LoopFields, TurnAssumption
      DEF TurnInv, StartTracked, InSequence, Present
    <3>2. LastStarted' = LastStarted /\ Present' = Present /\ OpenTurns' = OpenTurns
      BY <1>1 DEF LastStarted, Present, OpenTurns
    <3> QED
      BY <2>1, <3>1, <3>2, TurnAssumption DEF Turn
  <2>4. loop' \in LoopState /\ loop'.pc = "think" /\ loop'.turn = n /\ loop'.seq = n
    BY <1>4, <2>1, <2>3, LoopFields DEF LoopState
  <2>5. PICK w : w = [to |-> "thinking", st |-> "sent", wait |-> "awaited"]
    OBVIOUS
  <2>6. w \in Write /\ w.to = "thinking" /\ w.st = "sent" /\ w.wait = "awaited"
    BY <2>5 DEF Write, Open
  <2>7. /\ <<"status", n>> \in Slot /\ <<"status", n>>[1] = "status" /\ <<"status", n>>[2] = n
        /\ <<"status", n>> # StartSlot /\ StartSlot \in Slot
    BY <2>3, SlotFacts DEF TurnOps
  <2>8. writes' = [[writes EXCEPT ![StartSlot] = Free] EXCEPT ![<<"status", n>>] = w]
    BY <1>4, <2>1, <2>5 DEF Send, Told
  <2>9. /\ writes' \in [Slot -> Write] /\ writes'[StartSlot] = Free /\ writes'[<<"status", n>>] = w
        /\ \A q \in Slot : q \notin {StartSlot, <<"status", n>>} => writes'[q] = writes[q]
    BY <2>6, <2>7, <2>8, FreeIsWrite DEF TurnInv, TurnTypeOK
  <2>10. \A t \in Turn : /\ writes'[<<"abandon", t>>] = writes[<<"abandon", t>>]
                         /\ writes'[<<"checkpoint", t>>] = writes[<<"checkpoint", t>>]
    BY <2>9, SlotFacts DEF StartSlot, TurnOps, Ends
  <2>11. TurnTypeOK'
    <3>1. faults' \in 0 .. MaxFaults
      BY <1>2, <1>4, ControlFacts DEF Charged
    <3> QED
      BY <1>1, <1>4, <2>4, <2>9, <3>1 DEF TurnInv, TurnTypeOK
  <2>12. Place'
    BY <1>1, <1>4, <2>3, <2>4 DEF TurnInv, Place, Answering
  <2>13. Slots'
    <3> SUFFICES ASSUME NEW q \in Slot PROVE SlotOK(q)'
      BY DEF Slots
    <3>1. q[1] \in TurnOps => q[2] \in Turn
      BY SlotFacts DEF TurnOps, Ends
    <3>2. SlotOK(q) /\ turns' = turns /\ receipt' = receipt
      BY <1>1 DEF TurnInv, Slots
    <3>3. CASE q \notin {StartSlot, <<"status", n>>}
      BY <2>9, <3>1, <3>2, <3>3 DEF SlotOK, Delivered
    <3>4. CASE q = StartSlot
      BY <2>9, <3>4, FreeIsWrite DEF SlotOK
    <3>5. CASE q = <<"status", n>>
      <4>1. turns'[n] # "absent"
        BY <2>3, <3>2 DEF Present
      <4> QED
        BY <2>6, <2>7, <2>9, <3>5, <4>1 DEF SlotOK, Ends
    <3> QED
      BY <3>3, <3>4, <3>5
  <2>14. StartTracked'
    BY <2>2, <2>4, <2>9, <2>10, FreeIsWrite DEF StartTracked
  <2>15. CheckpointTracked'
    <3>1. CheckpointTracked
      BY DEF TurnInv
    <3>2. \A t \in Turn : writes[<<"checkpoint", t>>].wait # "none" => t <= n /\ t # n
      BY <2>3, <3>1, LoopFields, TurnAssumption DEF CheckpointTracked, Turn
    <3> QED
      BY <1>1, <1>4, <2>3, <2>4, <2>10, <3>2 DEF CheckpointTracked
  <2>16. InSequence'
    <3>1. InSequence /\ n \in Nat /\ queue \in Nat
      BY <2>1, LastStartedNat DEF TurnInv, TurnTypeOK
    <3>2. n + queue + 0 + 0 <= MaxTurns
      BY <1>1, <2>1, <2>2, <3>1, TurnAssumption DEF InSequence
    <3>3. n <= n
      BY <3>1
    <3> QED
      BY <1>1, <2>1, <2>3, <2>4, <2>9, <3>1, <3>2, <3>3, FreeIsWrite DEF InSequence
  <2>17. Receipts'
    <3>1. \A t \in Turn : t > loop.seq => receipt[t] = "none"
      BY DEF TurnInv, Receipts
    <3>2. \A t \in Turn : t > n => t > loop.seq
      BY <2>3, LoopFields, TurnAssumption DEF Turn
    <3> QED
      BY <1>1, <2>3, <2>4, <3>1, <3>2 DEF Receipts, Answering
  <2>18. NoTurnLeftBehind' /\ ReportsWhatIsStored' /\ CompletedWasDelivered'
    BY <1>1, <1>4, <2>4 DEF TurnInv, NoTurnLeftBehind, ReportsWhatIsStored, CompletedWasDelivered, Ending
  <2> QED
    BY <2>11, <2>12, <2>13, <2>14, <2>15, <2>16, <2>17, <2>18 DEF TurnInv
<1> QED
  BY <1>2, <1>3, <1>4

LEMMA TurnActivatedKeeps == ASSUME TurnInv, TurnActivated PROVE TurnInv'
<1>1. /\ loop.pc = "think" /\ loop.turn # 0 /\ loop.turn = loop.seq /\ ~ctl.active /\ cp.pc = "off"
      /\ ~Degraded(health) /\ receipt[loop.turn] = "none"
      /\ UNCHANGED <<turns, session, fenced, queue, cp, shutdown, receipt, reported, history>>
  BY DEF TurnActivated, sayVars, TurnInv, Place, Receipts
<1>2. PICK o \in Outcomes(Mine("status")) :
         /\ Charged(o)
         /\ writes' = Told(Mine("status"), o, "tracked")
         /\ \/ /\ o = "ok"
               /\ loop' = At("llm")
               /\ ctl' = [NoControl EXCEPT !.active = TRUE, !.aborted = shutdown,
                                           !.cause = IF shutdown THEN "other" ELSE "none"]
               /\ UNCHANGED <<waitsFor, health, fin>>
            \/ o # "ok" /\ StartFailed(o, writes')
  BY DEF TurnActivated
<1>3. /\ writes' \in [Slot -> Write] /\ Slots' /\ faults' \in 0 .. MaxFaults
      /\ \A s \in Slot : s[1] \in Aside => writes'[s] = writes[s]
  BY <1>1, <1>2, TurnWriteAnswered DEF TurnOps, Aside, Ends
<1>4. CASE /\ loop' = At("llm")
           /\ ctl' = [NoControl EXCEPT !.active = TRUE, !.aborted = shutdown,
                                       !.cause = IF shutdown THEN "other" ELSE "none"]
           /\ UNCHANGED <<waitsFor, health, fin>>
  <2>1. loop' \in LoopState /\ loop'.pc = "llm" /\ loop'.turn = loop.turn /\ loop'.seq = loop.seq
    BY <1>4, AtFacts
  <2>2. PICK b, c : b = shutdown /\ c = IF shutdown THEN "other" ELSE "none"
    OBVIOUS
  <2>3. b \in BOOLEAN /\ c \in {"none", "other"}
    BY <2>2 DEF TurnInv, TurnTypeOK
  <2>4. ctl' = [NoControl EXCEPT !.active = TRUE, !.aborted = b, !.cause = c]
    BY <1>4, <2>2, Zenon
  <2>5. ctl' \in Control /\ ctl'.active /\ ~ctl'.delivered
    BY <2>3, <2>4 DEF NoControl, Control
  <2>6. Place'
    BY <1>1, <1>4, <2>1, <2>5 DEF TurnInv, Place, Answering
  <2>7. Receipts' /\ DeliveredKept
    BY <1>1, <2>1, <2>5 DEF TurnInv, Receipts, DeliveredKept, Delivered, Answering
  <2>8. /\ waitsFor' \subseteq Slot /\ fin' \in {"no", "closing", "write", "done"}
        /\ receipt' \in [Turn -> Receipt]
    BY <1>1, <1>4 DEF TurnInv, TurnTypeOK
  <2> QED
    BY <1>1, <1>3, <1>4, <2>1, <2>5, <2>6, <2>7, <2>8, ControlFacts, GoesOn
<1>5. CASE StartFailed(o, writes')
  <2>1. CASE BeginEnding /\ UNCHANGED waitsFor /\ Sync(Marked, ctl)
    <3>1. waitsFor' \subseteq Slot
      BY <2>1 DEF TurnInv, TurnTypeOK
    <3>2. /\ writes'[StartSlot] = writes[StartSlot]
          /\ \A s \in Slot : s[1] \in {"abandon", "checkpoint"} => writes'[s] = writes[s]
      BY <1>3, SlotFacts DEF Aside
    <3> QED
      BY <1>1, <1>3, <2>1, <3>1, <3>2, ControlFacts, HealthFacts, SyncFacts, EndingBegins DEF Kept
  <2>2. CASE loop' = At("recover") /\ waitsFor' = Tracked(writes') /\ UNCHANGED fin /\ Sync(Marked, ctl)
    <3>1. loop' \in LoopState /\ loop'.pc = "recover" /\ loop'.turn = loop.turn /\ loop'.seq = loop.seq
      BY <2>2, AtFacts
    <3> QED
      BY <1>1, <1>3, <2>2, <3>1, TrackedSlots, ControlFacts, HealthFacts, SyncFacts, TurnFails
  <2> QED
    BY <1>5, <2>1, <2>2 DEF StartFailed
<1> QED
  BY <1>2, <1>4, <1>5

-----------------------------------------------------------------------------
(***************************************************************************)
(* The store.                                                              *)
(***************************************************************************)

\* Turns that are stored move on, and the writes in flight are answered.
LEMMA TurnsMove ==
    ASSUME TurnInv, turns' \in [Turn -> Open \cup Terminal \cup {"absent"}],
           \A t \in Turn : /\ turns'[t] = "absent" <=> turns[t] = "absent"
                           /\ turns[t] \in Terminal => turns'[t] = turns[t]
                           /\ turns'[t] = "completed" => Delivered(t),
           session' \in {"active", "failed", "ended"}, faults' \in 0 .. MaxFaults,
           writes' \in [Slot -> Write],
           \A s \in Slot :
              /\ writes'[s].to = writes[s].to /\ writes'[s].wait = writes[s].wait
              /\ \/ writes'[s].st = writes[s].st
                 \/ /\ writes[s].st = "sent" /\ writes'[s].st \in {"done", "refused"}
                    /\ s[1] \in Ends => turns'[s[2]] \in Terminal
              /\ s = StartSlot => writes'[s].st \in {writes[s].st, "refused"},
           fenced' \in BOOLEAN,
           UNCHANGED <<queue, loop, waitsFor, ctl, health, cp, fin, shutdown, receipt, reported, history>>
    PROVE  TurnInv'
<1>1. Present' = Present /\ LastStarted' = LastStarted
  BY DEF Present, LastStarted
<1>2. OpenTurns' \subseteq OpenTurns
  <2> SUFFICES ASSUME NEW t \in Turn, turns'[t] \in Open PROVE turns[t] \in Open
    BY DEF OpenTurns
  <2>1. turns[t] # "absent" /\ turns[t] \notin Terminal
    BY DEF Open, Terminal
  <2> QED
    BY <2>1 DEF TurnInv, TurnTypeOK
<1>3. /\ StartSlot \in Slot /\ writes'[StartSlot].wait = writes[StartSlot].wait
      /\ writes'[StartSlot].st \in {writes[StartSlot].st, "refused"}
      /\ writes[StartSlot].st = "done" => writes'[StartSlot].st = "done"
      /\ \A t \in Turn, op \in TurnOps : writes'[<<op, t>>].wait = writes[<<op, t>>].wait
  BY SlotFacts
<1>4. TurnTypeOK'
  BY DEF TurnInv, TurnTypeOK
<1>5. Place'
  BY DEF TurnInv, Place, Ending
<1>6. Slots'
  <2> SUFFICES ASSUME NEW q \in Slot PROVE SlotOK(q)'
    BY DEF Slots
  <2>1. q[1] \in TurnOps => q[2] \in Turn
    BY SlotFacts DEF TurnOps, Ends
  <2>2. SlotOK(q)
    BY DEF TurnInv, Slots
  <2>3. writes'[q].st # "none" <=> writes[q].st # "none"
    OBVIOUS
  <2>4. /\ writes'[q].st = "none" <=> writes'[q].wait = "none"
        /\ writes'[q].st # "none" =>
             /\ q[1] \in TurnOps => turns'[q[2]] # "absent"
             /\ q[1] = "status" => writes'[q].to \in {"thinking", "calling_tool", "speaking"}
             /\ q[1] \in Ends => writes'[q].to \in Terminal /\ (writes'[q].to = "completed" => Delivered(q[2]))
             /\ q[1] = "session" => writes'[q].to = "failed"
    BY <2>1, <2>2, <2>3 DEF SlotOK
  <2>5. writes'[q].st = "done" /\ q[1] \in Ends => turns'[q[2]] \in Terminal
    BY <2>1, <2>2 DEF SlotOK, TurnOps
  <2> QED
    BY <2>4, <2>5 DEF SlotOK, Delivered
<1>7. StartTracked'
  <2>1. StartTracked /\ writes'[StartSlot].st = "done" => writes[StartSlot].st = "done"
    BY <1>3 DEF TurnInv
  <2>2. \A t \in Turn : writes'[<<"abandon", t>>].wait = writes[<<"abandon", t>>].wait
    BY <1>3 DEF TurnOps, Ends
  <2>3. StartTracked /\ Ending' = Ending
    BY DEF TurnInv, Ending
  <2> QED
    BY <1>1, <1>3, <2>1, <2>2, <2>3 DEF StartTracked
<1>8. CheckpointTracked'
  <2>1. CheckpointTracked /\ (cp.pc # "off" => cp.turn \in Turn)
    BY TurnAssumption DEF TurnInv, TurnTypeOK, CheckpointTracked, CheckpointState, Turn
  <2>2. loop.pc \in {"think", "recovering"} \/ ctl.active => loop.turn \in Turn
    BY TurnHasStarted DEF TurnInv, Place
  <2>3. \A t \in Turn : /\ writes'[<<"checkpoint", t>>].wait = writes[<<"checkpoint", t>>].wait
                        /\ writes'[<<"recover", t>>].wait = writes[<<"recover", t>>].wait
    BY <1>3 DEF TurnOps, Ends
  <2> QED
    BY <2>1, <2>2, <2>3 DEF CheckpointTracked
<1>9. InSequence'
  <2>1. InSequence /\ LastStarted \in Nat /\ queue \in Nat
    BY LastStartedNat DEF TurnInv, TurnTypeOK
  <2>2. LastStarted + queue + (IF loop.pc = "gate" THEN 1 ELSE 0)
          + (IF writes'[StartSlot].st = "sent" THEN 1 ELSE 0) <= MaxTurns
    BY <1>3, <2>1, TurnAssumption DEF InSequence
  <2> QED
    BY <1>1, <1>2, <2>1, <2>2 DEF InSequence
<1>10. Receipts'
  BY DEF TurnInv, Receipts, Delivered
<1>11. NoTurnLeftBehind'
  <2>1. writes'[StartSlot].st = "sent" => writes[StartSlot].st = "sent"
    BY <1>3
  <2> QED
    BY <1>2, <2>1 DEF TurnInv, NoTurnLeftBehind, Ending
<1>12. ReportsWhatIsStored'
  <2>1. reported \in [Turn -> Terminal \cup {"none"}]
    BY DEF TurnInv, TurnTypeOK
  <2> QED
    BY <2>1 DEF TurnInv, ReportsWhatIsStored, Ending, Terminal
<1>13. CompletedWasDelivered'
  BY DEF TurnInv, CompletedWasDelivered, Delivered
<1> QED
  BY <1>4, <1>5, <1>6, <1>7, <1>8, <1>9, <1>10, <1>11, <1>12, <1>13 DEF TurnInv

\* The answer to a write leaves everything else about it.
LEMMA AnswerFacts ==
    ASSUME TurnInv, NEW s \in Slot, NEW a \in {"done", "refused"},
           writes' = [writes EXCEPT ![s].st = a]
    PROVE  /\ writes' \in [Slot -> Write] /\ writes'[s].st = a
           /\ \A q \in Slot : /\ writes'[q].to = writes[q].to /\ writes'[q].wait = writes[q].wait
                              /\ q # s => writes'[q] = writes[q]
<1>1. writes \in [Slot -> Write] /\ writes[s] \in Write
  BY DEF TurnInv, TurnTypeOK
<1>2. PICK w : w = [writes[s] EXCEPT !.st = a]
  OBVIOUS
<1>3. w \in Write /\ w.to = writes[s].to /\ w.wait = writes[s].wait /\ w.st = a
  BY <1>1, <1>2 DEF Write
<1>4. writes' = [writes EXCEPT ![s] = w]
  BY <1>2
<1> QED
  BY <1>1, <1>3, <1>4

\* One turn that is stored is given the status v.
LEMMA PutKeeps ==
    ASSUME TurnInv, NEW s \in Slot, s[1] \in TurnOps, writes[s].st = "sent",
           NEW v \in Open \cup Terminal, turns' = [turns EXCEPT ![s[2]] = v],
           turns[s[2]] \in Terminal => v = turns[s[2]],
           v = "completed" => turns[s[2]] = "completed" \/ Delivered(s[2]),
           s[1] \in Ends => v \in Terminal,
           writes' = [writes EXCEPT ![s].st = "done"],
           UNCHANGED <<session, fenced, faults, queue, loop, waitsFor, ctl, health, cp, fin,
                       shutdown, receipt, reported, history>>
    PROVE  TurnInv'
<1>1. s[2] \in Turn /\ s # StartSlot /\ turns \in [Turn -> Open \cup Terminal \cup {"absent"}]
  BY SlotFacts DEF TurnOps, Ends, TurnInv, TurnTypeOK
<1>2. turns[s[2]] # "absent"
  BY DEF TurnInv, Slots, SlotOK
<1>3. turns' \in [Turn -> Open \cup Terminal \cup {"absent"}] /\ turns'[s[2]] = v
  BY <1>1
<1>4. \A t \in Turn : t # s[2] => turns'[t] = turns[t]
  BY <1>1
<1>5. v # "absent"
  BY DEF Open, Terminal
<1>6. \A t \in Turn : turns[t] = "completed" => Delivered(t)
  BY DEF TurnInv, CompletedWasDelivered, Delivered
<1>7. \A t \in Turn : /\ turns'[t] = "absent" <=> turns[t] = "absent"
                      /\ turns[t] \in Terminal => turns'[t] = turns[t]
                      /\ turns'[t] = "completed" => Delivered(t)
  BY <1>1, <1>2, <1>3, <1>4, <1>5, <1>6
<1>8. /\ writes' \in [Slot -> Write] /\ writes'[s].st = "done"
      /\ \A q \in Slot : /\ writes'[q].to = writes[q].to /\ writes'[q].wait = writes[q].wait
                         /\ q # s => writes'[q] = writes[q]
  BY AnswerFacts
<1>9. /\ session' \in {"active", "failed", "ended"} /\ faults' \in 0 .. MaxFaults /\ fenced' \in BOOLEAN
  BY DEF TurnInv, TurnTypeOK
<1> QED
  BY <1>1, <1>3, <1>7, <1>8, <1>9, TurnsMove

\* A start or a status that the store refuses changes no turn.
LEMMA RefusedKeeps ==
    ASSUME TurnInv, NEW s \in Slot, writes[s].st = "sent", s[1] \notin Ends,
           writes' = [writes EXCEPT ![s].st = "refused"],
           UNCHANGED <<turns, session, fenced, faults, queue, loop, waitsFor, ctl, health, cp, fin,
                       shutdown, receipt, reported, history>>
    PROVE  TurnInv'
<1>1. /\ writes' \in [Slot -> Write] /\ writes'[s].st = "refused"
      /\ \A q \in Slot : /\ writes'[q].to = writes[q].to /\ writes'[q].wait = writes[q].wait
                         /\ q # s => writes'[q] = writes[q]
  BY AnswerFacts
<1>2. /\ session' \in {"active", "failed", "ended"} /\ faults' \in 0 .. MaxFaults /\ fenced' \in BOOLEAN
      /\ turns' \in [Turn -> Open \cup Terminal \cup {"absent"}]
  BY DEF TurnInv, TurnTypeOK
<1>3. \A t \in Turn : turns[t] = "completed" => Delivered(t)
  BY DEF TurnInv, CompletedWasDelivered, Delivered
<1> QED
  BY <1>1, <1>2, <1>3, TurnsMove

\* The turns still open end with the session.
LEMMA EndedTurns ==
    ASSUME TurnInv, NEW to \in {"cancelled", "failed"}, turns' = TurnsEndedWith(to)
    PROVE  /\ turns' \in [Turn -> Open \cup Terminal \cup {"absent"}]
           /\ \A t \in Turn : /\ turns'[t] = "absent" <=> turns[t] = "absent"
                              /\ turns[t] \in Terminal => turns'[t] = turns[t]
                              /\ turns'[t] = "completed" => Delivered(t)
<1>1. \A t \in Turn : /\ turns'[t] = IF turns[t] \in Open THEN to ELSE turns[t]
                      /\ turns[t] \in Open \cup Terminal \cup {"absent"}
                      /\ turns[t] = "completed" => Delivered(t)
  BY DEF TurnsEndedWith, TurnInv, TurnTypeOK, CompletedWasDelivered, Delivered
<1>2. turns' \in [Turn -> Open \cup Terminal \cup {"absent"}]
  <2>1. \A t \in Turn : turns'[t] \in Open \cup Terminal \cup {"absent"}
    BY <1>1 DEF Terminal
  <2>2. turns' = [t \in Turn |-> turns'[t]]
    BY DEF TurnsEndedWith
  <2> QED
    BY <2>1, <2>2
<1> QED
  BY <1>1, <1>2 DEF Open, Terminal

\* A turn is stored after all others.
LEMMA StartCommitsKeeps ==
    ASSUME TurnInv, writes[StartSlot].st = "sent", StartCommits,
           turns' = [turns EXCEPT ![LastStarted + 1] = "started"],
           writes' \in [Slot -> Write], writes'[StartSlot].st = "done",
           \A q \in Slot : /\ writes'[q].to = writes[q].to /\ writes'[q].wait = writes[q].wait
                           /\ q # StartSlot => writes'[q] = writes[q],
           UNCHANGED <<session, fenced, faults, queue, loop, waitsFor, ctl, health, cp, fin,
                       shutdown, receipt, reported, history>>
    PROVE  TurnInv'
<1>1. PICK n : n = LastStarted + 1
  OBVIOUS
<1>2. /\ LastStarted \in Nat /\ n \in Nat \ {0} /\ queue \in Nat /\ n \in Turn /\ n \notin Present
      /\ Present = 1 .. LastStarted /\ n > loop.seq /\ loop.seq \in Nat /\ loop.seq < n
      /\ n + queue + (IF loop.pc = "gate" THEN 1 ELSE 0) + 0 <= MaxTurns
  <2>1. /\ LastStarted \in Nat /\ queue \in Nat /\ loop.seq \in Nat /\ loop.seq <= LastStarted
        /\ Present = 1 .. LastStarted
        /\ LastStarted + queue + (IF loop.pc = "gate" THEN 1 ELSE 0) + 1 <= MaxTurns
    <3>1. InSequence /\ LastStarted \in Nat
      BY LastStartedNat DEF TurnInv
    <3>2. queue \in Nat
      BY TurnAssumption DEF TurnInv, TurnTypeOK
    <3>3. loop.seq \in Nat
      BY LoopFields, TurnAssumption
    <3> QED
      BY <3>1, <3>2, <3>3 DEF InSequence
  <2> QED
    BY <1>1, <2>1, TurnAssumption DEF Turn
<1>3. /\ turns' \in [Turn -> Open \cup Terminal \cup {"absent"}] /\ turns'[n] = "started"
      /\ turns[n] = "absent" /\ \A t \in Turn : t # n => turns'[t] = turns[t]
  BY <1>1, <1>2 DEF TurnInv, TurnTypeOK, Present, Open
<1>4. Present' = 1 .. n /\ LastStarted' = n
  <2>1. Present' = Present \cup {n}
    BY <1>2, <1>3 DEF Present
  <2>2. Present' = 1 .. n
    BY <1>1, <1>2, <2>1
  <2>3. Cardinality(1 .. n) = n
    <3>1. n >= 1 /\ n \in Int /\ 1 \in Int /\ n - 1 + 1 = n
      BY <1>2
    <3>2. Cardinality(1 .. n) = n - 1 + 1
      BY <3>1, FS_Interval
    <3> QED
      BY <3>1, <3>2
  <2> QED
    BY <2>2, <2>3 DEF LastStarted
<1>5. OpenTurns' \subseteq {n}
  BY <1>2, <1>3 DEF OpenTurns, StartCommits
<1>6. /\ writes' \in [Slot -> Write] /\ writes'[StartSlot].st = "done" /\ StartSlot \in Slot
      /\ \A q \in Slot : /\ writes'[q].to = writes[q].to /\ writes'[q].wait = writes[q].wait
                         /\ q # StartSlot => writes'[q] = writes[q]
  BY SlotFacts
<1>7. /\ loop.turn = 0 /\ writes[StartSlot].wait # "none" /\ writes[StartSlot].wait # "abandoning"
      /\ \A t \in Turn : writes[<<"abandon", t>>].wait # "awaited"
  <2>1. writes[StartSlot].wait # "none"
    BY SlotFacts DEF TurnInv, Slots, SlotOK
  <2> QED
    BY <2>1 DEF TurnInv, StartTracked
<1>8. \A t \in Turn : /\ writes'[<<"abandon", t>>] = writes[<<"abandon", t>>]
                      /\ writes'[<<"checkpoint", t>>] = writes[<<"checkpoint", t>>]
                      /\ writes'[<<"recover", t>>] = writes[<<"recover", t>>]
  BY <1>6, SlotFacts DEF StartSlot, TurnOps, Ends
<1>9. TurnTypeOK'
  BY <1>3, <1>6 DEF TurnInv, TurnTypeOK
<1>10. Place'
  BY DEF TurnInv, Place, Ending
<1>11. Slots'
  <2> SUFFICES ASSUME NEW q \in Slot PROVE SlotOK(q)'
    BY DEF Slots
  <2>1. q[1] \in TurnOps => q[2] \in Turn
    BY SlotFacts DEF TurnOps, Ends
  <2>2. SlotOK(q)
    BY DEF TurnInv, Slots
  <2>3. CASE q # StartSlot
    BY <1>3, <1>6, <2>1, <2>2, <2>3 DEF SlotOK, Delivered, TurnOps
  <2>4. CASE q = StartSlot
    BY <1>6, <1>7, <2>4, SlotFacts DEF SlotOK, TurnOps, Ends
  <2> QED
    BY <2>3, <2>4
<1>12. StartTracked'
  <2>1. writes'[StartSlot].wait = writes[StartSlot].wait /\ Ending' = Ending
    BY <1>6 DEF Ending
  <2> QED
    BY <1>2, <1>4, <1>6, <1>7, <1>8, <2>1 DEF TurnInv, StartTracked
<1>13. CheckpointTracked'
  <2>1. CheckpointTracked /\ (cp.pc # "off" => cp.turn \in Turn)
    BY TurnAssumption DEF TurnInv, TurnTypeOK, CheckpointTracked, CheckpointState, Turn
  <2>2. loop.pc \notin {"think", "recovering"} /\ ~ctl.active
    BY <1>7 DEF TurnInv, Place
  <2> QED
    BY <1>8, <2>1, <2>2 DEF CheckpointTracked
<1>14. InSequence'
  <2>1. loop.seq <= n
    BY <1>2
  <2> QED
    BY <1>2, <1>4, <1>5, <1>6, <1>7, <2>1 DEF InSequence
<1>15. Receipts'
  BY DEF TurnInv, Receipts, Delivered
<1>16. NoTurnLeftBehind'
  <2>1. writes[StartSlot] \in Write
    BY <1>6 DEF TurnInv, TurnTypeOK
  <2>2. loop.pc \in {"idle", "gate"} => Ending
    BY <1>7, <2>1 DEF TurnInv, StartTracked, Write
  <2> QED
    BY <1>6, <2>2 DEF NoTurnLeftBehind, Ending
<1>17. ReportsWhatIsStored'
  BY <1>3 DEF TurnInv, ReportsWhatIsStored, Ending
<1>18. CompletedWasDelivered'
  BY <1>3 DEF TurnInv, CompletedWasDelivered
<1> QED
  BY <1>9, <1>10, <1>11, <1>12, <1>13, <1>14, <1>15, <1>16, <1>17, <1>18 DEF TurnInv

LEMMA CommitKeeps == ASSUME TurnInv, NEW s \in Slot, Commit(s) PROVE TurnInv'
<1>1. /\ writes[s].st = "sent"
      /\ UNCHANGED <<fenced, faults, queue, loop, waitsFor, ctl, health, cp, fin,
                     shutdown, receipt, reported, history>>
  BY DEF Commit, loopVars, cpVars, sayVars
<1>2. SlotOK(s) /\ turns \in [Turn -> Open \cup Terminal \cup {"absent"}]
  BY DEF TurnInv, Slots, TurnTypeOK
<1>3. s[1] \in TurnOps => s[2] \in Turn /\ turns[s[2]] \in Open \cup Terminal
  <2>1. s[1] \in TurnOps => s[2] \in Turn /\ turns[s[2]] # "absent"
    BY <1>1, <1>2, SlotFacts DEF SlotOK, TurnOps, Ends
  <2> QED
    BY <1>2, <2>1
<1>4. CASE /\ s[1] = "start" /\ UNCHANGED session
           /\ IF StartCommits
                THEN /\ turns' = [turns EXCEPT ![LastStarted + 1] = "started"]
                     /\ writes' = [writes EXCEPT ![s].st = "done"]
                ELSE UNCHANGED turns /\ writes' = [writes EXCEPT ![s].st = "refused"]
  <2>1. s = StartSlot /\ s[1] \notin Ends
    BY <1>4, SlotFacts DEF TurnOps, Ends
  <2> QED
    <3>1. CASE StartCommits
      <4>1. /\ writes' \in [Slot -> Write] /\ writes'[s].st = "done"
            /\ \A q \in Slot : /\ writes'[q].to = writes[q].to /\ writes'[q].wait = writes[q].wait
                               /\ q # s => writes'[q] = writes[q]
        BY <1>4, <3>1, AnswerFacts
      <4> QED
        BY <1>1, <1>4, <2>1, <3>1, <4>1, StartCommitsKeeps
    <3>2. CASE ~StartCommits
      BY <1>1, <1>4, <2>1, <3>2, RefusedKeeps
    <3> QED
      BY <3>1, <3>2
<1>5. CASE /\ s[1] = "status" /\ UNCHANGED session
           /\ IF StatusRefused(s[2], writes[s].to)
                THEN UNCHANGED turns /\ writes' = [writes EXCEPT ![s].st = "refused"]
                ELSE /\ turns' = [turns EXCEPT ![s[2]] = StatusAfter(s[2], writes[s].to)]
                     /\ writes' = [writes EXCEPT ![s].st = "done"]
  <2>1. s[1] \notin Ends /\ s[1] \in TurnOps
    BY <1>5 DEF TurnOps, Ends
  <2>2. PICK v : v = StatusAfter(s[2], writes[s].to)
    OBVIOUS
  <2>3. writes[s].to \in {"thinking", "calling_tool", "speaking"}
    BY <1>1, <1>2, <1>5 DEF SlotOK
  <2>4. AllowedFrom(writes[s].to) \cap Terminal = {}
    BY <2>3 DEF AllowedFrom, Terminal
  <2>5. /\ v \in Open \cup Terminal /\ (turns[s[2]] \in Terminal => v = turns[s[2]])
        /\ v = "completed" => turns[s[2]] = "completed"
    BY <1>3, <2>1, <2>2, <2>3, <2>4 DEF StatusAfter, Open
  <2> QED
    BY <1>1, <1>5, <2>1, <2>2, <2>5, PutKeeps, RefusedKeeps
<1>6. CASE /\ s[1] \in Ends /\ UNCHANGED session
           /\ turns' = [turns EXCEPT ![s[2]] = EndAfter(s[2], writes[s].to)]
           /\ writes' = [writes EXCEPT ![s].st = "done"]
  <2>1. PICK v : v = EndAfter(s[2], writes[s].to)
    OBVIOUS
  <2>2. writes[s].to \in Terminal /\ (writes[s].to = "completed" => Delivered(s[2])) /\ s[1] \in TurnOps
    BY <1>1, <1>2, <1>6 DEF SlotOK, TurnOps
  <2>3. /\ v \in Terminal /\ (turns[s[2]] \in Terminal => v = turns[s[2]])
        /\ v = "completed" => turns[s[2]] = "completed" \/ Delivered(s[2])
    BY <2>1, <2>2 DEF EndAfter
  <2> QED
    BY <1>1, <1>6, <2>1, <2>2, <2>3, PutKeeps
<1>7. CASE /\ s[1] = "checkpoint" /\ UNCHANGED session
           /\ turns' = [turns EXCEPT ![s[2]] = CheckpointAfter(s[2])]
           /\ writes' = [writes EXCEPT ![s].st = "done"]
  <2>1. PICK v : v = CheckpointAfter(s[2])
    OBVIOUS
  <2>2. s[1] \notin Ends /\ s[1] \in TurnOps
    BY <1>7 DEF TurnOps, Ends
  <2>3. /\ v \in Open \cup Terminal /\ (turns[s[2]] \in Terminal => v = turns[s[2]])
        /\ v = "completed" => turns[s[2]] = "completed"
    BY <2>1 DEF CheckpointAfter, Open
  <2> QED
    BY <1>1, <1>7, <2>1, <2>2, <2>3, PutKeeps
<1>8. CASE /\ s[1] = "session"
           /\ session' = IF session = "active" THEN "failed" ELSE session
           /\ turns' = IF session = "active" THEN TurnsEndedWith(writes[s].to) ELSE turns
           /\ writes' = [writes EXCEPT ![s].st = "done"]
  <2>1. s # StartSlot /\ s[1] \notin Ends /\ writes[s].to = "failed"
    BY <1>1, <1>2, <1>8, SlotFacts DEF SlotOK, Ends
  <2>2. /\ turns' \in [Turn -> Open \cup Terminal \cup {"absent"}]
        /\ \A t \in Turn : /\ turns'[t] = "absent" <=> turns[t] = "absent"
                           /\ turns[t] \in Terminal => turns'[t] = turns[t]
                           /\ turns'[t] = "completed" => Delivered(t)
    <3>1. CASE session = "active"
      BY <1>8, <2>1, <3>1, EndedTurns
    <3>2. CASE session # "active"
      BY <1>2, <1>8, <3>2 DEF TurnInv, CompletedWasDelivered, Delivered
    <3> QED
      BY <3>1, <3>2
  <2>3. /\ session' \in {"active", "failed", "ended"} /\ faults' \in 0 .. MaxFaults /\ fenced' \in BOOLEAN
    BY <1>1, <1>8 DEF TurnInv, TurnTypeOK
  <2>4. /\ writes' \in [Slot -> Write] /\ writes'[s].st = "done"
        /\ \A q \in Slot : /\ writes'[q].to = writes[q].to /\ writes'[q].wait = writes[q].wait
                           /\ q # s => writes'[q] = writes[q]
    BY <1>8, AnswerFacts
  <2> QED
    BY <1>1, <2>1, <2>2, <2>3, <2>4, TurnsMove
<1> QED
  BY <1>4, <1>5, <1>6, <1>7, <1>8 DEF Commit, Ends

LEMMA HostEndsSessionKeeps ==
    ASSUME TurnInv, NEW to \in {"cancelled", "failed"}, HostEndsSession(to) PROVE TurnInv'
<1>1. /\ session' = "ended" /\ turns' = TurnsEndedWith(to) /\ faults > 0 /\ faults' = faults - 1
      /\ UNCHANGED <<writes, fenced, queue, loop, waitsFor, ctl, health, cp, fin,
                     shutdown, receipt, reported, history>>
  BY DEF HostEndsSession, loopVars, cpVars, sayVars
<1>2. faults' \in 0 .. MaxFaults
  BY <1>1, ControlFacts, TurnAssumption
<1>3. writes' \in [Slot -> Write] /\ fenced' \in BOOLEAN
  BY <1>1 DEF TurnInv, TurnTypeOK
<1>4. /\ turns' \in [Turn -> Open \cup Terminal \cup {"absent"}]
      /\ \A t \in Turn : /\ turns'[t] = "absent" <=> turns[t] = "absent"
                         /\ turns[t] \in Terminal => turns'[t] = turns[t]
                         /\ turns'[t] = "completed" => Delivered(t)
  BY <1>1, EndedTurns
<1> QED
  BY <1>1, <1>2, <1>3, <1>4, TurnsMove

LEMMA LeaseLostKeeps == ASSUME TurnInv, LeaseLost PROVE TurnInv'
<1>1. /\ fenced' = TRUE /\ faults > 0 /\ faults' = faults - 1
      /\ UNCHANGED <<turns, session, writes, queue, loop, waitsFor, ctl, health, cp, fin,
                     shutdown, receipt, reported, history>>
  BY DEF LeaseLost, loopVars, cpVars, sayVars
<1>2. faults' \in 0 .. MaxFaults
  BY <1>1, ControlFacts, TurnAssumption
<1>3. /\ writes' \in [Slot -> Write] /\ session' \in {"active", "failed", "ended"}
      /\ turns' \in [Turn -> Open \cup Terminal \cup {"absent"}]
      /\ \A t \in Turn : turns[t] = "completed" => Delivered(t)
  BY <1>1 DEF TurnInv, TurnTypeOK, CompletedWasDelivered, Delivered
<1> QED
  BY <1>1, <1>2, <1>3, TurnsMove

-----------------------------------------------------------------------------
(***************************************************************************)
(* Steps beside the loop: late writes, the checkpoint, the end of the      *)
(* session and the shutdown.                                               *)
(***************************************************************************)
LEMMA Beside ==
    ASSUME TurnInv, UNCHANGED <<turns, session, fenced, queue, loop, receipt, reported, history>>,
           shutdown' \in BOOLEAN, writes' \in [Slot -> Write], faults' \in 0 .. MaxFaults,
           waitsFor' \subseteq Slot, ctl' \in Control, ctl'.delivered = ctl.delivered,
           health' \in Health, cp' \in CheckpointState,
           fin' \in {"no", "closing", "write", "done"}, fin # "no" => fin' # "no",
           writes'[StartSlot].st = "sent" => writes[StartSlot].st = "sent",
           Place', Slots', StartTracked', CheckpointTracked'
    PROVE  TurnInv'
<1>1. TurnTypeOK'
  BY DEF TurnInv, TurnTypeOK
<1>2. InSequence'
  <2>1. InSequence /\ LastStarted \in Nat
    BY LastStartedNat DEF TurnInv
  <2>2. queue \in Nat
    BY TurnAssumption DEF TurnInv, TurnTypeOK
  <2>3. LastStarted' = LastStarted /\ Present' = Present /\ OpenTurns' = OpenTurns
    BY DEF LastStarted, Present, OpenTurns
  <2>4. LastStarted + queue + (IF loop.pc = "gate" THEN 1 ELSE 0)
          + (IF writes'[StartSlot].st = "sent" THEN 1 ELSE 0) <= MaxTurns
    BY <2>1, <2>2, TurnAssumption DEF InSequence
  <2> QED
    BY <2>1, <2>3, <2>4 DEF InSequence
<1>3. Receipts'
  BY DEF TurnInv, Receipts, Delivered
<1>4. NoTurnLeftBehind' /\ ReportsWhatIsStored' /\ CompletedWasDelivered'
  BY DEF TurnInv, NoTurnLeftBehind, ReportsWhatIsStored, CompletedWasDelivered, OpenTurns, Ending
<1> QED
  BY <1>1, <1>2, <1>3, <1>4 DEF TurnInv

\* The checkpoint's bookkeeping looks at the waits of two kinds of writes.
LEMMA CheckpointSame ==
    ASSUME TurnInv, UNCHANGED <<loop, cp>>, Kept(ctl, ctl'),
           \A t \in Turn :
              /\ \/ writes'[<<"checkpoint", t>>] = writes[<<"checkpoint", t>>]
                 \/ /\ writes'[<<"checkpoint", t>>].wait = "none"
                    /\ writes[<<"checkpoint", t>>].wait # "awaited"
              /\ writes[<<"recover", t>>].wait = "awaited" =>
                    writes'[<<"recover", t>>] = writes[<<"recover", t>>]
    PROVE  CheckpointTracked'
<1>1. CheckpointTracked /\ (cp.pc # "off" => cp.turn \in Turn)
  BY TurnAssumption DEF TurnInv, TurnTypeOK, CheckpointTracked, CheckpointState, Turn
<1>2. loop.pc \in {"think", "recovering"} \/ ctl.active => loop.turn \in Turn
  BY TurnHasStarted DEF TurnInv, Place
<1>3. ctl'.active /\ ctl'.cause = "none" => ctl.active /\ ctl.cause = "none"
  BY DEF Kept
<1> QED
  BY <1>1, <1>2, <1>3 DEF CheckpointTracked

LEMMA LateSettlesKeeps == ASSUME TurnInv, NEW s \in Slot, LateSettles(s) PROVE TurnInv'
<1>1. /\ writes[s].wait \in {"tracked", "dropped"}
      /\ UNCHANGED <<turns, session, fenced, faults, queue, loop, ctl, health, cp, fin,
                     shutdown, receipt, reported, history>>
  BY DEF LateSettles, cpVars, sayVars
<1>2. /\ writes \in [Slot -> Write] /\ waitsFor \subseteq Slot /\ cp \in CheckpointState
      /\ fin \in {"no", "closing", "write", "done"} /\ shutdown \in BOOLEAN /\ Place'
      /\ LastStarted' = LastStarted /\ Ending' = Ending /\ StartTracked /\ Slots
  BY <1>1 DEF TurnInv, TurnTypeOK, Place, Ending, LastStarted, Present
<1>3. CASE /\ s = StartSlot /\ writes[s].st = "done"
           /\ writes' = Send([writes EXCEPT ![s].wait = "abandoning"],
                             <<"abandon", LastStarted>>, "cancelled")
           /\ UNCHANGED waitsFor
  <2>1. PICK n : n = LastStarted
    OBVIOUS
  <2>2. n \in Turn /\ turns[n] # "absent"
    <3>1. n \in Nat /\ loop.seq \in 0 .. MaxTurns /\ n > loop.seq /\ Present = 1 .. n
      BY <1>2, <1>3, <2>1, LastStartedNat, LoopFields DEF StartTracked, TurnInv, InSequence
    <3>2. n \in Present
      BY <3>1, TurnAssumption
    <3> QED
      BY <3>2 DEF Present
  <2>3. PICK w : w = [writes[s] EXCEPT !.wait = "abandoning"]
    OBVIOUS
  <2>4. w \in Write /\ w.to = writes[s].to /\ w.st = "done" /\ w.wait = "abandoning"
    BY <1>2, <1>3, <2>3 DEF Write
  <2>5. PICK a : a = [to |-> "cancelled", st |-> "sent", wait |-> "awaited"]
    OBVIOUS
  <2>6. a \in Write /\ a.to = "cancelled" /\ a.st = "sent" /\ a.wait = "awaited"
    BY <2>5 DEF Write, Terminal
  <2>7. /\ <<"abandon", n>> \in Slot /\ <<"abandon", n>>[1] = "abandon" /\ <<"abandon", n>>[2] = n
        /\ <<"abandon", n>> # s
    BY <1>3, <2>2, SlotFacts DEF TurnOps, Ends
  <2>8. writes' = [[writes EXCEPT ![s] = w] EXCEPT ![<<"abandon", n>>] = a]
    BY <1>3, <2>1, <2>3, <2>5 DEF Send
  <2>9. /\ writes' \in [Slot -> Write] /\ writes'[s] = w /\ writes'[<<"abandon", n>>] = a
        /\ \A q \in Slot : q \notin {s, <<"abandon", n>>} => writes'[q] = writes[q]
    BY <1>2, <2>4, <2>6, <2>7, <2>8
  <2>10. Slots'
    <3> SUFFICES ASSUME NEW q \in Slot PROVE SlotOK(q)'
      BY DEF Slots
    <3>1. SlotOK(q) /\ turns' = turns /\ receipt' = receipt
      BY <1>1, <1>2 DEF Slots
    <3>2. CASE q \notin {s, <<"abandon", n>>}
      BY <2>9, <3>1, <3>2 DEF SlotOK, Delivered
    <3>3. CASE q = s
      BY <1>3, <2>4, <2>9, <3>3, SlotFacts DEF SlotOK, TurnOps, Ends
    <3>4. CASE q = <<"abandon", n>>
      BY <1>1, <2>2, <2>6, <2>7, <2>9, <3>4 DEF SlotOK, Ends, Terminal
    <3> QED
      BY <3>2, <3>3, <3>4
  <2>11. StartTracked'
    <3>1. \A t \in Turn : writes'[<<"abandon", t>>].wait = "awaited" => t = n
      <4> SUFFICES ASSUME NEW t \in Turn, writes'[<<"abandon", t>>].wait = "awaited", t # n
                   PROVE  FALSE
        OBVIOUS
      <4>1. <<"abandon", t>> \in Slot /\ <<"abandon", t>> \notin {s, <<"abandon", n>>}
        BY <1>3, <2>7, SlotFacts DEF TurnOps, Ends
      <4>2. writes[<<"abandon", t>>].wait = "awaited"
        BY <2>9, <4>1
      <4> QED
        BY <1>1, <1>2, <1>3, <4>2 DEF StartTracked
    <3> QED
      BY <1>1, <1>2, <1>3, <2>1, <2>4, <2>9, <3>1 DEF StartTracked
  <2>12. CheckpointTracked'
    <3>1. \A t \in Turn : /\ writes'[<<"checkpoint", t>>] = writes[<<"checkpoint", t>>]
                          /\ writes'[<<"recover", t>>] = writes[<<"recover", t>>]
      BY <1>3, <2>9, SlotFacts DEF StartSlot, TurnOps, Ends
    <3> QED
      BY <1>1, <3>1, ControlFacts, CheckpointSame
  <2>13. writes'[StartSlot].st # "sent"
    BY <1>3, <2>4, <2>9
  <2> QED
    BY <1>1, <1>2, <1>3, <2>9, <2>10, <2>11, <2>12, <2>13, ControlFacts, Beside
<1>4. CASE writes' = [writes EXCEPT ![s] = Free] /\ waitsFor' = waitsFor \ {s}
  <2>1. /\ writes' \in [Slot -> Write] /\ writes'[s] = Free
        /\ \A q \in Slot : q # s => writes'[q] = writes[q]
    BY <1>2, <1>4, FreeIsWrite
  <2>2. Slots'
    <3> SUFFICES ASSUME NEW q \in Slot PROVE SlotOK(q)'
      BY DEF Slots
    <3>1. SlotOK(q) /\ turns' = turns /\ receipt' = receipt
      BY <1>1, <1>2 DEF Slots
    <3>2. CASE q # s
      BY <2>1, <3>1, <3>2 DEF SlotOK, Delivered
    <3>3. CASE q = s
      BY <2>1, <3>3, FreeIsWrite DEF SlotOK
    <3> QED
      BY <3>2, <3>3
  <2>3. \A t \in Turn :
           /\ writes'[<<"abandon", t>>].wait = "awaited" => writes[<<"abandon", t>>].wait = "awaited"
           /\ \/ writes'[<<"checkpoint", t>>] = writes[<<"checkpoint", t>>]
              \/ /\ writes'[<<"checkpoint", t>>].wait = "none"
                 /\ writes[<<"checkpoint", t>>].wait # "awaited"
           /\ writes[<<"recover", t>>].wait = "awaited" =>
                 writes'[<<"recover", t>>] = writes[<<"recover", t>>]
    <3>1. \A q \in Slot : \/ writes'[q] = writes[q]
                          \/ writes'[q].wait = "none" /\ writes[q].wait # "awaited"
      BY <1>1, <2>1, FreeIsWrite
    <3>2. \A t \in Turn : /\ <<"abandon", t>> \in Slot /\ <<"checkpoint", t>> \in Slot
                          /\ <<"recover", t>> \in Slot
      BY SlotFacts DEF TurnOps, Ends
    <3> SUFFICES ASSUME NEW t \in Turn
                 PROVE  /\ writes'[<<"abandon", t>>].wait = "awaited" =>
                              writes[<<"abandon", t>>].wait = "awaited"
                        /\ \/ writes'[<<"checkpoint", t>>] = writes[<<"checkpoint", t>>]
                           \/ /\ writes'[<<"checkpoint", t>>].wait = "none"
                              /\ writes[<<"checkpoint", t>>].wait # "awaited"
                        /\ writes[<<"recover", t>>].wait = "awaited" =>
                              writes'[<<"recover", t>>] = writes[<<"recover", t>>]
      OBVIOUS
    <3> QED
      BY <3>1, <3>2
  <2>4. StartTracked'
    <3>1. CASE s = StartSlot
      <4>1. \A t \in Turn : writes'[<<"abandon", t>>].wait # "awaited"
        BY <1>1, <1>2, <2>3, <3>1 DEF StartTracked
      <4>2. loop.pc # "start"
        BY <1>1, <1>2, <3>1 DEF StartTracked
      <4> QED
        BY <1>1, <2>1, <3>1, <4>1, <4>2, FreeIsWrite DEF StartTracked
    <3>2. CASE s # StartSlot
      <4>1. /\ writes'[StartSlot] = writes[StartSlot]
            /\ StartSlot \in waitsFor => StartSlot \in waitsFor'
        BY <1>4, <2>1, <3>2, SlotFacts
      <4> QED
        BY <1>1, <1>2, <2>3, <4>1 DEF StartTracked
    <3> QED
      BY <3>1, <3>2
  <2>5. CheckpointTracked'
    BY <1>1, <2>3, ControlFacts, CheckpointSame
  <2>6. writes'[StartSlot].st = "sent" => writes[StartSlot].st = "sent"
    BY <2>1, FreeIsWrite, SlotFacts
  <2>7. waitsFor' \subseteq Slot
    BY <1>2, <1>4
  <2> QED
    BY <1>1, <1>2, <2>1, <2>2, <2>4, <2>5, <2>6, <2>7, ControlFacts, Beside
<1> QED
  BY <1>3, <1>4 DEF LateSettles

LEMMA LateTurnAbandonedKeeps ==
    ASSUME TurnInv, NEW t \in Turn, LateTurnAbandoned(t) PROVE TurnInv'
<1>1. /\ writes[<<"abandon", t>>].wait = "awaited" /\ waitsFor' = waitsFor \ {StartSlot}
      /\ UNCHANGED <<turns, session, fenced, queue, loop, ctl, health, cp, fin,
                     shutdown, receipt, reported, history>>
  BY DEF LateTurnAbandoned, cpVars, sayVars
<1>2. /\ writes \in [Slot -> Write] /\ waitsFor \subseteq Slot /\ cp \in CheckpointState
      /\ fin \in {"no", "closing", "write", "done"} /\ shutdown \in BOOLEAN /\ Place'
      /\ LastStarted' = LastStarted /\ StartTracked /\ Slots
  BY <1>1 DEF TurnInv, TurnTypeOK, Place, Ending, LastStarted, Present
<1>3. PICK s : s = <<"abandon", t>>
  OBVIOUS
<1>4. /\ s \in Slot /\ s[1] = "abandon" /\ s # StartSlot /\ StartSlot \in Slot
      /\ writes[s].wait = "awaited" /\ writes[StartSlot].wait = "abandoning"
      /\ t = LastStarted /\ loop.turn = 0 /\ loop.pc # "start" /\ writes[StartSlot].st = "done"
  BY <1>1, <1>2, <1>3, SlotFacts DEF TurnOps, Ends, StartTracked
<1>5. PICK o \in Outcomes(s) :
         Charged(o) /\ writes' = [Told(s, o, "dropped") EXCEPT ![StartSlot] = Free]
  BY <1>3 DEF LateTurnAbandoned
<1>6. /\ o \in {"ok", "refused", "unavailable", "timeout"} /\ writes[s].st # "none"
      /\ o \in {"unavailable", "timeout"} => faults > 0
  BY DEF Outcomes
<1>7. faults' \in 0 .. MaxFaults
  BY <1>5, <1>6, ChargedFaults DEF TurnInv
<1>8. PICK w : w = IF o = "timeout" THEN [writes[s] EXCEPT !.wait = "dropped"] ELSE Free
  OBVIOUS
<1>9. w \in Write /\ \/ w = Free
                     \/ w.to = writes[s].to /\ w.st = writes[s].st /\ w.wait = "dropped"
  <2>1. CASE o = "timeout"
    BY <1>2, <1>4, <1>8, <2>1 DEF Write
  <2>2. CASE o # "timeout"
    BY <1>8, <2>2, FreeIsWrite
  <2> QED
    BY <2>1, <2>2
<1>10. writes' = [[writes EXCEPT ![s] = w] EXCEPT ![StartSlot] = Free]
  BY <1>5, <1>8 DEF Told
<1>11. /\ writes' \in [Slot -> Write] /\ writes'[s] = w /\ writes'[StartSlot] = Free
       /\ \A q \in Slot : q \notin {s, StartSlot} => writes'[q] = writes[q]
  BY <1>2, <1>4, <1>9, <1>10, FreeIsWrite
<1>12. Slots'
  <2> SUFFICES ASSUME NEW q \in Slot PROVE SlotOK(q)'
    BY DEF Slots
  <2>1. SlotOK(q) /\ turns' = turns /\ receipt' = receipt
    BY <1>1, <1>2 DEF Slots
  <2>2. CASE q \notin {s, StartSlot}
    BY <1>11, <2>1, <2>2 DEF SlotOK, Delivered
  <2>3. CASE q = s /\ w # Free
    BY <1>6, <1>9, <1>11, <2>1, <2>3 DEF SlotOK, Delivered
  <2>4. CASE q = StartSlot \/ (q = s /\ w = Free)
    BY <1>11, <2>4, FreeIsWrite DEF SlotOK
  <2> QED
    BY <2>2, <2>3, <2>4
<1>13. StartTracked'
  <2>1. \A u \in Turn : writes'[<<"abandon", u>>].wait # "awaited"
    <3> SUFFICES ASSUME NEW u \in Turn PROVE writes'[<<"abandon", u>>].wait # "awaited"
      OBVIOUS
    <3>1. CASE u = t
      BY <1>3, <1>9, <1>11, <3>1, FreeIsWrite
    <3>2. CASE u # t
      <4>1. <<"abandon", u>> \in Slot /\ <<"abandon", u>> \notin {s, StartSlot}
        BY <1>3, <3>2, SlotFacts DEF TurnOps, Ends
      <4> QED
        BY <1>2, <1>4, <1>11, <3>2, <4>1 DEF StartTracked
    <3> QED
      BY <3>1, <3>2
  <2> QED
    BY <1>1, <1>4, <1>11, <2>1, FreeIsWrite DEF StartTracked
<1>14. CheckpointTracked'
  <2>1. \A u \in Turn : /\ writes'[<<"checkpoint", u>>] = writes[<<"checkpoint", u>>]
                        /\ writes'[<<"recover", u>>] = writes[<<"recover", u>>]
    BY <1>3, <1>11, SlotFacts DEF StartSlot, TurnOps, Ends
  <2> QED
    BY <1>1, <2>1, ControlFacts, CheckpointSame
<1>15. writes'[StartSlot].st # "sent" /\ waitsFor' \subseteq Slot
  BY <1>1, <1>2, <1>11, FreeIsWrite
<1> QED
  BY <1>1, <1>2, <1>7, <1>11, <1>12, <1>13, <1>14, <1>15, ControlFacts, Beside

\* What is tracked of a start is left alone, also when the session begins to be ended.
LEMMA StartSame ==
    ASSUME TurnInv, UNCHANGED <<turns, loop, waitsFor>>, fin # "no" => fin' # "no",
           writes'[StartSlot] = writes[StartSlot],
           \A t \in Turn : writes'[<<"abandon", t>>] = writes[<<"abandon", t>>]
    PROVE  StartTracked'
<1>1. LastStarted' = LastStarted /\ (Ending => Ending')
  BY DEF LastStarted, Present, Ending
<1> QED
  BY <1>1 DEF TurnInv, StartTracked

\* A step of the checkpoint that is under way.
LEMMA CheckpointMoves ==
    ASSUME TurnInv, cp.pc # "off", cp' \in CheckpointState, cp'.turn = cp.turn,
           cp'.pc = "wait" => writes'[<<"checkpoint", cp.turn>>].wait = "none",
           cp'.pc = "write" => writes'[<<"checkpoint", cp.turn>>].wait = "awaited",
           writes' \in [Slot -> Write],
           \A q \in Slot : q # <<"checkpoint", cp.turn>> => writes'[q] = writes[q],
           Slots', faults' \in 0 .. MaxFaults,
           Kept(ctl, ctl'), health' \in Health, Degraded(health') /\ ctl'.active => ctl'.aborted,
           fin' \in {"no", "closing", "write", "done"}, fin # "no" => fin' # "no",
           UNCHANGED <<turns, session, fenced, queue, loop, waitsFor, shutdown,
                       receipt, reported, history>>
    PROVE  TurnInv'
<1>1. /\ loop.pc \notin {"start", "think"} /\ ~(ctl.active /\ ctl.cause = "none")
      /\ ~(ctl'.active /\ ctl'.cause = "none") /\ ctl' \in Control /\ ctl'.delivered = ctl.delivered
  BY DEF TurnInv, Place, Kept
<1>2. cp.turn \in Turn /\ cp.turn <= loop.seq /\ CheckpointTracked
  BY TurnAssumption DEF TurnInv, TurnTypeOK, CheckpointTracked, CheckpointState, Turn
<1>3. /\ writes'[StartSlot] = writes[StartSlot]
      /\ \A t \in Turn : /\ writes'[<<"abandon", t>>] = writes[<<"abandon", t>>]
                         /\ writes'[<<"recover", t>>] = writes[<<"recover", t>>]
                         /\ t # cp.turn => writes'[<<"checkpoint", t>>] = writes[<<"checkpoint", t>>]
  BY SlotFacts DEF StartSlot, TurnOps, Ends
<1>4. Place'
  BY <1>1 DEF TurnInv, Place, Kept, Ending
<1>5. StartTracked'
  BY <1>3, StartSame
<1>6. CheckpointTracked'
  <2>1. loop.pc = "recovering" => loop.turn \in Turn
    BY TurnHasStarted DEF TurnInv, Place
  <2>2. \A t \in Turn : writes'[<<"checkpoint", t>>].wait # "none" => t <= loop.seq
    BY <1>2, <1>3 DEF CheckpointTracked
  <2>3. cp'.turn # 0
    BY <1>2 DEF CheckpointTracked
  <2> QED
    BY <1>1, <1>2, <1>3, <2>1, <2>2, <2>3 DEF CheckpointTracked
<1>7. waitsFor' \subseteq Slot /\ shutdown' \in BOOLEAN
  BY DEF TurnInv, TurnTypeOK
<1> QED
  BY <1>1, <1>3, <1>4, <1>5, <1>6, <1>7, Beside

\* Where the checkpoint is, and its slot.
LEMMA CheckpointFields ==
    ASSUME TurnInv, cp.pc # "off"
    PROVE  /\ cp.turn \in Turn /\ turns[cp.turn] # "absent"
           /\ <<"checkpoint", cp.turn>> \in Slot /\ <<"checkpoint", cp.turn>>[1] = "checkpoint"
           /\ <<"checkpoint", cp.turn>>[2] = cp.turn
           /\ \A pc \in {"off", "wait", "write", "late", "ending", "failed"} :
                 /\ [cp EXCEPT !.pc = pc] \in CheckpointState
                 /\ [cp EXCEPT !.pc = pc].turn = cp.turn /\ [cp EXCEPT !.pc = pc].pc = pc
<1>1. cp.turn \in Turn /\ cp.turn <= loop.seq /\ cp \in CheckpointState
  BY TurnAssumption DEF TurnInv, TurnTypeOK, CheckpointTracked, CheckpointState, Turn
<1>2. turns[cp.turn] # "absent"
  <2>1. LastStarted \in Nat /\ loop.seq \in 0 .. MaxTurns /\ loop.seq <= LastStarted
        /\ Present = 1 .. LastStarted
    BY LastStartedNat, LoopFields DEF TurnInv, InSequence
  <2>2. cp.turn \in Present
    BY <1>1, <2>1, TurnAssumption DEF Turn
  <2> QED
    BY <2>2 DEF Present
<1>3. \A pc \in {"off", "wait", "write", "late", "ending", "failed"} :
         /\ [cp EXCEPT !.pc = pc] \in CheckpointState
         /\ [cp EXCEPT !.pc = pc].turn = cp.turn /\ [cp EXCEPT !.pc = pc].pc = pc
  BY <1>1 DEF CheckpointState
<1> QED
  BY <1>1, <1>2, <1>3, SlotFacts DEF TurnOps

\* Its failure ends the session.
LEMMA FatalFacts ==
    ASSUME TurnInv, CheckpointFatal
    PROVE  /\ fin' \in {"no", "closing", "write", "done"} /\ (fin # "no" => fin' # "no")
           /\ \E pc \in {"ending", "failed"} : cp' = [cp EXCEPT !.pc = pc]
  BY DEF CheckpointFatal, TurnInv, TurnTypeOK

LEMMA CheckpointAttemptKeeps == ASSUME TurnInv, CheckpointAttempt PROVE TurnInv'
<1>1. /\ cp.pc = "wait" /\ writes' = Send(writes, <<"checkpoint", cp.turn>>, "interrupted")
      /\ cp' = [cp EXCEPT !.pc = "write"]
      /\ UNCHANGED <<turns, session, fenced, faults, queue, loop, waitsFor, ctl, health, fin,
                     shutdown, receipt, reported, history>>
  BY DEF CheckpointAttempt, loopVars, sayVars
<1>2. PICK s : s = <<"checkpoint", cp.turn>>
  OBVIOUS
<1>3. s \in Slot /\ s[1] = "checkpoint" /\ turns[s[2]] # "absent"
  BY <1>1, <1>2, CheckpointFields
<1>4. Sent(s, "interrupted")
  BY <1>1, <1>2, <1>3, SendSends DEF TurnInv, Open
<1>5. Slots'
  BY <1>1, <1>3, <1>4, SentSlots DEF DeliveredKept, Delivered, Ends
<1>6. /\ Degraded(health') /\ ctl'.active => ctl'.aborted
      /\ fin' \in {"no", "closing", "write", "done"}
  BY <1>1 DEF TurnInv, TurnTypeOK, Place
<1>7. cp' \in CheckpointState /\ cp'.turn = cp.turn /\ cp'.pc = "write"
  BY <1>1, CheckpointFields
<1>8. /\ writes' \in [Slot -> Write] /\ writes'[<<"checkpoint", cp.turn>>].wait = "awaited"
      /\ \A q \in Slot : q # <<"checkpoint", cp.turn>> => writes'[q] = writes[q]
  BY <1>2, <1>4 DEF Sent
<1> QED
  BY <1>1, <1>5, <1>6, <1>7, <1>8, ControlFacts, CheckpointMoves

LEMMA CheckpointWrittenKeeps == ASSUME TurnInv, CheckpointWritten PROVE TurnInv'
<1>1. /\ cp.pc = "write"
      /\ UNCHANGED <<turns, session, fenced, queue, loop, waitsFor, shutdown,
                     receipt, reported, history>>
  BY DEF CheckpointWritten, loopVars, sayVars
<1>2. PICK s : s = <<"checkpoint", cp.turn>>
  OBVIOUS
<1>3. s \in Slot /\ s[1] = "checkpoint"
  BY <1>1, <1>2, CheckpointFields
<1>4. PICK o \in Outcomes(s) :
         /\ Charged(o)
         /\ writes' = Told(s, o, "tracked")
         /\ \/ /\ o = "ok"
               /\ Sync([health EXCEPT !.cp = FALSE], ctl)
               /\ cp' = [cp EXCEPT !.pc = "off"]
               /\ UNCHANGED fin
            \/ /\ o # "ok"
               /\ Sync([health EXCEPT !.cp = TRUE], ctl)
               /\ \/ o = "unavailable" /\ cp' = [cp EXCEPT !.pc = "wait"] /\ UNCHANGED fin
                  \/ cp' = [cp EXCEPT !.pc = "late"] /\ UNCHANGED fin
                  \/ CheckpointFatal
  <2>1. PICK o \in Outcomes(s) :
         /\ Charged(o)
         /\ writes' = Told(s, o, "tracked")
         /\ \/ /\ o = "ok"
               /\ Sync([health EXCEPT !.cp = FALSE], ctl)
               /\ cp' = [cp EXCEPT !.pc = "off"]
               /\ UNCHANGED fin
            \/ /\ o # "ok"
               /\ Sync([health EXCEPT !.cp = TRUE], ctl)
               /\ CASE o = "unavailable" -> cp' = [cp EXCEPT !.pc = "wait"] /\ UNCHANGED fin
                    [] o = "timeout"     -> cp' = [cp EXCEPT !.pc = RetryAfter] /\ UNCHANGED fin
                    [] o = "refused"     -> CheckpointFatal
    BY <1>2 DEF CheckpointWritten
  <2>2. o \in {"ok", "refused", "unavailable", "timeout"}
    BY DEF Outcomes
  <2> QED
    BY <2>1, <2>2 DEF RetryAfter
<1>5. Answered(s, o, "tracked")
  BY <1>3, <1>4, ToldAnswers DEF TurnInv
<1>6. Slots' /\ writes' \in [Slot -> Write] /\ faults' \in 0 .. MaxFaults
  BY <1>1, <1>3, <1>5, AnsweredSlots DEF DeliveredKept, Delivered, Answered
<1>7. /\ \A q \in Slot : q # <<"checkpoint", cp.turn>> => writes'[q] = writes[q]
      /\ o = "unavailable" => writes'[<<"checkpoint", cp.turn>>].wait = "none"
  BY <1>2, <1>5, FreeIsWrite DEF Answered
<1>8. /\ health' \in Health /\ Kept(ctl, ctl') /\ (Degraded(health') /\ ctl'.active => ctl'.aborted)
  <2>1. PICK h \in Health : Sync(h, ctl)
    BY <1>4, HealthFacts
  <2> QED
    BY <2>1, SyncFacts, ControlFacts
<1>9. fin' \in {"no", "closing", "write", "done"} /\ (fin # "no" => fin' # "no")
  BY <1>4, FatalFacts DEF TurnInv, TurnTypeOK
<1>10. PICK pc \in {"off", "wait", "late", "ending", "failed"} :
          cp' = [cp EXCEPT !.pc = pc] /\ (pc = "wait" => o = "unavailable")
  BY <1>4, FatalFacts
<1>11. cp' \in CheckpointState /\ cp'.turn = cp.turn /\ cp'.pc = pc
  BY <1>1, <1>10, CheckpointFields
<1> QED
  BY <1>1, <1>6, <1>7, <1>8, <1>9, <1>10, <1>11, CheckpointMoves

LEMMA LateCheckpointSettledKeeps == ASSUME TurnInv, LateCheckpointSettled PROVE TurnInv'
<1>1. /\ cp.pc = "late" /\ writes[<<"checkpoint", cp.turn>>].st = "none"
      /\ cp' = [cp EXCEPT !.pc = "wait"]
      /\ UNCHANGED <<turns, session, writes, fenced, faults, queue, loop, waitsFor, ctl, health, fin,
                     shutdown, receipt, reported, history>>
  BY DEF LateCheckpointSettled, storeVars, loopVars, sayVars
<1>2. writes[<<"checkpoint", cp.turn>>].wait = "none"
  BY <1>1, CheckpointFields DEF TurnInv, Slots, SlotOK
<1>3. cp' \in CheckpointState /\ cp'.turn = cp.turn /\ cp'.pc = "wait"
  BY <1>1, CheckpointFields
<1>4. /\ Degraded(health') /\ ctl'.active => ctl'.aborted
      /\ fin' \in {"no", "closing", "write", "done"} /\ writes' \in [Slot -> Write]
  BY <1>1 DEF TurnInv, TurnTypeOK, Place
<1>5. Slots'
  BY <1>1, SameSlots DEF DeliveredKept, Delivered
<1> QED
  BY <1>1, <1>2, <1>3, <1>4, <1>5, ControlFacts, CheckpointMoves

LEMMA CheckpointGivesUpKeeps == ASSUME TurnInv, CheckpointGivesUp PROVE TurnInv'
<1>1. /\ cp.pc \in {"wait", "write", "late"}
      /\ writes' = IF cp.pc = "write"
                     THEN [writes EXCEPT ![<<"checkpoint", cp.turn>>].wait = "dropped"] ELSE writes
      /\ Sync([health EXCEPT !.cp = TRUE], ctl) /\ CheckpointFatal
      /\ UNCHANGED <<turns, session, fenced, faults, queue, loop, waitsFor,
                     shutdown, receipt, reported, history>>
  BY DEF CheckpointGivesUp, loopVars, sayVars
<1>2. PICK s : s = <<"checkpoint", cp.turn>>
  OBVIOUS
<1>3. s \in Slot /\ s[1] = "checkpoint"
  BY <1>1, <1>2, CheckpointFields
<1>4. /\ writes' \in [Slot -> Write] /\ Slots'
      /\ \A q \in Slot : q # s => writes'[q] = writes[q]
  <2>1. CASE cp.pc # "write"
    BY <1>1, <2>1, SameSlots DEF DeliveredKept, Delivered, TurnInv, TurnTypeOK
  <2>2. CASE cp.pc = "write"
    <3>1. writes[s] \in Write /\ SlotOK(s) /\ writes[s].wait = "awaited"
      BY <1>2, <1>3, <2>2 DEF TurnInv, TurnTypeOK, Slots, CheckpointTracked
    <3>2. PICK w : w = [writes[s] EXCEPT !.wait = "dropped"]
      OBVIOUS
    <3>3. w \in Write /\ w.to = writes[s].to /\ w.st = writes[s].st /\ w.wait = "dropped"
      BY <3>1, <3>2 DEF Write
    <3>4. writes' = [writes EXCEPT ![s] = w]
      BY <1>1, <1>2, <2>2, <3>2
    <3>5. /\ writes' \in [Slot -> Write] /\ writes'[s] = w
          /\ \A q \in Slot : q # s => writes'[q] = writes[q]
      BY <1>3, <3>3, <3>4 DEF TurnInv, TurnTypeOK
    <3>6. writes[s].st # "none"
      BY <3>1 DEF SlotOK
    <3>7. Answered(s, "timeout", "dropped")
      BY <1>1, <3>3, <3>5, <3>6, ControlFacts DEF Answered
    <3> QED
      BY <1>1, <1>3, <3>5, <3>7, AnsweredSlots DEF DeliveredKept, Delivered
  <2> QED
    BY <2>1, <2>2
<1>5. /\ health' \in Health /\ Kept(ctl, ctl') /\ (Degraded(health') /\ ctl'.active => ctl'.aborted)
  <2>1. PICK h \in Health : Sync(h, ctl)
    BY <1>1, HealthFacts
  <2> QED
    BY <2>1, SyncFacts, ControlFacts
<1>6. /\ fin' \in {"no", "closing", "write", "done"} /\ (fin # "no" => fin' # "no")
      /\ \E pc \in {"ending", "failed"} : cp' = [cp EXCEPT !.pc = pc]
  BY <1>1, FatalFacts
<1>7. cp' \in CheckpointState /\ cp'.turn = cp.turn /\ cp'.pc \in {"ending", "failed"}
  BY <1>1, <1>6, CheckpointFields
<1>8. \A q \in Slot : q # <<"checkpoint", cp.turn>> => writes'[q] = writes[q]
  BY <1>2, <1>4
<1>9. faults' \in 0 .. MaxFaults
  BY <1>1, ControlFacts
<1> QED
  BY <1>1, <1>4, <1>5, <1>6, <1>7, <1>8, <1>9, CheckpointMoves

LEMMA CheckpointEndsKeeps == ASSUME TurnInv, CheckpointEnds PROVE TurnInv'
<1>1. /\ cp.pc = "ending" /\ cp' = [cp EXCEPT !.pc = "failed"]
      /\ UNCHANGED <<turns, session, writes, fenced, faults, queue, loop, waitsFor, ctl, health, fin,
                     shutdown, receipt, reported, history>>
  BY DEF CheckpointEnds, storeVars, loopVars, sayVars
<1>2. cp' \in CheckpointState /\ cp'.turn = cp.turn /\ cp'.pc = "failed"
  BY <1>1, CheckpointFields
<1>3. /\ Degraded(health') /\ ctl'.active => ctl'.aborted
      /\ fin' \in {"no", "closing", "write", "done"} /\ writes' \in [Slot -> Write]
  BY <1>1 DEF TurnInv, TurnTypeOK, Place
<1>4. Slots'
  BY <1>1, SameSlots DEF DeliveredKept, Delivered
<1> QED
  BY <1>1, <1>2, <1>3, <1>4, ControlFacts, CheckpointMoves

LEMMA InterruptKeeps ==
    ASSUME TurnInv, NEW cause \in {"barge_in", "other"}, Interrupt(cause) PROVE TurnInv'
<1>1. /\ ctl.active /\ ctl.cause = "none" /\ ctl' = [ctl EXCEPT !.cause = cause, !.aborted = TRUE]
      /\ cp' = [pc |-> "wait", turn |-> loop.turn]
      /\ UNCHANGED <<turns, session, writes, fenced, faults, queue, loop, waitsFor, health, fin,
                     shutdown, receipt, reported, history>>
  BY DEF Interrupt, storeVars, loopVars, sayVars
<1>2. /\ ctl' \in Control /\ ctl'.active /\ ctl'.cause # "none" /\ ctl'.aborted
      /\ ctl'.delivered = ctl.delivered
  BY <1>1, ControlFacts DEF Control
<1>3. cp' \in CheckpointState /\ cp'.pc = "wait" /\ cp'.turn = loop.turn
  BY <1>1, LoopFields DEF CheckpointState
<1>4. /\ loop.turn # 0 /\ loop.turn = loop.seq /\ loop.pc \notin {"idle", "gate", "start", "think"}
      /\ writes[<<"checkpoint", loop.turn>>].wait = "none"
  BY <1>1 DEF TurnInv, Place, CheckpointTracked
<1>5. Place'
  BY <1>1, <1>2, <1>4 DEF TurnInv, Place, Ending
<1>6. Slots' /\ StartTracked'
  BY <1>1, SameSlots, StartSame DEF DeliveredKept, Delivered
<1>7. CheckpointTracked'
  <2>1. cp'.turn <= loop.seq
    BY <1>3, <1>4, LoopFields, TurnAssumption
  <2> QED
    BY <1>1, <1>2, <1>3, <1>4, <2>1 DEF TurnInv, CheckpointTracked
<1>8. /\ writes' \in [Slot -> Write] /\ waitsFor' \subseteq Slot /\ shutdown' \in BOOLEAN
      /\ fin' \in {"no", "closing", "write", "done"}
  BY <1>1 DEF TurnInv, TurnTypeOK
<1> QED
  BY <1>1, <1>2, <1>3, <1>5, <1>6, <1>7, <1>8, ControlFacts, Beside

LEMMA ShutdownKeeps == ASSUME TurnInv, Shutdown PROVE TurnInv'
<1>1. /\ shutdown' = TRUE /\ ctl' = AbortActive(ctl)
      /\ UNCHANGED <<turns, session, writes, fenced, faults, queue, loop, waitsFor, health, cp, fin,
                     receipt, reported, history>>
  BY DEF Shutdown, storeVars, loopVars, cpVars, sayVars
<1>2. Kept(ctl, ctl')
  BY <1>1, ControlFacts, AbortFacts
<1>3. Place'
  BY <1>1, <1>2 DEF TurnInv, Place, Ending, Kept
<1>4. Slots' /\ StartTracked' /\ CheckpointTracked'
  BY <1>1, <1>2, SameSlots, StartSame, CheckpointSame DEF DeliveredKept, Delivered
<1>5. /\ writes' \in [Slot -> Write] /\ waitsFor' \subseteq Slot /\ cp' \in CheckpointState
      /\ fin' \in {"no", "closing", "write", "done"} /\ shutdown' \in BOOLEAN
      /\ ctl' \in Control /\ ctl'.delivered = ctl.delivered
  BY <1>1, <1>2 DEF TurnInv, TurnTypeOK, Kept
<1> QED
  BY <1>1, <1>3, <1>4, <1>5, ControlFacts, Beside

\* A step of the end of the session.
LEMMA EndOfSessionMoves ==
    ASSUME TurnInv, Ending, fin' \in {"write", "done"},
           writes' \in [Slot -> Write], \A q \in Slot : q # SessionSlot => writes'[q] = writes[q],
           Slots', faults' \in 0 .. MaxFaults,
           UNCHANGED <<turns, session, fenced, queue, loop, waitsFor, ctl, health, cp, shutdown,
                       receipt, reported, history>>
    PROVE  TurnInv'
<1>1. /\ writes'[StartSlot] = writes[StartSlot]
      /\ \A t \in Turn : /\ writes'[<<"abandon", t>>] = writes[<<"abandon", t>>]
                         /\ writes'[<<"recover", t>>] = writes[<<"recover", t>>]
                         /\ writes'[<<"checkpoint", t>>] = writes[<<"checkpoint", t>>]
  BY SlotFacts DEF StartSlot, SessionSlot, TurnOps, Ends
<1>2. Place'
  BY DEF TurnInv, Place, Ending
<1>3. StartTracked' /\ CheckpointTracked'
  BY <1>1, StartSame, CheckpointSame, ControlFacts
<1>4. waitsFor' \subseteq Slot /\ cp' \in CheckpointState /\ shutdown' \in BOOLEAN
  BY DEF TurnInv, TurnTypeOK
<1> QED
  BY <1>1, <1>2, <1>3, <1>4, ControlFacts, Beside

LEMMA EndOfSessionKeeps == ASSUME TurnInv, EndOfSession PROVE TurnInv'
<1>1. /\ UNCHANGED <<turns, session, fenced, queue, loop, waitsFor, ctl, health, cp, shutdown,
                     receipt, reported, history>>
      /\ Ending
  BY DEF EndOfSession, CallClosed, SessionEndWritten, Ending, loopVars, sayVars
<1>2. SessionSlot \in Slot /\ SessionSlot[1] \notin TurnOps \cup {"status"}
  BY SlotFacts DEF TurnOps, Ends
<1>3. ASSUME writes' = Send(writes, SessionSlot, "failed"), fin' \in {"write", "done"},
             faults' \in 0 .. MaxFaults
      PROVE  TurnInv'
  <2>1. Sent(SessionSlot, "failed")
    BY <1>2, <1>3, SendSends DEF TurnInv, Terminal
  <2>2. Slots'
    BY <1>1, <1>2, <2>1, SentSlots DEF DeliveredKept, Delivered, TurnOps
  <2> QED
    BY <1>1, <1>3, <2>1, <2>2, EndOfSessionMoves DEF Sent
<1>4. CASE CallClosed
  BY <1>3, <1>4, ControlFacts DEF CallClosed
<1>5. CASE SessionEndWritten
  <2>1. PICK o \in Outcomes(SessionSlot) :
           /\ Charged(o)
           /\ \/ writes' = Send(writes, SessionSlot, "failed") /\ UNCHANGED fin
              \/ writes' = Told(SessionSlot, o, "dropped") /\ fin' = "done"
    BY <1>5 DEF SessionEndWritten
  <2>2. fin = "write"
    BY <1>5 DEF SessionEndWritten
  <2>3. faults' \in 0 .. MaxFaults
    <3>1. o \in {"unavailable", "timeout"} => faults > 0
      BY DEF Outcomes
    <3> QED
      BY <2>1, <3>1, ChargedFaults DEF TurnInv
  <2>4. CASE writes' = Send(writes, SessionSlot, "failed") /\ UNCHANGED fin
    BY <1>3, <2>2, <2>3, <2>4
  <2>5. CASE writes' = Told(SessionSlot, o, "dropped") /\ fin' = "done"
    <3>1. Answered(SessionSlot, o, "dropped")
      BY <1>2, <2>1, <2>5, ToldAnswers DEF TurnInv
    <3>2. Slots'
      BY <1>1, <1>2, <3>1, AnsweredSlots DEF DeliveredKept, Delivered
    <3> QED
      BY <1>1, <2>3, <2>5, <3>1, <3>2, EndOfSessionMoves DEF Answered
  <2> QED
    BY <2>1, <2>4, <2>5
<1> QED
  BY <1>4, <1>5 DEF EndOfSession

-----------------------------------------------------------------------------
(***************************************************************************)
(* The invariant.                                                          *)
(***************************************************************************)
LEMMA InitInv == ASSUME TurnInit PROVE TurnInv
<1>1. /\ loop.pc = "idle" /\ loop.turn = 0 /\ loop.seq = 0 /\ loop \in LoopState
      /\ ~ctl.active /\ ctl \in Control /\ cp.pc = "off" /\ cp \in CheckpointState
      /\ ~Degraded(health) /\ health \in Health
  BY TurnAssumption
  DEF TurnInit, LoopState, Control, NoControl, CheckpointState, Degraded, Health
<1>2. /\ \A s \in Slot : writes[s] = Free
      /\ \A t \in Turn : turns[t] = "absent" /\ receipt[t] = "none"
                         /\ reported[t] = "none" /\ history[t] = "none"
      /\ queue = MaxTurns /\ queue \in 0 .. MaxTurns /\ faults \in 0 .. MaxFaults
  BY TurnAssumption DEF TurnInit
<1>3. TurnTypeOK
  BY <1>1, <1>2, FreeIsWrite DEF TurnInit, TurnTypeOK, Receipt
<1>4. Present = {} /\ OpenTurns = {} /\ LastStarted = 0
  <2>1. Present = {} /\ OpenTurns = {}
    BY <1>2 DEF Present, OpenTurns, Open
  <2> QED
    BY <2>1, FS_EmptySet DEF LastStarted
<1>5. /\ writes[StartSlot] = Free
      /\ \A t \in Turn : writes[<<"abandon", t>>] = Free /\ writes[<<"checkpoint", t>>] = Free
  BY <1>2, SlotFacts DEF TurnOps, Ends
<1>6. Place
  BY <1>1 DEF Place, Answering
<1>7. Slots
  BY <1>2, FreeIsWrite DEF Slots, SlotOK
<1>8. StartTracked
  BY <1>1, <1>5, FreeIsWrite DEF StartTracked
<1>9. CheckpointTracked
  BY <1>1, <1>5, FreeIsWrite DEF CheckpointTracked
<1>10. InSequence
  BY <1>1, <1>2, <1>4, <1>5, FreeIsWrite, TurnAssumption DEF InSequence
<1>11. Receipts
  BY <1>1, <1>2 DEF Receipts, Answering
<1>12. NoTurnLeftBehind /\ ReportsWhatIsStored /\ CompletedWasDelivered
  BY <1>2, <1>4 DEF NoTurnLeftBehind, ReportsWhatIsStored, CompletedWasDelivered
<1> QED
  BY <1>3, <1>6, <1>7, <1>8, <1>9, <1>10, <1>11, <1>12 DEF TurnInv

LEMMA StutterKeeps == ASSUME TurnInv, UNCHANGED vars PROVE TurnInv'
<1>1. UNCHANGED <<turns, session, writes, fenced, faults, queue, loop, waitsFor, ctl, health, cp, fin,
                  shutdown, receipt, reported, history>>
  BY DEF vars, storeVars, loopVars, cpVars, sayVars
<1>2. Slots' /\ StartTracked' /\ CheckpointTracked'
  BY <1>1, SameSlots, StartSame, CheckpointSame, ControlFacts DEF DeliveredKept, Delivered
<1>3. Place'
  BY <1>1 DEF TurnInv, Place, Ending
<1>4. /\ writes' \in [Slot -> Write] /\ waitsFor' \subseteq Slot /\ cp' \in CheckpointState
      /\ fin' \in {"no", "closing", "write", "done"} /\ shutdown' \in BOOLEAN
  BY <1>1 DEF TurnInv, TurnTypeOK
<1> QED
  BY <1>1, <1>2, <1>3, <1>4, ControlFacts, Beside

LEMMA LoopKeeps == ASSUME TurnInv, Loop PROVE TurnInv'
  BY TurnChainRunsKeeps, GateClosedKeeps, StartTurnKeeps, TurnStartedKeeps, TurnActivatedKeeps,
     LlmEndsKeeps, CallingToolKeeps, ToolsRunKeeps, SpeakKeeps, SpeakingWrittenKeeps,
     PlaybackEndsKeeps, DeliverTextKeeps, TextDeliveredKeeps, TurnEndedKeeps, CaughtKeeps,
     FailWrittenKeeps, LateWritesSettledKeeps, InspectKeeps, RecoveryWrittenKeeps,
     RecoveryGivesUpKeeps, LoopEndsKeeps
  DEF Loop

LEMMA NextKeeps == ASSUME TurnInv, TurnNext PROVE TurnInv'
<1>1. CASE Store
  BY <1>1, CommitKeeps, LateSettlesKeeps, LateTurnAbandonedKeeps DEF Store
<1>2. CASE Loop
  BY <1>2, LoopKeeps
<1>3. CASE Checkpoint
  BY <1>3, CheckpointAttemptKeeps, CheckpointWrittenKeeps, LateCheckpointSettledKeeps,
     CheckpointGivesUpKeeps, CheckpointEndsKeeps
  DEF Checkpoint
<1>4. CASE EndOfSession
  BY <1>4, EndOfSessionKeeps
<1>5. CASE Environment
  BY <1>5, ShutdownKeeps, LeaseLostKeeps, InterruptKeeps, HostEndsSessionKeeps DEF Environment
<1> QED
  BY <1>1, <1>2, <1>3, <1>4, <1>5 DEF TurnNext

\* The inductive invariant: wherever the loop, the checkpoint and the end of the
\* session are, each write in flight is accounted for, and a write that completes a turn
\* is about one whose output was taken for delivered (pipeline-loop.ts).
THEOREM TurnInvariant == TurnSpec => []TurnInv
<1>1. TurnInit => TurnInv
  BY InitInv
<1>2. TurnInv /\ [TurnNext]_vars => TurnInv'
  BY NextKeeps, StutterKeeps
<1> QED
  BY <1>1, <1>2, PTL DEF TurnSpec

\* Store, loop and checkpoint stay within their types.
THEOREM TurnTypes == TurnSpec => []TurnTypeOK
<1>1. TurnInv => TurnTypeOK
  BY DEF TurnInv
<1> QED
  BY <1>1, TurnInvariant, PTL

\* What the loop reports and remembers of a turn is what the store holds.
THEOREM LoopTellsTheTruth == TurnSpec => []ReportsWhatIsStored
<1>1. TurnInv => ReportsWhatIsStored
  BY DEF TurnInv
<1> QED
  BY <1>1, TurnInvariant, PTL

\* A turn stands as completed only if its output was taken for delivered: its audio, its
\* text in time, or an answer with nothing to say.
THEOREM OnlyDeliveredCompletes == TurnSpec => []CompletedWasDelivered
<1>1. TurnInv => CompletedWasDelivered
  BY DEF TurnInv
<1> QED
  BY <1>1, TurnInvariant, PTL

\* Between two turns, and when a turn is asked for, no earlier turn is open, or the
\* session is being ended.
THEOREM TurnsAreSettled == TurnSpec => []NoTurnLeftBehind
<1>1. TurnInv => NoTurnLeftBehind
  BY DEF TurnInv
<1> QED
  BY <1>1, TurnInvariant, PTL

\* A turn never goes on talking, and none is started, while persistence is degraded.
THEOREM SilentWhileDegraded == TurnSpec => []DegradedIsSilent
<1>1. TurnInv => DegradedIsSilent
  BY DEF TurnInv, Place, DegradedIsSilent
<1> QED
  BY <1>1, TurnInvariant, PTL

-----------------------------------------------------------------------------
(***************************************************************************)
(* What a step may never do.                                               *)
(***************************************************************************)

\* Only the store and the host's end of the session change the record of a turn.
LEMMA LoopLeavesTurns ==
    ASSUME Loop \/ Checkpoint \/ EndOfSession \/ UNCHANGED vars PROVE turns' = turns
<1>1. CASE Loop
  BY <1>1
  DEF Loop, TurnChainRuns, GateClosed, StartTurn, TurnStarted, TurnActivated, LlmEnds, CallingTool,
      ToolsRun, Speak, SpeakingWritten, PlaybackEnds, DeliverText, TextDelivered, TurnEnded, Caught,
      FailWritten, LateWritesSettled, Inspect, RecoveryWritten, RecoveryGivesUp, LoopEnds, storeVars
<1>2. CASE Checkpoint
  BY <1>2
  DEF Checkpoint, CheckpointAttempt, CheckpointWritten, LateCheckpointSettled, CheckpointGivesUp,
      CheckpointEnds, storeVars
<1>3. CASE EndOfSession
  BY <1>3 DEF EndOfSession, CallClosed, SessionEndWritten
<1>4. CASE UNCHANGED vars
  BY <1>4 DEF vars, storeVars
<1> QED
  BY <1>1, <1>2, <1>3, <1>4

LEMMA CommitIsFinal ==
    ASSUME TurnInv, NEW s \in Slot, Commit(s), NEW t \in Turn, turns[t] \in Terminal
    PROVE  turns'[t] = turns[t]
<1>1. /\ writes[s].st = "sent" /\ SlotOK(s)
      /\ turns \in [Turn -> Open \cup Terminal \cup {"absent"}] /\ turns[t] # "absent"
      /\ turns[t] \notin Open
  BY DEF Commit, TurnInv, Slots, TurnTypeOK, Terminal, Open
<1>2. CASE turns' = [turns EXCEPT ![LastStarted + 1] = "started"]
  <2>1. t \in 1 .. LastStarted /\ LastStarted \in Nat
    BY <1>1, LastStartedNat DEF TurnInv, InSequence, Present
  <2>2. t # LastStarted + 1
    BY <2>1
  <2> QED
    BY <1>1, <1>2, <2>2
<1>3. CASE s[1] = "status" /\ turns' = [turns EXCEPT ![s[2]] = StatusAfter(s[2], writes[s].to)]
  <2>1. writes[s].to \in {"thinking", "calling_tool", "speaking"}
    BY <1>1, <1>3 DEF SlotOK
  <2>2. turns[t] \notin AllowedFrom(writes[s].to)
    BY <2>1 DEF AllowedFrom, Terminal
  <2> QED
    BY <1>1, <1>3, <2>2 DEF StatusAfter
<1>4. CASE \/ turns' = [turns EXCEPT ![s[2]] = EndAfter(s[2], writes[s].to)]
           \/ turns' = [turns EXCEPT ![s[2]] = CheckpointAfter(s[2])]
  BY <1>1, <1>4 DEF EndAfter, CheckpointAfter
<1>5. CASE turns' = TurnsEndedWith(writes[s].to) \/ turns' = turns
  BY <1>1, <1>5 DEF TurnsEndedWith
<1> QED
  BY <1>2, <1>3, <1>4, <1>5 DEF Commit

\* Neither a late write, a late checkpoint nor the end of the session changes the
\* status a turn has ended with (runtime-turns.ts).
THEOREM EndedTurnsStay == TurnSpec => TerminalIsFinal
<1>1. ASSUME TurnInv, [TurnNext]_vars
      PROVE  \A t \in Turn : turns[t] \in Terminal => turns'[t] = turns[t]
  <2> SUFFICES ASSUME NEW t \in Turn, turns[t] \in Terminal PROVE turns'[t] = turns[t]
    OBVIOUS
  <2>1. CASE Store
    BY <1>1, <2>1, CommitIsFinal DEF Store, LateSettles, LateTurnAbandoned
  <2>2. CASE Loop \/ Checkpoint \/ EndOfSession \/ UNCHANGED vars
    BY <2>2, LoopLeavesTurns
  <2>3. CASE Environment
    <3>1. CASE UNCHANGED turns
      BY <3>1
    <3>2. CASE \E to \in {"cancelled", "failed"} : turns' = TurnsEndedWith(to)
      BY <1>1, <3>2, EndedTurns
    <3> QED
      BY <2>3, <3>1, <3>2
      DEF Environment, Shutdown, LeaseLost, Interrupt, HostEndsSession, storeVars
  <2> QED
    BY <1>1, <2>1, <2>2, <2>3 DEF TurnNext
<1>2. TurnInv /\ [TurnNext]_vars
        => [\A t \in Turn : turns[t] \in Terminal => turns'[t] = turns[t]]_vars
  BY <1>1
<1> QED
  BY <1>2, TurnInvariant, PTL DEF TurnSpec, TerminalIsFinal

\* The slot of a checkpoint does not become awaited.
Unsent ==
    \A t \in Turn : writes'[<<"checkpoint", t>>].wait = "awaited" =>
                       writes[<<"checkpoint", t>>].wait = "awaited"

LEMMA PutUnsent ==
    ASSUME TurnInv, NEW s, NEW w, writes' = [writes EXCEPT ![s] = w],
           \/ \A t \in Turn : s # <<"checkpoint", t>>
           \/ w.wait # "awaited"
           \/ w.wait = writes[s].wait
    PROVE  Unsent
<1>1. \A t \in Turn : <<"checkpoint", t>> \in Slot
  BY SlotFacts DEF TurnOps
<1> QED
  BY <1>1 DEF TurnInv, TurnTypeOK, Unsent

LEMMA SendUnsent ==
    ASSUME TurnInv, NEW s, NEW to, writes' = Send(writes, s, to),
           \A t \in Turn : s # <<"checkpoint", t>>
    PROVE  Unsent
<1>1. PICK w : w = [to |-> to, st |-> "sent", wait |-> "awaited"]
  OBVIOUS
<1>2. writes' = [writes EXCEPT ![s] = w]
  BY <1>1 DEF Send
<1> QED
  BY <1>2, PutUnsent

LEMMA ToldUnsent ==
    ASSUME TurnInv, NEW s \in Slot, NEW o, NEW wait \in {"tracked", "dropped"},
           writes' = Told(s, o, wait)
    PROVE  Unsent
<1>1. PICK w : w = IF o = "timeout" THEN [writes[s] EXCEPT !.wait = wait] ELSE Free
  OBVIOUS
<1>2. writes' = [writes EXCEPT ![s] = w]
  BY <1>1 DEF Told
<1>3. writes[s] \in Write
  BY DEF TurnInv, TurnTypeOK
<1>4. w.wait # "awaited"
  <2>1. CASE o = "timeout"
    BY <1>1, <1>3, <2>1 DEF Write
  <2>2. CASE o # "timeout"
    BY <1>1, <2>2, FreeIsWrite
  <2> QED
    BY <2>1, <2>2
<1> QED
  BY <1>2, <1>4, PutUnsent

LEMMA DroppedUnsent ==
    ASSUME TurnInv, NEW s \in Slot, writes' = [writes EXCEPT ![s].wait = "dropped"]
    PROVE  Unsent
<1>1. PICK w : w = [writes[s] EXCEPT !.wait = "dropped"]
  OBVIOUS
<1>2. writes' = [writes EXCEPT ![s] = w]
  BY <1>1
<1>3. writes[s] \in Write
  BY DEF TurnInv, TurnTypeOK
<1>4. w.wait # "awaited"
  BY <1>1, <1>3 DEF Write
<1> QED
  BY <1>2, <1>4, PutUnsent

\* The slots of the loop's turn are none of a checkpoint's.
LEMMA MineFacts ==
    ASSUME TurnInv, loop.turn # 0, NEW op \in TurnOps
    PROVE  Mine(op) \in Slot /\ (op # "checkpoint" => \A t \in Turn : Mine(op) # <<"checkpoint", t>>)
  BY TurnHasStarted, SlotFacts DEF Mine

LEMMA AnswerUnsent ==
    ASSUME TurnInv, LlmEnds \/ CallingTool \/ ToolsRun \/ Speak \/ SpeakingWritten \/ PlaybackEnds
                    \/ DeliverText \/ TextDelivered \/ TurnEnded
    PROVE  Unsent
<1>1. loop.turn # 0
  BY DEF LlmEnds, CallingTool, ToolsRun, Speak, SpeakingWritten, PlaybackEnds, DeliverText,
         TextDelivered, TurnEnded, TurnInv, Place, Answering
<1>2. CASE UNCHANGED writes
  BY <1>2 DEF Unsent
<1>3. CASE \E op \in {"status", "end"} : \E to : writes' = Send(writes, Mine(op), to)
  BY <1>1, <1>3, MineFacts, SendUnsent DEF TurnOps, Ends
<1>4. CASE \E op \in {"status", "end"} : \E o : writes' = Told(Mine(op), o, "tracked")
  BY <1>1, <1>4, MineFacts, ToldUnsent DEF TurnOps, Ends
<1> QED
  BY <1>2, <1>3, <1>4
  DEF LlmEnds, CallingTool, ToolsRun, Speak, SpeakingWritten, PlaybackEnds, DeliverText,
      TextDelivered, TurnEnded, EndTurn, storeVars

LEMMA RecoveryUnsent ==
    ASSUME TurnInv, Caught \/ FailWritten \/ LateWritesSettled \/ Inspect \/ RecoveryWritten
                    \/ RecoveryGivesUp \/ LoopEnds
    PROVE  Unsent
<1>1. loop.pc \in {"caught", "failing", "recovering"} => loop.turn # 0
  BY DEF TurnInv, Place
<1>2. CASE UNCHANGED writes
  BY <1>2 DEF Unsent
<1>3. CASE loop.turn # 0 /\ writes' = Send(writes, Mine("fail"), "failed")
  BY <1>3, MineFacts, SendUnsent DEF TurnOps, Ends
<1>4. CASE \E t : writes' = Send(writes, <<"recover", t>>, "failed")
  BY <1>4, SendUnsent
<1>5. ASSUME loop.turn # 0, NEW op \in {"fail", "recover"}, NEW o, NEW wait \in {"tracked", "dropped"},
             writes' = Told(Mine(op), o, wait)
      PROVE  Unsent
  BY <1>5, MineFacts, ToldUnsent DEF TurnOps, Ends
<1>6. CASE loop.turn # 0 /\ writes' = [writes EXCEPT ![Mine("recover")].wait = "dropped"]
  BY <1>6, MineFacts, DroppedUnsent DEF TurnOps, Ends
<1>7. CASE Caught
  BY <1>1, <1>2, <1>3, <1>7 DEF Caught
<1>8. CASE FailWritten
  <2>1. PICK o \in Outcomes(Mine("fail")), wait \in {"tracked", "dropped"} :
           writes' = Told(Mine("fail"), o, wait)
    BY <1>8 DEF FailWritten
  <2>2. loop.turn # 0
    BY <1>1, <1>8 DEF FailWritten
  <2> QED
    BY <1>5, <2>1, <2>2
<1>9. CASE LateWritesSettled \/ LoopEnds
  BY <1>2, <1>9 DEF LateWritesSettled, LoopEnds, storeVars
<1>10. CASE Inspect
  BY <1>2, <1>4, <1>10 DEF Inspect
<1>11. CASE RecoveryWritten
  <2>1. PICK o \in Outcomes(Mine("recover")) : writes' = Told(Mine("recover"), o, "tracked")
    BY <1>11 DEF RecoveryWritten
  <2>2. loop.turn # 0
    BY <1>1, <1>11 DEF RecoveryWritten
  <2> QED
    BY <1>5, <2>1, <2>2
<1>12. CASE RecoveryGivesUp
  BY <1>1, <1>2, <1>6, <1>12 DEF RecoveryGivesUp
<1> QED
  BY <1>7, <1>8, <1>9, <1>10, <1>11, <1>12

LEMMA StartUnsent ==
    ASSUME TurnInv, TurnChainRuns \/ GateClosed \/ StartTurn \/ TurnStarted \/ TurnActivated
    PROVE  Unsent
<1>1. \A t \in Turn : StartSlot # <<"checkpoint", t>> /\ <<"checkpoint", t>> \in Slot
  BY SlotFacts DEF StartSlot, TurnOps
<1>2. CASE UNCHANGED writes
  BY <1>2 DEF Unsent
<1>3. CASE writes' = Send(writes, StartSlot, "started")
  BY <1>1, <1>3, SendUnsent
<1>4. CASE \E o : writes' = Told(StartSlot, o, "tracked")
  BY <1>4, SlotFacts, ToldUnsent
<1>5. CASE writes' = Send(Told(StartSlot, "ok", "tracked"), <<"status", LastStarted>>, "thinking")
  <2>1. PICK w : w = [to |-> "thinking", st |-> "sent", wait |-> "awaited"]
    OBVIOUS
  <2>2. writes' = [[writes EXCEPT ![StartSlot] = Free] EXCEPT ![<<"status", LastStarted>>] = w]
    BY <1>5, <2>1 DEF Send, Told
  <2>3. \A t \in Turn : writes'[<<"checkpoint", t>>] = writes[<<"checkpoint", t>>]
    BY <1>1, <2>2 DEF TurnInv, TurnTypeOK
  <2> QED
    BY <2>3 DEF Unsent
<1>6. CASE loop.turn # 0 /\ \E o : writes' = Told(Mine("status"), o, "tracked")
  BY <1>6, MineFacts, ToldUnsent DEF TurnOps
<1>7. CASE TurnChainRuns \/ GateClosed \/ StartTurn
  BY <1>2, <1>3, <1>7 DEF TurnChainRuns, GateClosed, StartTurn, storeVars
<1>8. CASE TurnStarted
  BY <1>4, <1>5, <1>8 DEF TurnStarted
<1>9. CASE TurnActivated
  BY <1>6, <1>9 DEF TurnActivated, TurnInv, Place
<1> QED
  BY <1>7, <1>8, <1>9

LEMMA StoreUnsent == ASSUME TurnInv, Store PROVE Unsent
<1>1. CASE \E s \in Slot : Commit(s)
  <2>1. PICK s \in Slot : Commit(s)
    BY <1>1
  <2>2. PICK a : writes' = [writes EXCEPT ![s].st = a]
    BY <2>1 DEF Commit
  <2>3. PICK w : w = [writes[s] EXCEPT !.st = a]
    OBVIOUS
  <2>4. w.wait = writes[s].wait
    BY <2>3 DEF TurnInv, TurnTypeOK, Write
  <2>5. writes' = [writes EXCEPT ![s] = w]
    BY <2>2, <2>3
  <2> QED
    BY <2>4, <2>5, PutUnsent
<1>2. CASE \E s \in Slot : LateSettles(s)
  <2>1. PICK s \in Slot : LateSettles(s)
    BY <1>2
  <2>2. CASE writes' = [writes EXCEPT ![s] = Free]
    BY <2>2, FreeIsWrite, PutUnsent
  <2>3. CASE s = StartSlot /\ writes' = Send([writes EXCEPT ![s].wait = "abandoning"],
                                             <<"abandon", LastStarted>>, "cancelled")
    <3>1. PICK w, a : /\ w = [writes[s] EXCEPT !.wait = "abandoning"]
                      /\ a = [to |-> "cancelled", st |-> "sent", wait |-> "awaited"]
      OBVIOUS
    <3>2. writes' = [[writes EXCEPT ![s] = w] EXCEPT ![<<"abandon", LastStarted>>] = a]
      BY <2>3, <3>1 DEF Send
    <3>3. \A t \in Turn : StartSlot # <<"checkpoint", t>> /\ <<"checkpoint", t>> \in Slot
      BY SlotFacts DEF StartSlot, TurnOps
    <3>4. \A t \in Turn : writes'[<<"checkpoint", t>>] = writes[<<"checkpoint", t>>]
      BY <2>3, <3>2, <3>3 DEF TurnInv, TurnTypeOK
    <3> QED
      BY <3>4 DEF Unsent
  <2> QED
    BY <2>1, <2>2, <2>3 DEF LateSettles
<1>3. CASE \E t \in Turn : LateTurnAbandoned(t)
  <2>0. PICK t \in Turn : LateTurnAbandoned(t)
    BY <1>3
  <2>1. PICK o : writes' = [Told(<<"abandon", t>>, o, "dropped") EXCEPT ![StartSlot] = Free]
    BY <2>0 DEF LateTurnAbandoned
  <2>2. PICK w : writes' = [[writes EXCEPT ![<<"abandon", t>>] = w] EXCEPT ![StartSlot] = Free]
    BY <2>1 DEF Told
  <2>3. \A u \in Turn : StartSlot # <<"checkpoint", u>> /\ <<"checkpoint", u>> \in Slot
    BY SlotFacts DEF StartSlot, TurnOps
  <2>4. \A u \in Turn : writes'[<<"checkpoint", u>>] = writes[<<"checkpoint", u>>]
    BY <2>2, <2>3 DEF TurnInv, TurnTypeOK
  <2> QED
    BY <2>4 DEF Unsent
<1> QED
  BY <1>1, <1>2, <1>3 DEF Store

LEMMA OthersUnsent ==
    ASSUME TurnInv, (Checkpoint /\ ~CheckpointAttempt) \/ EndOfSession \/ Environment \/ UNCHANGED vars
    PROVE  Unsent
<1>1. CASE UNCHANGED writes
  BY <1>1 DEF Unsent
<1>2. CASE cp.pc # "off" /\ \E o : writes' = Told(<<"checkpoint", cp.turn>>, o, "tracked")
  BY <1>2, CheckpointFields, ToldUnsent
<1>3. CASE cp.pc # "off" /\ writes' = [writes EXCEPT ![<<"checkpoint", cp.turn>>].wait = "dropped"]
  BY <1>3, CheckpointFields, DroppedUnsent
<1>4. CASE Checkpoint /\ ~CheckpointAttempt
  BY <1>1, <1>2, <1>3, <1>4
  DEF Checkpoint, CheckpointWritten, LateCheckpointSettled, CheckpointGivesUp, CheckpointEnds, storeVars
<1>5. CASE EndOfSession
  <2>1. CASE writes' = Send(writes, SessionSlot, "failed")
    <3>1. \A t \in Turn : SessionSlot # <<"checkpoint", t>>
      BY DEF SessionSlot
    <3> QED
      BY <2>1, <3>1, SendUnsent
  <2>2. CASE \E o : writes' = Told(SessionSlot, o, "dropped")
    BY <2>2, SlotFacts, ToldUnsent
  <2> QED
    BY <1>5, <2>1, <2>2 DEF EndOfSession, CallClosed, SessionEndWritten
<1>6. CASE Environment \/ UNCHANGED vars
  BY <1>1, <1>6
  DEF Environment, Shutdown, LeaseLost, Interrupt, HostEndsSession, storeVars, vars
<1> QED
  BY <1>4, <1>5, <1>6

\* A checkpoint that timed out is not sent again before it has settled
\* (persistence-policy.ts).
THEOREM NoSecondCheckpoint == TurnSpec => OneCheckpoint
<1>1. ASSUME TurnInv, [TurnNext]_vars
      PROVE  \A t \in Turn : writes[<<"checkpoint", t>>].wait \in {"tracked", "dropped"}
                               => writes'[<<"checkpoint", t>>].wait # "awaited"
  <2>1. CASE Unsent
    BY <2>1 DEF Unsent
  <2>2. CASE CheckpointAttempt
    <3>1. PICK w : writes' = [writes EXCEPT ![<<"checkpoint", cp.turn>>] = w]
      BY <2>2 DEF CheckpointAttempt, Send
    <3>2. cp.turn \in Turn /\ writes[<<"checkpoint", cp.turn>>].wait = "none"
      BY <1>1, <2>2, CheckpointFields DEF CheckpointAttempt, TurnInv, CheckpointTracked
    <3>3. \A t \in Turn : t # cp.turn => writes'[<<"checkpoint", t>>] = writes[<<"checkpoint", t>>]
      BY <1>1, <3>1, SlotFacts DEF TurnInv, TurnTypeOK, TurnOps
    <3> SUFFICES ASSUME NEW t \in Turn, writes[<<"checkpoint", t>>].wait \in {"tracked", "dropped"}
                 PROVE  writes'[<<"checkpoint", t>>].wait # "awaited"
      OBVIOUS
    <3> QED
      BY <3>2, <3>3
  <2>3. CASE Store
    BY <1>1, <2>1, <2>3, StoreUnsent
  <2>4. CASE Loop
    BY <1>1, <2>1, <2>4, AnswerUnsent, RecoveryUnsent, StartUnsent DEF Loop
  <2>5. CASE Checkpoint \/ EndOfSession \/ Environment \/ UNCHANGED vars
    BY <1>1, <2>1, <2>2, <2>5, OthersUnsent
  <2> QED
    BY <1>1, <2>3, <2>4, <2>5 DEF TurnNext
<1>2. TurnInv /\ [TurnNext]_vars
        => [\A t \in Turn : writes[<<"checkpoint", t>>].wait \in {"tracked", "dropped"}
                              => writes'[<<"checkpoint", t>>].wait # "awaited"]_vars
  BY <1>1
<1> QED
  BY <1>2, TurnInvariant, PTL DEF TurnSpec, OneCheckpoint

=============================================================================
