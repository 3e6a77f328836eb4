------------------------- MODULE ManagedAgentProofs -------------------------
(***************************************************************************)
(* Proofs about ManagedAgent, for any number of calls.                     *)
(***************************************************************************)
EXTENDS ManagedAgent, TLAPS

\* Before its finalization a record holds exactly what its start() has got to.  A start()
\* that could not describe its call has thrown and left the record listed.
Underway(r) ==
    /\ r.pc # "failing" /\ ~r.late /\ r.outcome # "ok"
    /\ r.state \notin {"finalizing", "settled"}
    /\ r.state \in {"deferred", "running"} <=> r.pc = "returned"
    /\ r.run = "going" => r.state = "running"
    /\ r.listed => r.pc \in {"runtime", "attach", "handle", "returned", "threw"}
    /\ r.pc \in {"runtime", "attach", "handle", "returned"} => r.listed
    /\ r.attached <=> r.pc \in {"handle", "returned"}
    /\ r.session = IF r.pc = "attach" THEN "opening" ELSE IF r.attached THEN "active" ELSE "none"
    /\ r.accepted => r.listed /\ r.pc # "handle"
    /\ r.pc = "returned" => r.accepted
    /\ r.handle = IF r.accepted THEN "open" ELSE IF r.pc = "handle" THEN "making" ELSE "none"

\* From its finalization on everything a record holds is being ended; what was still
\* being opened is waited for, and the record stays listed for it.
Finishing(r) ==
    /\ r.pc \in {"failing", "threw", "returned"} /\ r.run # "going"
    /\ r.state = IF r.final = "pending" THEN "finalizing" ELSE "settled"
    /\ r.listed \/ (r.final # "pending" /\ ~r.late)
    /\ r.session # "active" /\ r.handle # "open"
    /\ r.attached => r.session \in {"ending", "ended", "endFailed"}
    /\ ~r.attached /\ r.session \in {"opening", "ending"} => r.late
    /\ r.accepted => r.handle \in {"closing", "closed", "closeFailed"}
    /\ ~r.accepted /\ r.handle \in {"making", "closing"} => r.late
    /\ ~r.accepted /\ r.handle # "none" => r.attached
    /\ r.final \in {"ok", "failed"} => Barrier(r)
    /\ r.final = "ok" => /\ r.attached => r.session = "ended"
                         /\ r.accepted => r.handle = "closed"
    /\ r.outcome = "ok" => r.final = "ok"

RecordOK(r) == IF r.final = "none" THEN Underway(r) ELSE Finishing(r)

\* After stop() nobody can claim a call any more, and every run was told to end.
NothingClaimable(r) == r.state # "deferred" /\ (r.run = "going" => r.halt)

\* The phases of stop().
GateOK ==
    /\ lifecycle = "accepting" =>
          gate = "none" /\ rtStop = "none" /\ stopResult = "none" /\ ~stopLater
    /\ stopLater => stopResult = "timedOut"
    /\ gate \in {"runtime", "open"} /\ stopResult # "timedOut" => Drained
    /\ rtStop # "none" /\ stopResult # "timedOut" => Drained

AgentInv ==
    /\ AgentTypeOK /\ GateOK
    /\ \A c \in Call : RecordOK(rec[c])
    /\ lifecycle # "accepting" => \A c \in Call : NothingClaimable(rec[c])

-----------------------------------------------------------------------------
(***************************************************************************)
(* The operators on records.                                               *)
(***************************************************************************)

\* Assigning a value of its type to a field keeps a record within its type.
LEMMA FieldTypes ==
    ASSUME NEW r \in Record
    PROVE  /\ \A v \in {"idle", "preflight", "runtime", "attach", "handle", "failing", "threw",
                        "returned"} :
                 [r EXCEPT !.pc = v] \in Record
           /\ \A v \in {"created", "starting", "attached", "deferred", "running", "finalizing",
                        "settled"} :
                 [r EXCEPT !.state = v] \in Record
           /\ \A v \in {"none", "pending", "ok", "failed"} :
                 [r EXCEPT !.rt = v] \in Record
           /\ \A v \in {"none", "opening", "active", "ending", "ended", "endFailed"} :
                 [r EXCEPT !.session = v] \in Record
           /\ \A v \in {"none", "making", "open", "closing", "closed", "closeFailed"} :
                 [r EXCEPT !.handle = v] \in Record
           /\ \A v \in {"none", "going", "done"} :
                 [r EXCEPT !.run = v] \in Record
           /\ \A v \in {"none", "pending", "ok", "failed", "timedOut"} :
                 [r EXCEPT !.final = v] \in Record
           /\ \A v \in {"none", "ok", "failed"} :
                 [r EXCEPT !.outcome = v] \in Record
           /\ \A v \in BOOLEAN : /\ [r EXCEPT !.sig = v] \in Record
                                 /\ [r EXCEPT !.halt = v] \in Record
                                 /\ [r EXCEPT !.attached = v] \in Record
                                 /\ [r EXCEPT !.accepted = v] \in Record
                                 /\ [r EXCEPT !.stopping = v] \in Record
                                 /\ [r EXCEPT !.late = v] \in Record
                                 /\ [r EXCEPT !.listed = v] \in Record
<1>1. ASSUME NEW v \in {"idle", "preflight", "runtime", "attach", "handle", "failing", "threw",
                      "returned"}
      PROVE  [r EXCEPT !.pc = v] \in Record
  BY DEF Record
<1>2. ASSUME NEW v \in {"created", "starting", "attached", "deferred", "running", "finalizing",
                      "settled"}
      PROVE  [r EXCEPT !.state = v] \in Record
  BY DEF Record
<1>3. ASSUME NEW v \in {"none", "pending", "ok", "failed"}
      PROVE  [r EXCEPT !.rt = v] \in Record
  BY DEF Record
<1>4. ASSUME NEW v \in {"none", "opening", "active", "ending", "ended", "endFailed"}
      PROVE  [r EXCEPT !.session = v] \in Record
  BY DEF Record
<1>5. ASSUME NEW v \in {"none", "making", "open", "closing", "closed", "closeFailed"}
      PROVE  [r EXCEPT !.handle = v] \in Record
  BY DEF Record
<1>6. ASSUME NEW v \in {"none", "going", "done"}
      PROVE  [r EXCEPT !.run = v] \in Record
  BY DEF Record
<1>7. ASSUME NEW v \in {"none", "pending", "ok", "failed", "timedOut"}
      PROVE  [r EXCEPT !.final = v] \in Record
  BY DEF Record
<1>8. ASSUME NEW v \in {"none", "ok", "failed"}
      PROVE  [r EXCEPT !.outcome = v] \in Record
  BY DEF Record
<1>9. ASSUME NEW v \in BOOLEAN PROVE [r EXCEPT !.sig = v] \in Record
  BY DEF Record
<1>10. ASSUME NEW v \in BOOLEAN PROVE [r EXCEPT !.halt = v] \in Record
  BY DEF Record
<1>11. ASSUME NEW v \in BOOLEAN PROVE [r EXCEPT !.attached = v] \in Record
  BY DEF Record
<1>12. ASSUME NEW v \in BOOLEAN PROVE [r EXCEPT !.accepted = v] \in Record
  BY DEF Record
<1>13. ASSUME NEW v \in BOOLEAN PROVE [r EXCEPT !.stopping = v] \in Record
  BY DEF Record
<1>14. ASSUME NEW v \in BOOLEAN PROVE [r EXCEPT !.late = v] \in Record
  BY DEF Record
<1>15. ASSUME NEW v \in BOOLEAN PROVE [r EXCEPT !.listed = v] \in Record
  BY DEF Record
<1> QED
  BY <1>1, <1>2, <1>3, <1>4, <1>5, <1>6, <1>7, <1>8,
     <1>9, <1>10, <1>11, <1>12, <1>13, <1>14, <1>15

\* What a record is like when its finalization may begin.
Ready(r) ==
    /\ r.final = "none" /\ r.run # "going" /\ r.listed /\ r.outcome # "ok"
    /\ r.attached => r.session = "active"
    /\ ~r.attached => r.session = "none" \/ (r.session = "opening" /\ r.late)
    /\ r.accepted => r.handle = "open"
    /\ ~r.accepted => r.handle = "none" \/ (r.handle = "making" /\ r.late /\ r.attached)

\* Nothing begins when r becomes n.
Quiet(r, n) ==
    /\ n.listed => r.listed
    /\ n.pc = "returned" => r.pc = "returned"
    /\ n.run = "going" => r.run = "going"
    /\ NothingClaimable(n)

\* Beginning the finalization leaves nothing open that is not waited for.
LEMMA FinalizeFinishes ==
    ASSUME NEW r \in Record, Ready(r), r.pc \in {"failing", "returned"},
           NEW n, n = Finalize(r)
    PROVE  /\ n \in Record /\ n.final = "pending" /\ Finishing(n)
           /\ n.pc = r.pc /\ n.run = r.run /\ n.listed
<1>1. n = [r EXCEPT !.state = "finalizing", !.final = "pending",
                   !.sig = FALSE, !.halt = FALSE, !.rt = "none",
                   !.handle = IF r.accepted THEN "closing" ELSE r.handle,
                   !.session = IF r.attached THEN "ending" ELSE r.session]
  BY DEF Finalize, Ready
<1>2. /\ n.state = "finalizing" /\ n.final = "pending" /\ n.pc = r.pc /\ n.run = r.run
      /\ n.listed = r.listed /\ n.attached = r.attached /\ n.accepted = r.accepted
      /\ n.late = r.late /\ n.outcome = r.outcome
      /\ n.handle = IF r.accepted THEN "closing" ELSE r.handle
      /\ n.session = IF r.attached THEN "ending" ELSE r.session
  BY <1>1 DEF Record
<1>3. n \in Record
  <2>1. PICK h \in {"none", "making", "open", "closing", "closed", "closeFailed"} :
           h = IF r.accepted THEN "closing" ELSE r.handle
    BY DEF Record
  <2>2. PICK s \in {"none", "opening", "active", "ending", "ended", "endFailed"} :
           s = IF r.attached THEN "ending" ELSE r.session
    BY DEF Record
  <2>3. PICK a : a = [r EXCEPT !.state = "finalizing", !.final = "pending",
                             !.sig = FALSE, !.halt = FALSE, !.rt = "none"]
    OBVIOUS
  <2>4. n = [a EXCEPT !.handle = h, !.session = s]
    BY <1>1, <2>1, <2>2, <2>3, Zenon
  <2>5. a \in Record
    BY <2>3, FieldTypes, Zenon
  <2>6. [a EXCEPT !.handle = h] \in Record
    BY <2>5, FieldTypes, Zenon
  <2>7. [[a EXCEPT !.handle = h] EXCEPT !.session = s] \in Record
    BY <2>6, FieldTypes, Zenon
  <2> QED
    BY <2>4, <2>7, Zenon
<1>4. Finishing(n)
  BY <1>2 DEF Finishing, Ready, Record, Barrier
<1> QED
  BY <1>2, <1>3, <1>4 DEF Ready

\* Forgetting a record changes nothing else, and happens to records that hold nothing.
LEMMA ResolvedFinishes ==
    ASSUME NEW r \in Record, r.final # "none", Finishing(r), NEW n, n = Resolved(r)
    PROVE  /\ n \in Record /\ n.final = r.final /\ Finishing(n)
           /\ n.pc = r.pc /\ n.run = r.run /\ (n.listed => r.listed)
<1>1. CASE r.state = "settled" /\ ~r.late
  <2>1. n = [r EXCEPT !.listed = FALSE]
    BY <1>1 DEF Resolved
  <2>2. n \in Record
    BY <2>1, FieldTypes, Zenon
  <2>3. /\ n.state = r.state /\ n.final = r.final /\ n.pc = r.pc /\ n.run = r.run
        /\ n.attached = r.attached /\ n.accepted = r.accepted /\ n.late = r.late
        /\ n.outcome = r.outcome /\ n.handle = r.handle /\ n.session = r.session
        /\ n.listed = FALSE
    BY <2>1 DEF Record
  <2>4. Finishing(n)
    BY <1>1, <2>3 DEF Finishing, Barrier, Record
  <2> QED
    BY <2>2, <2>3, <2>4
<1>2. CASE ~(r.state = "settled" /\ ~r.late)
  BY <1>2 DEF Resolved
<1> QED
  BY <1>1, <1>2

\* Reporting the outcome of a call changes nothing else.
LEMMA ToldFacts ==
    ASSUME NEW r \in Record, NEW result \in {"ok", "failed"}, NEW n, n = Told(r, result)
    PROVE  /\ n \in Record
           /\ n.outcome = (IF r.outcome = "none" THEN result ELSE r.outcome)
           /\ n.state = r.state /\ n.final = r.final /\ n.pc = r.pc /\ n.run = r.run
           /\ n.attached = r.attached /\ n.accepted = r.accepted /\ n.late = r.late
           /\ n.handle = r.handle /\ n.session = r.session /\ n.listed = r.listed
           /\ n.halt = r.halt
<1>1. n = [r EXCEPT !.outcome = IF r.outcome = "none" THEN result ELSE r.outcome,
                   !.stopping = FALSE]
  BY DEF Told
<1>2. PICK o \in {"none", "ok", "failed"} :
         o = IF r.outcome = "none" THEN result ELSE r.outcome
  BY DEF Record
<1>3. n \in Record
  <2>1. n = [r EXCEPT !.outcome = o, !.stopping = FALSE]
    BY <1>1, <1>2, Zenon
  <2> QED
    BY <2>1, FieldTypes, Zenon
<1> QED
  BY <1>1, <1>3 DEF Record

\* A finalization that settles reports success only of what has really ended.
LEMMA SettledFinishes ==
    ASSUME NEW r \in Record, Finishing(r), r.final = "pending",
           NEW result \in {"ok", "failed", "timedOut"},
           result # "timedOut" => Barrier(r),
           result = "ok" => /\ r.attached => r.session = "ended"
                            /\ r.accepted => r.handle = "closed",
           NEW n, n = Settled(r, result)
    PROVE  /\ n \in Record /\ n.final = result /\ Finishing(n)
           /\ n.run = r.run /\ (n.pc = "returned" => r.pc = "returned")
           /\ (n.listed => r.listed)
<1>1. PICK o \in {"ok", "failed"} : o = IF result = "ok" THEN "ok" ELSE "failed"
  OBVIOUS
<1>2. PICK t : t = Told(r, o)
  OBVIOUS
<1>3. PICK p : p = IF t.pc = "failing" THEN "threw" ELSE t.pc
  OBVIOUS
<1>4. PICK m : m = [t EXCEPT !.final = result, !.state = "settled", !.pc = p]
  OBVIOUS
<1>5. n = Resolved(m)
  BY <1>1, <1>2, <1>3, <1>4, Zenon DEF Settled
<1>6. /\ t \in Record /\ t.outcome = (IF r.outcome = "none" THEN o ELSE r.outcome)
      /\ t.pc = r.pc /\ t.run = r.run
      /\ t.attached = r.attached /\ t.accepted = r.accepted /\ t.late = r.late
      /\ t.handle = r.handle /\ t.session = r.session /\ t.listed = r.listed
  BY <1>2, ToldFacts
<1>7. p \in {"idle", "preflight", "runtime", "attach", "handle", "failing", "threw", "returned"}
  BY <1>3, <1>6 DEF Record
<1>8. m \in Record
  BY <1>4, <1>6, <1>7, FieldTypes, Zenon
<1>9. /\ m.final = result /\ m.state = "settled" /\ m.pc = p /\ m.outcome = t.outcome
      /\ m.run = t.run /\ m.attached = t.attached /\ m.accepted = t.accepted
      /\ m.late = t.late /\ m.handle = t.handle /\ m.session = t.session
      /\ m.listed = t.listed
  BY <1>4, <1>6 DEF Record
<1>10. r.outcome # "ok" /\ r.pc \in {"failing", "threw", "returned"} /\ r.run # "going"
  BY DEF Finishing
<1>11. Finishing(m)
  BY <1>1, <1>3, <1>6, <1>9, <1>10 DEF Finishing, Barrier, Record
<1> QED
  BY <1>3, <1>5, <1>6, <1>8, <1>9, <1>11, ResolvedFinishes

-----------------------------------------------------------------------------
(***************************************************************************)
(* The steps of one call.                                                  *)
(***************************************************************************)

\* Only the record of the call changes, into one that is all right; once stop() was
\* called nothing begins with it.
Moves(c) ==
    /\ rec' = [rec EXCEPT ![c] = rec'[c]]
    /\ rec'[c] \in Record /\ RecordOK(rec'[c])
    /\ lifecycle # "accepting" => Quiet(rec[c], rec'[c])

LEMMA PutMoves ==
    ASSUME AgentInv, NEW c \in Call, NEW n \in Record, Put(c, n), RecordOK(n),
           lifecycle # "accepting" => Quiet(rec[c], n)
    PROVE  Moves(c)
<1>1. rec' = [rec EXCEPT ![c] = n] /\ rec'[c] = n
  BY DEF AgentInv, AgentTypeOK, Put
<1> QED
  BY <1>1 DEF Moves

\* A call whose finalization begins, from the record m its step has made.
LEMMA FinalizeMoves ==
    ASSUME AgentInv, NEW c \in Call, NEW m \in Record, Ready(m), Put(c, Finalize(m)),
           rec[c].listed,
           m.pc = "failing" \/ (m.pc = "returned" /\ rec[c].pc = "returned")
    PROVE  Moves(c)
<1>1. PICK n : n = Finalize(m)
  OBVIOUS
<1>2. /\ n \in Record /\ n.final = "pending" /\ Finishing(n)
      /\ n.pc = m.pc /\ n.run = m.run /\ n.listed
  BY <1>1, FinalizeFinishes
<1>3. Put(c, n)
  BY <1>1
<1>4. RecordOK(n) /\ Quiet(rec[c], n)
  BY <1>2 DEF RecordOK, Quiet, NothingClaimable, Finishing, Ready
<1> QED
  BY <1>2, <1>3, <1>4, PutMoves

\* A call whose finalization had begun before and goes on.
LEMMA FinishingMoves ==
    ASSUME AgentInv, NEW c \in Call, NEW n \in Record, Put(c, n),
           n.final # "none", Finishing(n), n.listed => rec[c].listed,
           n.pc = "returned" => rec[c].pc = "returned"
    PROVE  Moves(c)
<1>1. RecordOK(n) /\ Quiet(rec[c], n)
  BY DEF RecordOK, Quiet, NothingClaimable, Finishing
<1> QED
  BY <1>1, PutMoves

\* The finalization and the late cleanups.
LEMMA FinalizationMoves ==
    ASSUME AgentInv, NEW c \in Call,
           \/ FinalizationSettles(c) \/ FinalizationTimesOut(c)
           \/ SessionEnds(c) \/ HandleCloses(c) \/ LateAttachment(c) \/ LateHandle(c)
    PROVE  Moves(c)
<1> PICK r : r = rec[c]
  OBVIOUS
<1>1. r \in Record /\ RecordOK(r)
  BY DEF AgentInv, AgentTypeOK
<1>2. CASE FinalizationSettles(c)
  <2>1. PICK result \in {"ok", "failed"} :
           /\ result = IF \/ r.attached /\ r.session = "endFailed"
                          \/ r.accepted /\ r.handle = "closeFailed"
                       THEN "failed" ELSE "ok"
           /\ r.final = "pending" /\ Barrier(r) /\ Put(c, Settled(r, result))
    BY <1>2 DEF FinalizationSettles
  <2>2. Finishing(r)
    BY <1>1, <2>1 DEF RecordOK
  <2>3. result = "ok" => /\ r.attached => r.session = "ended"
                         /\ r.accepted => r.handle = "closed"
    BY <1>1, <2>1, <2>2 DEF Finishing, Barrier, Record
  <2>4. PICK n : n = Settled(r, result)
    OBVIOUS
  <2>5. /\ n \in Record /\ n.final = result /\ Finishing(n)
        /\ (n.pc = "returned" => r.pc = "returned") /\ (n.listed => r.listed)
    BY <1>1, <2>1, <2>2, <2>3, <2>4, SettledFinishes
  <2> QED
    BY <2>1, <2>4, <2>5, FinishingMoves
<1>3. CASE FinalizationTimesOut(c)
  <2>1. r.final = "pending" /\ Put(c, Settled(r, "timedOut"))
    BY <1>3 DEF FinalizationTimesOut
  <2>2. Finishing(r)
    BY <1>1, <2>1 DEF RecordOK
  <2>3. PICK n : n = Settled(r, "timedOut")
    OBVIOUS
  <2>4. /\ n \in Record /\ n.final = "timedOut" /\ Finishing(n)
        /\ (n.pc = "returned" => r.pc = "returned") /\ (n.listed => r.listed)
    BY <1>1, <2>1, <2>2, <2>3, SettledFinishes
  <2> QED
    BY <2>1, <2>3, <2>4, FinishingMoves
<1>4. CASE SessionEnds(c)
  <2>1. PICK s \in {"ended", "endFailed"} :
           Put(c, AfterLate([r EXCEPT !.session = s], ~r.attached))
    BY <1>4 DEF SessionEnds
  <2>2. r.final # "none" /\ Finishing(r) /\ r.session = "ending"
    BY <1>1, <1>4 DEF SessionEnds, RecordOK, Underway, Record
  <2>3. PICK m : m = [r EXCEPT !.session = s]
    OBVIOUS
  <2>4. m \in Record
    BY <1>1, <2>3, FieldTypes, Zenon
  <2>5. /\ m.session = s
        /\ m.state = r.state /\ m.final = r.final /\ m.pc = r.pc /\ m.run = r.run
        /\ m.attached = r.attached /\ m.accepted = r.accepted /\ m.late = r.late
        /\ m.outcome = r.outcome /\ m.handle = r.handle /\ m.listed = r.listed
    BY <1>1, <2>3 DEF Record
  <2>6. CASE r.attached
    <3>1. Put(c, m)
      BY <2>1, <2>3, <2>6 DEF AfterLate
    <3>2. Finishing(m)
      BY <1>1, <2>2, <2>5, <2>6 DEF Finishing, Barrier, Record
    <3> QED
      BY <2>2, <2>4, <2>5, <3>1, <3>2, FinishingMoves
  <2>7. CASE ~r.attached
    <3>1. PICK k : k = [m EXCEPT !.late = FALSE]
      OBVIOUS
    <3>2. Put(c, Resolved(k))
      BY <2>1, <2>3, <2>7, <3>1 DEF AfterLate
    <3>3. k \in Record
      BY <2>4, <3>1, FieldTypes, Zenon
    <3>4. /\ k.session = s /\ k.late = FALSE
          /\ k.state = r.state /\ k.final = r.final /\ k.pc = r.pc /\ k.run = r.run
          /\ k.attached = r.attached /\ k.accepted = r.accepted
          /\ k.outcome = r.outcome /\ k.handle = r.handle /\ k.listed = r.listed
      BY <2>4, <2>5, <3>1 DEF Record
    <3>5. Finishing(k)
      BY <1>1, <2>2, <2>7, <3>4 DEF Finishing, Barrier, Record
    <3>6. PICK n : n = Resolved(k)
      OBVIOUS
    <3>7. /\ n \in Record /\ n.final = k.final /\ Finishing(n)
          /\ n.pc = k.pc /\ (n.listed => k.listed)
      BY <2>2, <3>3, <3>4, <3>5, <3>6, ResolvedFinishes
    <3> QED
      BY <2>2, <3>2, <3>4, <3>6, <3>7, FinishingMoves
  <2> QED
    BY <2>6, <2>7
<1>5. CASE HandleCloses(c)
  <2>1. PICK h \in {"closed", "closeFailed"} :
           Put(c, AfterLate([r EXCEPT !.handle = h], ~r.accepted))
    BY <1>5 DEF HandleCloses
  <2>2. r.final # "none" /\ Finishing(r) /\ r.handle = "closing"
    BY <1>1, <1>5 DEF HandleCloses, RecordOK, Underway, Record
  <2>3. PICK m : m = [r EXCEPT !.handle = h]
    OBVIOUS
  <2>4. m \in Record
    BY <1>1, <2>3, FieldTypes, Zenon
  <2>5. /\ m.handle = h
        /\ m.state = r.state /\ m.final = r.final /\ m.pc = r.pc /\ m.run = r.run
        /\ m.attached = r.attached /\ m.accepted = r.accepted /\ m.late = r.late
        /\ m.outcome = r.outcome /\ m.session = r.session /\ m.listed = r.listed
    BY <1>1, <2>3 DEF Record
  <2>6. CASE r.accepted
    <3>1. Put(c, m)
      BY <2>1, <2>3, <2>6 DEF AfterLate
    <3>2. Finishing(m)
      BY <1>1, <2>2, <2>5, <2>6 DEF Finishing, Barrier, Record
    <3> QED
      BY <2>2, <2>4, <2>5, <3>1, <3>2, FinishingMoves
  <2>7. CASE ~r.accepted
    <3>1. PICK k : k = [m EXCEPT !.late = FALSE]
      OBVIOUS
    <3>2. Put(c, Resolved(k))
      BY <2>1, <2>3, <2>7, <3>1 DEF AfterLate
    <3>3. k \in Record
      BY <2>4, <3>1, FieldTypes, Zenon
    <3>4. /\ k.handle = h /\ k.late = FALSE
          /\ k.state = r.state /\ k.final = r.final /\ k.pc = r.pc /\ k.run = r.run
          /\ k.attached = r.attached /\ k.accepted = r.accepted
          /\ k.outcome = r.outcome /\ k.session = r.session /\ k.listed = r.listed
      BY <2>4, <2>5, <3>1 DEF Record
    <3>5. Finishing(k)
      BY <1>1, <2>2, <2>7, <3>4 DEF Finishing, Barrier, Record
    <3>6. PICK n : n = Resolved(k)
      OBVIOUS
    <3>7. /\ n \in Record /\ n.final = k.final /\ Finishing(n)
          /\ n.pc = k.pc /\ (n.listed => k.listed)
      BY <2>2, <3>3, <3>4, <3>5, <3>6, ResolvedFinishes
    <3> QED
      BY <2>2, <3>2, <3>4, <3>6, <3>7, FinishingMoves
  <2> QED
    BY <2>6, <2>7
<1>6. CASE LateAttachment(c)
  <2>1. r.final # "none" /\ Finishing(r) /\ r.late /\ r.session = "opening"
    BY <1>1, <1>6 DEF LateAttachment, RecordOK, Underway
  <2>2. CASE Put(c, [r EXCEPT !.session = "ending"])
    <3>1. PICK m : m = [r EXCEPT !.session = "ending"]
      OBVIOUS
    <3>2. m \in Record
      BY <1>1, <3>1, FieldTypes, Zenon
    <3>3. /\ m.session = "ending"
          /\ m.state = r.state /\ m.final = r.final /\ m.pc = r.pc /\ m.run = r.run
          /\ m.attached = r.attached /\ m.accepted = r.accepted /\ m.late = r.late
          /\ m.outcome = r.outcome /\ m.handle = r.handle /\ m.listed = r.listed
      BY <1>1, <3>1 DEF Record
    <3>4. Finishing(m)
      BY <1>1, <2>1, <3>3 DEF Finishing, Barrier, Record
    <3> QED
      BY <2>1, <2>2, <3>1, <3>2, <3>3, <3>4, FinishingMoves
  <2>3. CASE Put(c, AfterLate([r EXCEPT !.session = "none"], TRUE))
    <3>1. PICK k : k = [r EXCEPT !.session = "none", !.late = FALSE]
      OBVIOUS
    <3>2. Put(c, Resolved(k))
      BY <2>3, <3>1 DEF AfterLate
    <3>3. k \in Record
      BY <1>1, <3>1, FieldTypes, Zenon
    <3>4. /\ k.session = "none" /\ k.late = FALSE
          /\ k.state = r.state /\ k.final = r.final /\ k.pc = r.pc /\ k.run = r.run
          /\ k.attached = r.attached /\ k.accepted = r.accepted
          /\ k.outcome = r.outcome /\ k.handle = r.handle /\ k.listed = r.listed
      BY <1>1, <3>1 DEF Record
    <3>5. Finishing(k)
      BY <1>1, <2>1, <3>4 DEF Finishing, Barrier, Record
    <3>6. PICK n : n = Resolved(k)
      OBVIOUS
    <3>7. /\ n \in Record /\ n.final = k.final /\ Finishing(n)
          /\ n.pc = k.pc /\ (n.listed => k.listed)
      BY <2>1, <3>3, <3>4, <3>5, <3>6, ResolvedFinishes
    <3> QED
      BY <2>1, <3>2, <3>4, <3>6, <3>7, FinishingMoves
  <2> QED
    BY <1>6, <2>2, <2>3 DEF LateAttachment
<1>7. CASE LateHandle(c)
  <2>1. r.final # "none" /\ Finishing(r) /\ r.late /\ r.handle = "making"
    BY <1>1, <1>7 DEF LateHandle, RecordOK, Underway
  <2>2. CASE Put(c, [r EXCEPT !.handle = "closing"])
    <3>1. PICK m : m = [r EXCEPT !.handle = "closing"]
      OBVIOUS
    <3>2. m \in Record
      BY <1>1, <3>1, FieldTypes, Zenon
    <3>3. /\ m.handle = "closing"
          /\ m.state = r.state /\ m.final = r.final /\ m.pc = r.pc /\ m.run = r.run
          /\ m.attached = r.attached /\ m.accepted = r.accepted /\ m.late = r.late
          /\ m.outcome = r.outcome /\ m.session = r.session /\ m.listed = r.listed
      BY <1>1, <3>1 DEF Record
    <3>4. Finishing(m)
      BY <1>1, <2>1, <3>3 DEF Finishing, Barrier, Record
    <3> QED
      BY <2>1, <2>2, <3>1, <3>2, <3>3, <3>4, FinishingMoves
  <2>3. CASE Put(c, AfterLate([r EXCEPT !.handle = "none"], TRUE))
    <3>1. PICK k : k = [r EXCEPT !.handle = "none", !.late = FALSE]
      OBVIOUS
    <3>2. Put(c, Resolved(k))
      BY <2>3, <3>1 DEF AfterLate
    <3>3. k \in Record
      BY <1>1, <3>1, FieldTypes, Zenon
    <3>4. /\ k.handle = "none" /\ k.late = FALSE
          /\ k.state = r.state /\ k.final = r.final /\ k.pc = r.pc /\ k.run = r.run
          /\ k.attached = r.attached /\ k.accepted = r.accepted
          /\ k.outcome = r.outcome /\ k.session = r.session /\ k.listed = r.listed
      BY <1>1, <3>1 DEF Record
    <3>5. Finishing(k)
      BY <1>1, <2>1, <3>4 DEF Finishing, Barrier, Record
    <3>6. PICK n : n = Resolved(k)
      OBVIOUS
    <3>7. /\ n \in Record /\ n.final = k.final /\ Finishing(n)
          /\ n.pc = k.pc /\ (n.listed => k.listed)
      BY <2>1, <3>3, <3>4, <3>5, <3>6, ResolvedFinishes
    <3> QED
      BY <2>1, <3>2, <3>4, <3>6, <3>7, FinishingMoves
  <2> QED
    BY <1>7, <2>2, <2>3 DEF LateHandle
<1> QED
  BY <1>2, <1>3, <1>4, <1>5, <1>6, <1>7

\* A start that fails, with what it had got to in m.
LEMMA FailedMoves ==
    ASSUME AgentInv, NEW c \in Call, NEW m \in Record, Ready(m), Put(c, Failed(m)),
           rec[c].listed
    PROVE  Moves(c)
<1>1. PICK k : k = [m EXCEPT !.pc = "failing"]
  OBVIOUS
<1>2. Put(c, Finalize(k))
  BY <1>1 DEF Failed
<1>3. k \in Record
  BY <1>1, FieldTypes, Zenon
<1>4. k.pc = "failing" /\ Ready(k)
  BY <1>1 DEF Ready, Record
<1> QED
  BY <1>2, <1>3, <1>4, FinalizeMoves

\* The fields the invariant speaks of are the same, but for halt, which may be set, and for
\* a failure reported.
Alike(r, n) ==
    /\ n.state = r.state /\ n.final = r.final /\ n.pc = r.pc /\ n.run = r.run
    /\ n.attached = r.attached /\ n.accepted = r.accepted /\ n.late = r.late
    /\ n.handle = r.handle /\ n.session = r.session /\ n.listed = r.listed
    /\ n.outcome = "ok" => r.outcome = "ok"
    /\ r.halt => n.halt

LEMMA AlikeOK ==
    ASSUME NEW r \in Record, NEW n \in Record, Alike(r, n), RecordOK(r)
    PROVE  RecordOK(n) /\ (NothingClaimable(r) => Quiet(r, n))
<1>1. RecordOK(n)
  <2>1. CASE r.final = "none"
    BY <2>1 DEF RecordOK, Underway, Alike, Record
  <2>2. CASE r.final # "none"
    BY <2>2 DEF RecordOK, Finishing, Barrier, Alike, Record
  <2> QED
    BY <2>1, <2>2
<1>2. NothingClaimable(r) => Quiet(r, n)
  BY DEF Quiet, NothingClaimable, Alike, Record
<1> QED
  BY <1>1, <1>2

LEMMA AlikeMoves ==
    ASSUME AgentInv, NEW c \in Call, NEW n \in Record, Put(c, n), Alike(rec[c], n)
    PROVE  Moves(c)
<1>1. rec[c] \in Record /\ RecordOK(rec[c])
  BY DEF AgentInv, AgentTypeOK
<1>2. lifecycle # "accepting" => NothingClaimable(rec[c])
  BY DEF AgentInv
<1> QED
  BY <1>1, <1>2, AlikeOK, PutMoves

\* A session nobody has claimed is complete, and can be finalized as it is.
LEMMA DeferredReady ==
    ASSUME NEW r \in Record, RecordOK(r), r.state = "deferred", NEW m \in Record, Alike(r, m)
    PROVE  Ready(m) /\ m.pc = "returned" /\ m.state = "deferred" /\ r.listed
  BY DEF RecordOK, Underway, Finishing, Ready, Alike, Record

-----------------------------------------------------------------------------

\* The steps of start().
LEMMA StartMoves ==
    ASSUME AgentInv, NEW c \in Call,
           \/ Start(c) \/ PreflightFails(c) \/ PreflightAborted(c) \/ PreflightDone(c)
           \/ SnapshotThrows(c) \/ RuntimeReady(c)
           \/ Attached(c) \/ AttachFails(c) \/ HandleMade(c) \/ FactoryFails(c)
           \/ StartupAborted(c) \/ StartupTimesOut(c)
    PROVE  Moves(c)
<1> PICK r : r = rec[c]
  OBVIOUS
<1>1. r \in Record /\ RecordOK(r) /\ (lifecycle # "accepting" => NothingClaimable(r))
  BY DEF AgentInv, AgentTypeOK
<1>2. r.pc \in {"idle", "preflight", "runtime", "attach", "handle"} => Underway(r) /\ r.final = "none"
  BY <1>1 DEF RecordOK, Finishing
<1>3. CASE Start(c)
  <2>1. PICK n : n = [r EXCEPT !.pc = "preflight"]
    OBVIOUS
  <2>2. r.pc = "idle" /\ lifecycle = "accepting" /\ Put(c, n)
    BY <1>3, <2>1 DEF Start
  <2>3. n \in Record
    BY <1>1, <2>1, FieldTypes, Zenon
  <2>4. /\ n.pc = "preflight"
        /\ n.state = r.state /\ n.final = r.final /\ n.run = r.run
        /\ n.attached = r.attached /\ n.accepted = r.accepted /\ n.late = r.late
        /\ n.handle = r.handle /\ n.session = r.session /\ n.listed = r.listed
        /\ n.outcome = r.outcome
    BY <1>1, <2>1 DEF Record
  <2>5. RecordOK(n)
    BY <1>1, <1>2, <2>2, <2>4 DEF RecordOK, Underway, Record
  <2> QED
    BY <2>2, <2>3, <2>5, PutMoves
<1>4. CASE PreflightFails(c) \/ PreflightAborted(c)
  <2>1. PICK n : n = [r EXCEPT !.pc = "threw"]
    OBVIOUS
  <2>2. r.pc = "preflight" /\ Put(c, n)
    BY <1>4, <2>1 DEF PreflightFails, PreflightAborted
  <2>3. n \in Record
    BY <1>1, <2>1, FieldTypes, Zenon
  <2>4. /\ n.pc = "threw" /\ n.halt = r.halt
        /\ n.state = r.state /\ n.final = r.final /\ n.run = r.run
        /\ n.attached = r.attached /\ n.accepted = r.accepted /\ n.late = r.late
        /\ n.handle = r.handle /\ n.session = r.session /\ n.listed = r.listed
        /\ n.outcome = r.outcome
    BY <1>1, <2>1 DEF Record
  <2>5. RecordOK(n)
    BY <1>1, <1>2, <2>2, <2>4 DEF RecordOK, Underway, Record
  <2>6. lifecycle # "accepting" => Quiet(r, n)
    BY <1>1, <2>4 DEF Quiet, NothingClaimable
  <2> QED
    BY <2>2, <2>3, <2>5, <2>6, PutMoves
<1>5. CASE PreflightDone(c)
  <2>1. PICK factory \in BOOLEAN :
           Put(c, [r EXCEPT
                     !.pc = "runtime", !.state = "starting", !.listed = TRUE,
                     !.accepted = ~factory,
                     !.handle = IF factory THEN "none" ELSE "open",
                     !.rt = IF runtime = "fulfilled" THEN "ok" ELSE "pending"])
    BY <1>5, Zenon DEF PreflightDone
  <2>2. PICK g \in BOOLEAN : g = ~factory
    OBVIOUS
  <2>3. PICK h \in {"none", "open"} : h = IF factory THEN "none" ELSE "open"
    OBVIOUS
  <2>4. PICK w \in {"ok", "pending"} : w = IF runtime = "fulfilled" THEN "ok" ELSE "pending"
    OBVIOUS
  <2>5. PICK a : a = [r EXCEPT !.pc = "runtime", !.state = "starting", !.listed = TRUE]
    OBVIOUS
  <2>6. PICK n : n = [a EXCEPT !.accepted = g, !.handle = h, !.rt = w]
    OBVIOUS
  <2>7. r.pc = "preflight" /\ lifecycle = "accepting" /\ Put(c, n)
    <3>1. r.pc = "preflight" /\ lifecycle = "accepting"
      BY <1>5 DEF PreflightDone, Open
    <3>2. Put(c, n)
      BY <2>1, <2>2, <2>3, <2>4, <2>5, <2>6, Zenon
    <3> QED
      BY <3>1, <3>2
  <2>8. a \in Record
    BY <1>1, <2>5, FieldTypes, Zenon
  <2>9. n \in Record
    <3>1. [a EXCEPT !.accepted = g] \in Record
      BY <2>8, FieldTypes, Zenon
    <3>2. [[a EXCEPT !.accepted = g] EXCEPT !.handle = h] \in Record
      BY <3>1, FieldTypes, Zenon
    <3>3. [[[a EXCEPT !.accepted = g] EXCEPT !.handle = h] EXCEPT !.rt = w] \in Record
      BY <3>2, FieldTypes, Zenon
    <3> QED
      BY <2>6, <3>3, Zenon
  <2>10. /\ n.pc = "runtime" /\ n.state = "starting" /\ n.listed /\ n.accepted = g
         /\ n.handle = h /\ n.final = r.final /\ n.run = r.run
         /\ n.attached = r.attached /\ n.late = r.late
         /\ n.session = r.session /\ n.outcome = r.outcome
    BY <1>1, <2>5, <2>6, <2>8 DEF Record
  <2>11. n.handle = IF n.accepted THEN "open" ELSE "none"
    BY <2>2, <2>3, <2>10
  <2>12. Underway(n)
    BY <1>1, <1>2, <2>7, <2>10, <2>11 DEF Underway, Record
  <2>13. RecordOK(n)
    BY <1>2, <2>7, <2>10, <2>12 DEF RecordOK
  <2> QED
    BY <2>7, <2>9, <2>13, PutMoves
<1>6. CASE RuntimeReady(c)
  <2>1. r.pc = "runtime"
    BY <1>6 DEF RuntimeReady
  <2>2. CASE r.rt = "ok" /\ Open(r)
    <3>1. PICK n : n = [r EXCEPT !.pc = "attach", !.rt = "none", !.session = "opening"]
      OBVIOUS
    <3>2. lifecycle = "accepting" /\ Put(c, n)
      BY <1>6, <2>2, <3>1 DEF RuntimeReady, Open
    <3>3. n \in Record
      BY <1>1, <3>1, FieldTypes, Zenon
    <3>4. /\ n.pc = "attach" /\ n.session = "opening"
          /\ n.state = r.state /\ n.final = r.final /\ n.run = r.run
          /\ n.attached = r.attached /\ n.accepted = r.accepted /\ n.late = r.late
          /\ n.handle = r.handle /\ n.listed = r.listed /\ n.outcome = r.outcome
      BY <1>1, <3>1 DEF Record
    <3>5. RecordOK(n)
      BY <1>1, <1>2, <2>1, <3>4 DEF RecordOK, Underway, Record
    <3> QED
      BY <3>2, <3>3, <3>5, PutMoves
  <2>3. CASE ~(r.rt = "ok" /\ Open(r))
    <3>1. Put(c, Failed(r))
      BY <1>6, <2>3 DEF RuntimeReady
    <3>2. Ready(r)
      BY <1>1, <1>2, <2>1 DEF Underway, Ready, Record
    <3> QED
      BY <1>1, <3>1, <3>2, FailedMoves DEF Ready
  <2> QED
    BY <2>2, <2>3

<1>7. CASE Attached(c)
  <2>1. PICK lost, matches, m :
           /\ lost \in BOOLEAN /\ matches \in BOOLEAN
           /\ r.pc = "attach"
           /\ m = [r EXCEPT !.session = "active", !.attached = TRUE,
                            !.state = "attached", !.sig = r.sig \/ lost]
           /\ Put(c, IF ~Open(m) THEN Failed(m)
                     ELSE IF ~m.accepted THEN [m EXCEPT !.pc = "handle", !.handle = "making"]
                     ELSE IF matches THEN Deferred(m) ELSE Failed(m))
    BY <1>7, Zenon DEF Attached
  <2>2. PICK g \in BOOLEAN : g = (r.sig \/ lost)
    OBVIOUS
  <2>3. m \in Record
    <3>1. PICK a : a = [r EXCEPT !.session = "active", !.attached = TRUE,
                                 !.state = "attached"]
      OBVIOUS
    <3>2. a \in Record
      BY <1>1, <3>1, FieldTypes, Zenon
    <3>3. m = [a EXCEPT !.sig = g]
      BY <2>1, <2>2, <3>1, Zenon
    <3>4. [a EXCEPT !.sig = g] \in Record
      BY <3>2, FieldTypes, Zenon
    <3> QED
      BY <3>3, <3>4, Zenon
  <2>4. /\ m.session = "active" /\ m.attached /\ m.state = "attached" /\ m.pc = r.pc
        /\ m.final = r.final /\ m.run = r.run /\ m.accepted = r.accepted
        /\ m.late = r.late /\ m.handle = r.handle /\ m.listed = r.listed
        /\ m.outcome = r.outcome
    BY <1>1, <2>1 DEF Record
  <2>5. r.pc = "attach" /\ Underway(r) /\ r.final = "none" /\ r.listed
    BY <1>2, <2>1 DEF Underway
  <2>6. Ready(m)
    BY <1>1, <2>4, <2>5 DEF Underway, Ready, Record
  <2>7. CASE ~Open(m) \/ (m.accepted /\ ~matches)
    <3>1. Put(c, Failed(m))
      BY <2>1, <2>7, Zenon
    <3> QED
      BY <2>3, <2>5, <2>6, <3>1, FailedMoves
  <2>8. CASE Open(m) /\ ~m.accepted
    <3>1. PICK n : n = [m EXCEPT !.pc = "handle", !.handle = "making"]
      OBVIOUS
    <3>2. lifecycle = "accepting" /\ Put(c, n)
      BY <2>1, <2>8, <3>1, Zenon DEF Open
    <3>3. n \in Record
      BY <2>3, <3>1, FieldTypes, Zenon
    <3>4. /\ n.pc = "handle" /\ n.handle = "making" /\ n.session = "active" /\ n.attached
          /\ n.state = "attached" /\ n.final = r.final /\ n.run = r.run
          /\ n.accepted = r.accepted /\ n.late = r.late /\ n.listed = r.listed
          /\ n.outcome = r.outcome
      BY <2>3, <2>4, <3>1 DEF Record
    <3>5. RecordOK(n)
      BY <1>1, <2>4, <2>5, <2>8, <3>4 DEF RecordOK, Underway, Record
    <3> QED
      BY <3>2, <3>3, <3>5, PutMoves
  <2>9. CASE Open(m) /\ m.accepted /\ matches
    <3>1. PICK n : n = [m EXCEPT !.state = "deferred", !.pc = "returned"]
      OBVIOUS
    <3>2. lifecycle = "accepting" /\ Put(c, n)
      BY <2>1, <2>9, <3>1, Zenon DEF Open, Deferred
    <3>3. n \in Record
      BY <2>3, <3>1, FieldTypes, Zenon
    <3>4. /\ n.pc = "returned" /\ n.handle = r.handle /\ n.session = "active" /\ n.attached
          /\ n.state = "deferred" /\ n.final = r.final /\ n.run = r.run
          /\ n.accepted = r.accepted /\ n.late = r.late /\ n.listed = r.listed
          /\ n.outcome = r.outcome
      BY <2>3, <2>4, <3>1 DEF Record
    <3>5. r.accepted /\ r.handle = "open" /\ ~r.late /\ r.run # "going" /\ r.outcome # "ok"
      BY <1>1, <2>4, <2>5, <2>9 DEF Underway, Record
    <3>6. Underway(n)
      BY <2>5, <3>4, <3>5 DEF Underway
    <3>7. RecordOK(n)
      BY <2>5, <3>4, <3>6 DEF RecordOK
    <3> QED
      BY <3>2, <3>3, <3>7, PutMoves
  <2>10. m.accepted \in BOOLEAN
    BY <2>3 DEF Record
  <2> QED
    BY <2>7, <2>8, <2>9, <2>10
<1>8. CASE AttachFails(c)
  <2>1. PICK m : m = [r EXCEPT !.session = "none"]
    OBVIOUS
  <2>2. r.pc = "attach" /\ Put(c, Failed(m))
    BY <1>8, <2>1 DEF AttachFails
  <2>3. m \in Record
    BY <1>1, <2>1, FieldTypes, Zenon
  <2>4. /\ m.session = "none" /\ m.attached = r.attached /\ m.final = r.final
        /\ m.run = r.run /\ m.accepted = r.accepted /\ m.late = r.late
        /\ m.handle = r.handle /\ m.listed = r.listed /\ m.outcome = r.outcome
    BY <1>1, <2>1 DEF Record
  <2>5. Ready(m) /\ r.listed
    BY <1>1, <1>2, <2>2, <2>4 DEF Underway, Ready, Record
  <2> QED
    BY <2>2, <2>3, <2>5, FailedMoves
<1>9. CASE HandleMade(c)
  <2> DEFINE made == [r EXCEPT !.handle = "open", !.accepted = TRUE]
  <2>0. PICK matches \in BOOLEAN :
           r.pc = "handle" /\ Put(c, IF matches /\ Open(made) THEN Deferred(made) ELSE Failed(made))
    BY <1>9, Zenon DEF HandleMade
  <2>1. PICK m :
           /\ r.pc = "handle"
           /\ m = [r EXCEPT !.handle = "open", !.accepted = TRUE]
           /\ Put(c, IF matches /\ Open(m) THEN Deferred(m) ELSE Failed(m))
    BY <2>0, Zenon
  <2> HIDE DEF made
  <2>2. m \in Record
    BY <1>1, <2>1, FieldTypes, Zenon
  <2>3. /\ m.handle = "open" /\ m.accepted /\ m.session = r.session /\ m.pc = r.pc
        /\ m.attached = r.attached /\ m.state = r.state /\ m.final = r.final
        /\ m.run = r.run /\ m.late = r.late /\ m.listed = r.listed /\ m.outcome = r.outcome
    BY <1>1, <2>1 DEF Record
  <2>4. Ready(m) /\ r.listed
    BY <1>1, <1>2, <2>1, <2>3 DEF Underway, Ready, Record
  <2>5. CASE matches /\ Open(m)
    <3>1. PICK n : n = [m EXCEPT !.state = "deferred", !.pc = "returned"]
      OBVIOUS
    <3>2. lifecycle = "accepting" /\ Put(c, n)
      BY <2>1, <2>5, <3>1 DEF Open, Deferred
    <3>3. n \in Record
      BY <2>2, <3>1, FieldTypes, Zenon
    <3>4. /\ n.pc = "returned" /\ n.state = "deferred" /\ n.handle = "open" /\ n.accepted
          /\ n.session = r.session /\ n.attached = r.attached /\ n.final = r.final
          /\ n.run = r.run /\ n.late = r.late /\ n.listed = r.listed /\ n.outcome = r.outcome
      BY <2>2, <2>3, <3>1 DEF Record
    <3>5. RecordOK(n)
      BY <1>1, <1>2, <2>1, <3>4 DEF RecordOK, Underway, Record
    <3> QED
      BY <3>2, <3>3, <3>5, PutMoves
  <2>6. CASE ~(matches /\ Open(m))
    <3>1. Put(c, Failed(m))
      BY <2>1, <2>6
    <3> QED
      BY <2>2, <2>4, <3>1, FailedMoves
  <2> QED
    BY <2>5, <2>6
<1>10. CASE FactoryFails(c)
  <2>1. PICK m : m = [r EXCEPT !.handle = "none"]
    OBVIOUS
  <2>2. r.pc = "handle" /\ Put(c, Failed(m))
    BY <1>10, <2>1 DEF FactoryFails
  <2>3. m \in Record
    BY <1>1, <2>1, FieldTypes, Zenon
  <2>4. /\ m.handle = "none" /\ m.attached = r.attached /\ m.final = r.final
        /\ m.run = r.run /\ m.accepted = r.accepted /\ m.late = r.late
        /\ m.session = r.session /\ m.listed = r.listed /\ m.outcome = r.outcome
    BY <1>1, <2>1 DEF Record
  <2>5. Ready(m) /\ r.listed
    BY <1>1, <1>2, <2>2, <2>4 DEF Underway, Ready, Record
  <2> QED
    BY <2>2, <2>3, <2>5, FailedMoves
<1>11. CASE StartupAborted(c)
  <2>1. PICK g \in BOOLEAN : g = (r.pc # "runtime")
    OBVIOUS
  <2>2. PICK m : m = [r EXCEPT !.late = g]
    OBVIOUS
  <2>3. r.pc \in {"runtime", "attach", "handle"} /\ Put(c, Failed(m))
    BY <1>11, <2>1, <2>2, Zenon DEF StartupAborted
  <2>4. m \in Record
    BY <1>1, <2>2, FieldTypes, Zenon
  <2>5. /\ m.late = g /\ m.attached = r.attached /\ m.final = r.final
        /\ m.run = r.run /\ m.accepted = r.accepted /\ m.handle = r.handle
        /\ m.session = r.session /\ m.listed = r.listed /\ m.outcome = r.outcome
    BY <1>1, <2>2 DEF Record
  <2>6. Ready(m) /\ r.listed
    BY <1>1, <1>2, <2>1, <2>3, <2>5 DEF Underway, Ready, Record
  <2> QED
    BY <2>3, <2>4, <2>6, FailedMoves
<1>12. CASE StartupTimesOut(c)
  <2>1. PICK n : n = [r EXCEPT !.sig = TRUE]
    OBVIOUS
  <2>2. Put(c, n)
    BY <1>12, <2>1 DEF StartupTimesOut
  <2>3. n \in Record
    BY <1>1, <2>1, FieldTypes, Zenon
  <2>4. Alike(r, n)
    BY <1>1, <2>1 DEF Alike, Record
  <2> QED
    BY <2>2, <2>3, <2>4, AlikeMoves
<1>13. CASE SnapshotThrows(c)
  <2>1. PICK n : n = [r EXCEPT !.pc = "threw", !.state = "starting", !.listed = TRUE,
                             !.accepted = TRUE, !.handle = "open"]
    OBVIOUS
  <2>2. r.pc = "preflight" /\ lifecycle = "accepting" /\ Put(c, n)
    BY <1>13, <2>1 DEF SnapshotThrows, Open
  <2>3. n \in Record
    BY <1>1, <2>1, FieldTypes, Zenon
  <2>4. /\ n.pc = "threw" /\ n.state = "starting" /\ n.listed /\ n.accepted
        /\ n.handle = "open" /\ n.final = r.final /\ n.run = r.run
        /\ n.attached = r.attached /\ n.late = r.late
        /\ n.session = r.session /\ n.outcome = r.outcome
    BY <1>1, <2>1 DEF Record
  <2>5. RecordOK(n)
    BY <1>1, <1>2, <2>2, <2>4 DEF RecordOK, Underway, Record
  <2> QED
    BY <2>2, <2>3, <2>5, PutMoves
<1> QED
  BY <1>3, <1>4, <1>5, <1>6, <1>7, <1>8, <1>9, <1>10, <1>11, <1>12, <1>13

-----------------------------------------------------------------------------

\* What callers, the transport and the pipeline do to a call that was handed out.
LEMMA RunMoves ==
    ASSUME AgentInv, NEW c \in Call,
           \/ Claim(c) \/ RunEnds(c) \/ EndInputFails(c) \/ CallerAborts(c)
           \/ Hangup(c) \/ StopCall(c) \/ StopCallTimesOut(c)
    PROVE  Moves(c)
<1> PICK r : r = rec[c]
  OBVIOUS
<1>1. r \in Record /\ RecordOK(r) /\ (lifecycle # "accepting" => NothingClaimable(r))
  BY DEF AgentInv, AgentTypeOK
<1>2. Alike(r, r)
  BY DEF Alike
<1>3. ASSUME NEW m \in Record, Alike(r, m), Put(c, StopDeferred(m))
      PROVE  Moves(c)
  <2>1. CASE r.state = "deferred"
    <3>1. Ready(m) /\ m.pc = "returned" /\ m.state = "deferred" /\ r.listed
      BY <1>1, <1>3, <2>1, DeferredReady
    <3>2. Put(c, Finalize(m)) /\ r.pc = "returned"
      BY <1>3, <3>1 DEF StopDeferred, Alike
    <3> QED
      BY <1>3, <3>1, <3>2, FinalizeMoves
  <2>2. CASE r.state # "deferred"
    <3>1. Put(c, m)
      BY <1>3, <2>2 DEF StopDeferred, Alike
    <3> QED
      BY <1>3, <3>1, AlikeMoves
  <2> QED
    BY <2>1, <2>2
<1>4. CASE Claim(c)
  <2>1. r.state = "deferred"
    BY <1>4 DEF Claim
  <2>2. CASE Put(c, [r EXCEPT !.state = "running", !.run = "going"])
    <3>1. PICK n : n = [r EXCEPT !.state = "running", !.run = "going"]
      OBVIOUS
    <3>2. n \in Record
      BY <1>1, <3>1, FieldTypes, Zenon
    <3>3. /\ n.state = "running" /\ n.run = "going" /\ n.pc = r.pc /\ n.final = r.final
          /\ n.attached = r.attached /\ n.accepted = r.accepted /\ n.late = r.late
          /\ n.handle = r.handle /\ n.session = r.session /\ n.listed = r.listed
          /\ n.outcome = r.outcome
      BY <1>1, <3>1 DEF Record
    <3>4. r.final = "none" /\ Underway(r)
      BY <1>1, <2>1 DEF RecordOK, Finishing
    <3>5. Underway(n)
      BY <2>1, <3>3, <3>4 DEF Underway
    <3>6. RecordOK(n) /\ lifecycle = "accepting"
      BY <1>1, <2>1, <3>3, <3>4, <3>5 DEF RecordOK, NothingClaimable
    <3> QED
      BY <2>2, <3>1, <3>2, <3>6, PutMoves
  <2>3. CASE Put(c, Finalize(r))
    BY <1>1, <1>2, <1>3, <2>1, <2>3 DEF StopDeferred
  <2> QED
    BY <1>4, <2>2, <2>3 DEF Claim
<1>5. CASE RunEnds(c)
  <2>1. PICK m : m = [r EXCEPT !.run = "done"]
    OBVIOUS
  <2>2. r.run = "going" /\ Put(c, Finalize(m))
    BY <1>5, <2>1 DEF RunEnds
  <2>3. m \in Record
    BY <1>1, <2>1, FieldTypes, Zenon
  <2>4. /\ m.run = "done" /\ m.pc = r.pc /\ m.final = r.final
        /\ m.attached = r.attached /\ m.accepted = r.accepted /\ m.late = r.late
        /\ m.handle = r.handle /\ m.session = r.session /\ m.listed = r.listed
        /\ m.outcome = r.outcome
    BY <1>1, <2>1 DEF Record
  <2>5. r.final = "none" /\ Underway(r)
    BY <1>1, <2>2 DEF RecordOK, Finishing
  <2>6. Ready(m) /\ r.listed /\ m.pc = "returned" /\ r.pc = "returned"
    BY <1>1, <2>2, <2>4, <2>5 DEF Underway, Ready, Record
  <2> QED
    BY <2>2, <2>3, <2>6, FinalizeMoves
<1>6. CASE EndInputFails(c)
  <2>1. PICK n : n = [r EXCEPT !.halt = TRUE]
    OBVIOUS
  <2>2. Put(c, n)
    BY <1>6, <2>1 DEF EndInputFails
  <2>3. n \in Record
    BY <1>1, <2>1, FieldTypes, Zenon
  <2>4. Alike(r, n)
    BY <1>1, <2>1 DEF Alike, Record
  <2> QED
    BY <2>2, <2>3, <2>4, AlikeMoves
<1>7. CASE CallerAborts(c)
  <2>1. PICK m : m = [r EXCEPT !.sig = TRUE]
    OBVIOUS
  <2>2. Put(c, Abort(m))
    BY <1>7, <2>1 DEF CallerAborts
  <2>3. m \in Record
    BY <1>1, <2>1, FieldTypes, Zenon
  <2>4. Alike(r, m)
    BY <1>1, <2>1 DEF Alike, Record
  <2>5. CASE m.listed /\ m.final = "none"
    <3>1. PICK n : n = [m EXCEPT !.sig = TRUE, !.halt = TRUE]
      OBVIOUS
    <3>2. Put(c, StopDeferred(n))
      BY <2>2, <2>5, <3>1, Zenon DEF Abort
    <3>3. n \in Record
      BY <2>3, <3>1, FieldTypes, Zenon
    <3>4. Alike(r, n)
      BY <1>1, <2>3, <2>4, <3>1 DEF Alike, Record
    <3> QED
      BY <1>3, <3>2, <3>3, <3>4
  <2>6. CASE ~(m.listed /\ m.final = "none")
    <3>1. Put(c, m)
      BY <2>2, <2>6, Zenon DEF Abort
    <3> QED
      BY <2>3, <2>4, <3>1, AlikeMoves
  <2> QED
    BY <2>5, <2>6
<1>8. CASE Hangup(c)
  <2>1. CASE r.state = "deferred" /\ Put(c, Finalize(r))
    BY <1>1, <1>2, <1>3, <2>1 DEF StopDeferred
  <2>2. CASE Put(c, [r EXCEPT !.sig = TRUE])
    <3>1. PICK n : n = [r EXCEPT !.sig = TRUE]
      OBVIOUS
    <3>2. n \in Record
      BY <1>1, <3>1, FieldTypes, Zenon
    <3>3. Alike(r, n)
      BY <1>1, <3>1 DEF Alike, Record
    <3> QED
      BY <2>2, <3>1, <3>2, <3>3, AlikeMoves
  <2>3. CASE Put(c, [r EXCEPT !.halt = TRUE])
    <3>1. PICK n : n = [r EXCEPT !.halt = TRUE]
      OBVIOUS
    <3>2. n \in Record
      BY <1>1, <3>1, FieldTypes, Zenon
    <3>3. Alike(r, n)
      BY <1>1, <3>1 DEF Alike, Record
    <3> QED
      BY <2>3, <3>1, <3>2, <3>3, AlikeMoves
  <2> QED
    BY <1>8, <2>1, <2>2, <2>3 DEF Hangup
<1>9. CASE StopCall(c)
  <2>1. PICK g \in BOOLEAN : g = (r.halt \/ r.state = "running")
    OBVIOUS
  <2>2. PICK n : n = [r EXCEPT !.stopping = TRUE, !.halt = g]
    OBVIOUS
  <2>3. Put(c, StopDeferred(n))
    BY <1>9, <2>1, <2>2, Zenon DEF StopCall
  <2>4. n \in Record
    <3>1. [r EXCEPT !.stopping = TRUE] \in Record
      BY <1>1, FieldTypes, Zenon
    <3>2. [[r EXCEPT !.stopping = TRUE] EXCEPT !.halt = g] \in Record
      BY <3>1, FieldTypes, Zenon
    <3> QED
      BY <2>2, <3>2, Zenon
  <2>5. Alike(r, n)
    BY <1>1, <2>1, <2>2 DEF Alike, Record
  <2> QED
    BY <1>3, <2>3, <2>4, <2>5
<1>10. CASE StopCallTimesOut(c)
  <2>1. PICK n : n = Told(r, "failed")
    OBVIOUS
  <2>2. Put(c, n)
    BY <1>10, <2>1 DEF StopCallTimesOut
  <2>3. n \in Record /\ Alike(r, n)
    BY <1>1, <2>1, ToldFacts DEF Alike
  <2> QED
    BY <2>2, <2>3, AlikeMoves
<1> QED
  BY <1>4, <1>5, <1>6, <1>7, <1>8, <1>9, <1>10

\* Every step of a call.
LEMMA CallMoves ==
    ASSUME AgentInv, NEW c \in Call, Own(c) \/ Outside(c)
    PROVE  Moves(c)
  BY FinalizationMoves, StartMoves, RunMoves DEF Own, Outside

-----------------------------------------------------------------------------
(***************************************************************************)
(* The steps of the agent, which touch every record.                       *)
(***************************************************************************)

\* Every record of the agent stays what it is, but for signals and reports.
AllAlike == rec' \in [Call -> Record] /\ \A c \in Call : Alike(rec[c], rec'[c])

\* The runtime's start, when it settles, is news for the calls that wait for it.
LEMMA NewsIsAlike ==
    ASSUME NEW r \in Record, NEW v \in {"ok", "failed"},
           NEW n, n = IF r.rt = "pending" THEN [r EXCEPT !.rt = v] ELSE r
    PROVE  n \in Record /\ Alike(r, n)
<1>1. CASE r.rt = "pending"
  <2>1. n = [r EXCEPT !.rt = v]
    BY <1>1
  <2>2. n \in Record
    BY <2>1 DEF Record
  <2> QED
    BY <2>1, <2>2 DEF Alike, Record
<1>2. CASE r.rt # "pending"
  BY <1>2 DEF Alike
<1> QED
  BY <1>1, <1>2

LEMMA DeadlineIsAlike ==
    ASSUME NEW r \in Record, NEW n, n = Deadline(r)
    PROVE  n \in Record /\ Alike(r, n)
<1>1. CASE r.listed /\ r.final = "none" /\ r.state = "running"
  <2>1. n = Told(r, "failed")
    BY <1>1 DEF Deadline
  <2> QED
    BY <2>1, ToldFacts DEF Alike
<1>2. CASE ~(r.listed /\ r.final = "none" /\ r.state = "running")
  BY <1>2 DEF Deadline, Alike
<1> QED
  BY <1>1, <1>2

\* stop() aborts a record: what nobody claimed is finalized, what runs is told to end.
LEMMA AbortStops ==
    ASSUME NEW r \in Record, RecordOK(r), NEW n, n = Abort(r)
    PROVE  n \in Record /\ RecordOK(n) /\ NothingClaimable(n)
<1>1. CASE r.listed /\ r.final = "none"
  <2>1. PICK m : m = [r EXCEPT !.sig = TRUE, !.halt = TRUE]
    OBVIOUS
  <2>2. n = StopDeferred(m)
    BY <1>1, <2>1, Zenon DEF Abort
  <2>3. m \in Record
    BY <2>1, FieldTypes, Zenon
  <2>4. Alike(r, m) /\ m.halt
    BY <2>1 DEF Alike, Record
  <2>5. CASE r.state = "deferred"
    <3>1. Ready(m) /\ m.pc = "returned" /\ m.state = "deferred"
      BY <2>3, <2>4, <2>5, DeferredReady
    <3>2. n = Finalize(m)
      BY <2>2, <3>1 DEF StopDeferred
    <3>3. n \in Record /\ n.final = "pending" /\ Finishing(n)
      BY <2>3, <3>1, <3>2, FinalizeFinishes
    <3> QED
      BY <3>3 DEF RecordOK, NothingClaimable, Finishing
  <2>6. CASE r.state # "deferred"
    <3>1. n = m /\ RecordOK(m)
      BY <2>2, <2>3, <2>4, <2>6, AlikeOK DEF StopDeferred, Alike
    <3> QED
      BY <2>3, <2>4, <2>6, <3>1 DEF NothingClaimable, Alike
  <2> QED
    BY <2>5, <2>6
<1>2. CASE ~(r.listed /\ r.final = "none")
  <2>1. n = r
    BY <1>2 DEF Abort
  <2>2. NothingClaimable(r)
    BY <1>2 DEF RecordOK, Underway, Finishing, NothingClaimable
  <2> QED
    BY <2>1, <2>2
<1> QED
  BY <1>1, <1>2

\* A step that leaves the records alike keeps what the invariant says of them.
LEMMA AllAlikeOK ==
    ASSUME AgentInv, AllAlike
    PROVE  /\ \A c \in Call : RecordOK(rec'[c])
           /\ lifecycle # "accepting" => \A c \in Call : NothingClaimable(rec'[c])
           /\ Drained => Drained'
<1>1. ASSUME NEW c \in Call
      PROVE  /\ RecordOK(rec'[c]) /\ rec'[c].listed = rec[c].listed
             /\ lifecycle # "accepting" => NothingClaimable(rec'[c])
  <2>1. rec[c] \in Record /\ rec'[c] \in Record /\ RecordOK(rec[c])
    BY DEF AgentInv, AgentTypeOK, AllAlike
  <2>2. Alike(rec[c], rec'[c]) /\ (lifecycle # "accepting" => NothingClaimable(rec[c]))
    BY DEF AgentInv, AllAlike
  <2> QED
    BY <2>1, <2>2, AlikeOK DEF Alike, Quiet
<1> QED
  BY <1>1 DEF Drained

\* A step of one call.
LEMMA CallKeeps ==
    ASSUME AgentInv, NEW c \in Call, Own(c) \/ Outside(c)
    PROVE  AgentInv'
<1>1. Moves(c)
  BY CallMoves
<1>2. /\ UNCHANGED <<lifecycle, rtStop, gate, stopResult, stopLater>>
      /\ runtime' = runtime \/ (runtime = "idle" /\ runtime' = "starting")
  BY DEF Own, Outside, agentVars, FinalizationSettles, FinalizationTimesOut, RuntimeReady,
     StartupAborted, SessionEnds, HandleCloses, Start, PreflightFails, PreflightAborted,
     PreflightDone, SnapshotThrows, Attached,
     AttachFails, HandleMade, FactoryFails, LateAttachment, LateHandle, StartupTimesOut, Claim,
     RunEnds, EndInputFails, CallerAborts, Hangup, StopCall, StopCallTimesOut
<1>3. AgentTypeOK'
  BY <1>1, <1>2 DEF AgentInv, AgentTypeOK, Moves
<1>4. \A d \in Call : d # c => rec'[d] = rec[d]
  BY <1>1 DEF AgentInv, AgentTypeOK, Moves
<1>5. \A d \in Call : RecordOK(rec'[d])
  BY <1>1, <1>4 DEF AgentInv, Moves
<1>6. lifecycle # "accepting" => \A d \in Call : NothingClaimable(rec'[d])
  BY <1>1, <1>4 DEF AgentInv, Moves, Quiet
<1>7. lifecycle # "accepting" /\ Drained => Drained'
  BY <1>1, <1>4 DEF Moves, Quiet, Drained
<1>8. GateOK'
  BY <1>2, <1>7 DEF AgentInv, GateOK
<1> QED
  BY <1>2, <1>3, <1>5, <1>6, <1>8 DEF AgentInv

\* A step of the agent or of its runtime.
LEMMA AgentKeeps ==
    ASSUME AgentInv,
           \/ AgentOwn \/ RuntimeStarts \/ RuntimeStartFails \/ RuntimeStops \/ Stop
    PROVE  AgentInv' /\ (Stop \/ AllAlike)
<1> USE DEF AgentInv
<1>1. ASSUME UNCHANGED rec PROVE AllAlike
  BY <1>1 DEF AllAlike, Alike, AgentTypeOK
<1>2. CASE GateStart
  <2>1. UNCHANGED <<rec, lifecycle, runtime, rtStop, stopResult, stopLater>> /\ gate' = "records" /\ gate = "start"
    BY <1>2 DEF GateStart
  <2>2. AllAlike
    BY <1>1, <2>1
  <2>3. AgentTypeOK' /\ GateOK'
    BY <2>1, <2>2, AllAlikeOK DEF AgentTypeOK, GateOK
  <2> QED
    BY <2>1, <2>2, <2>3, AllAlikeOK
<1>3. CASE GateRecords
  <2>1. /\ UNCHANGED <<rec, lifecycle, runtime, stopResult, stopLater>>
        /\ gate = "records" /\ gate' \in {"runtime", "open"} /\ Drained
        /\ rtStop' = rtStop \/ (rtStop = "none" /\ rtStop' = "pending")
    BY <1>3 DEF GateRecords, StopRuntime
  <2>2. AllAlike
    BY <1>1, <2>1
  <2>3. AgentTypeOK' /\ GateOK'
    BY <2>1, <2>2, AllAlikeOK DEF AgentTypeOK, GateOK
  <2> QED
    BY <2>1, <2>2, <2>3, AllAlikeOK
<1>4. CASE StopSettles
  <2>1. /\ UNCHANGED <<rec, runtime, rtStop, gate, stopLater>> /\ lifecycle' = "stopped"
        /\ gate \in {"runtime", "open"} /\ stopResult = "none" /\ stopResult' \in {"ok", "failed"}
    BY <1>4 DEF StopSettles
  <2>2. AllAlike
    BY <1>1, <2>1
  <2>3. lifecycle # "accepting"
    BY <2>1 DEF GateOK
  <2>4. AgentTypeOK' /\ GateOK'
    BY <2>1, <2>2, AllAlikeOK DEF AgentTypeOK, GateOK
  <2> QED
    BY <2>1, <2>2, <2>3, <2>4, AllAlikeOK
<1>5. CASE StopTimesOut
  <2>1. /\ lifecycle = "stopping" /\ lifecycle' = "stopped" /\ stopResult' = "timedOut"
        /\ rec' = [c \in Call |-> Deadline(rec[c])]
        /\ rtStop' = rtStop \/ (rtStop = "none" /\ rtStop' = "pending")
        /\ stopLater' \in BOOLEAN /\ UNCHANGED <<runtime, gate>>
    BY <1>5 DEF StopTimesOut, StopRuntime
  <2>2. AllAlike
    <3>1. ASSUME NEW c \in Call PROVE Deadline(rec[c]) \in Record /\ Alike(rec[c], Deadline(rec[c]))
      BY DeadlineIsAlike DEF AgentTypeOK
    <3> QED
      BY <2>1, <3>1 DEF AllAlike
  <2>3. AgentTypeOK' /\ GateOK'
    BY <2>1, <2>2 DEF AgentTypeOK, GateOK, AllAlike
  <2> QED
    BY <2>1, <2>2, <2>3, AllAlikeOK
<1>6. CASE RuntimeStarts
  <2>1. /\ UNCHANGED <<lifecycle, gate, stopResult>> /\ stopLater' = FALSE
        /\ runtime' = "fulfilled"
        /\ rec' = [c \in Call |-> IF rec[c].rt = "pending"
                                  THEN [rec[c] EXCEPT !.rt = "ok"] ELSE rec[c]]
        /\ rtStop' = rtStop \/ (stopLater /\ rtStop = "none" /\ rtStop' = "pending")
    BY <1>6 DEF RuntimeStarts, StopRuntime
  <2>2. AllAlike
    <3>1. ASSUME NEW c \in Call, NEW n,
                 n = IF rec[c].rt = "pending" THEN [rec[c] EXCEPT !.rt = "ok"] ELSE rec[c]
          PROVE  n \in Record /\ Alike(rec[c], n)
      BY <3>1, NewsIsAlike DEF AgentTypeOK
    <3> QED
      BY <2>1, <3>1 DEF AllAlike
  <2>3. AgentTypeOK' /\ GateOK'
    BY <2>1, <2>2, AllAlikeOK DEF AgentTypeOK, GateOK, AllAlike
  <2> QED
    BY <2>1, <2>2, <2>3, AllAlikeOK
<1>7. CASE RuntimeStartFails
  <2>1. /\ UNCHANGED <<lifecycle, rtStop, gate, stopResult>> /\ stopLater' = FALSE
        /\ runtime' \in {"idle", "rejected"}
        /\ rec' = [c \in Call |-> IF rec[c].rt = "pending"
                                  THEN [rec[c] EXCEPT !.rt = "failed"] ELSE rec[c]]
    BY <1>7 DEF RuntimeStartFails
  <2>2. AllAlike
    <3>1. ASSUME NEW c \in Call, NEW n,
                 n = IF rec[c].rt = "pending" THEN [rec[c] EXCEPT !.rt = "failed"] ELSE rec[c]
          PROVE  n \in Record /\ Alike(rec[c], n)
      BY <3>1, NewsIsAlike DEF AgentTypeOK
    <3> QED
      BY <2>1, <3>1 DEF AllAlike
  <2>3. AgentTypeOK' /\ GateOK'
    BY <2>1, <2>2, AllAlikeOK DEF AgentTypeOK, GateOK, AllAlike
  <2> QED
    BY <2>1, <2>2, <2>3, AllAlikeOK
<1>8. CASE RuntimeStops
  <2>1. /\ UNCHANGED <<rec, lifecycle, runtime, gate, stopResult, stopLater>>
        /\ rtStop = "pending" /\ rtStop' \in {"done", "failed"}
    BY <1>8 DEF RuntimeStops
  <2>2. AllAlike
    BY <1>1, <2>1
  <2>3. AgentTypeOK' /\ GateOK'
    BY <2>1, <2>2, AllAlikeOK DEF AgentTypeOK, GateOK
  <2> QED
    BY <2>1, <2>2, <2>3, AllAlikeOK
<1>9. CASE Stop
  <2>1. /\ lifecycle = "accepting" /\ lifecycle' = "stopping" /\ gate' \in {"records", "start"}
        /\ rec' = [c \in Call |-> Abort(rec[c])]
        /\ UNCHANGED <<runtime, rtStop, stopResult, stopLater>>
    BY <1>9 DEF Stop
  <2>2. \A c \in Call : /\ rec'[c] \in Record /\ RecordOK(rec'[c])
                        /\ NothingClaimable(rec'[c])
    <3>1. ASSUME NEW c \in Call
          PROVE  Abort(rec[c]) \in Record /\ RecordOK(Abort(rec[c])) /\ NothingClaimable(Abort(rec[c]))
      BY AbortStops DEF AgentTypeOK
    <3> QED
      BY <2>1, <3>1
  <2>3. AgentTypeOK'
    BY <2>1, <2>2 DEF AgentTypeOK
  <2>4. GateOK'
    BY <2>1 DEF GateOK
  <2> QED
    BY <1>9, <2>2, <2>3, <2>4
<1> QED
  BY <1>2, <1>3, <1>4, <1>5, <1>6, <1>7, <1>8, <1>9 DEF AgentOwn

-----------------------------------------------------------------------------
\* The inductive invariant of the agent: a record holds exactly what its start() has got
\* to, and after its finalization began nothing that is not being ended or waited for;
\* once stop() was called nothing can be claimed; and stop() goes on to the runtime only
\* when every record is gone or its deadline has passed.
THEOREM AgentInvariant == AgentSpec => []AgentInv
<1>1. AgentInit => AgentInv
  <2> SUFFICES ASSUME AgentInit PROVE AgentInv
    OBVIOUS
  <2>1. NoRecord \in Record
    BY DEF NoRecord, Record
  <2>2. RecordOK(NoRecord)
    BY DEF RecordOK, Underway, NoRecord
  <2>3. AgentTypeOK /\ GateOK
    BY <2>1 DEF AgentInit, AgentTypeOK, GateOK
  <2> QED
    BY <2>2, <2>3 DEF AgentInit, AgentInv
<1>2. AgentInv /\ [AgentNext]_vars => AgentInv'
  <2> SUFFICES ASSUME AgentInv, [AgentNext]_vars PROVE AgentInv'
    OBVIOUS
  <2>1. CASE AgentNext
    BY <2>1, CallKeeps, AgentKeeps DEF AgentNext
  <2>2. CASE UNCHANGED vars
    BY <2>2 DEF vars, agentVars, AgentInv, AgentTypeOK, GateOK, Drained
  <2> QED
    BY <2>1, <2>2
<1> QED
  BY <1>1, <1>2, PTL DEF AgentSpec

\* Every record, and the lifecycle of the agent, stays within its type.
THEOREM AgentTypes == AgentSpec => []AgentTypeOK
<1>1. AgentInv => AgentTypeOK
  BY DEF AgentInv
<1> QED
  BY <1>1, AgentInvariant, PTL

\* For any number of calls: the agent forgets a call only when the session and the handle
\* it obtained, however late, were told to end, and reports it finalized only when both did.
THEOREM NothingIsLeaked == AgentSpec => []NoCallLeaks
<1>1. AgentInv => NoCallLeaks
  <2> SUFFICES ASSUME AgentInv, NEW c \in Call, NEW r, r = rec[c]
               PROVE  /\ ~r.listed => /\ r.session \notin {"opening", "active"}
                                      /\ r.handle \notin {"making", "open"}
                      /\ r.outcome = "ok" => /\ r.attached => r.session = "ended"
                                             /\ r.accepted => r.handle = "closed"
    BY DEF NoCallLeaks
  <2>1. r \in Record /\ RecordOK(r)
    BY DEF AgentInv, AgentTypeOK
  <2>2. CASE r.final = "none"
    BY <2>1, <2>2 DEF RecordOK, Underway, Record
  <2>3. CASE r.final # "none"
    BY <2>1, <2>3 DEF RecordOK, Finishing, Record
  <2> QED
    BY <2>2, <2>3
<1> QED
  BY <1>1, AgentInvariant, PTL

\* For any number of calls: short of its deadline stop() keeps the runtime up until each
\* session has ended or its cleanup has run out of time of its own.
THEOREM RuntimeWaitsForCalls == AgentSpec => []RuntimeOutlivesCalls
<1>1. AgentInv => RuntimeOutlivesCalls
  <2> SUFFICES ASSUME AgentInv, rtStop # "none", stopResult # "timedOut",
                      NEW c \in Call, NEW r, r = rec[c]
               PROVE  r.session \in {"none", "ended", "endFailed"} \/ r.final = "timedOut"
    BY DEF RuntimeOutlivesCalls
  <2>1. r \in Record /\ RecordOK(r) /\ ~r.listed
    BY DEF AgentInv, AgentTypeOK, GateOK, Drained
  <2>2. CASE r.final = "none"
    BY <2>1, <2>2 DEF RecordOK, Underway, Record
  <2>3. CASE r.final # "none"
    BY <2>1, <2>3 DEF RecordOK, Finishing, Barrier, Record
  <2> QED
    BY <2>2, <2>3
<1> QED
  BY <1>1, AgentInvariant, PTL

\* For any number of calls: once stop() was called no session is handed out, none begins to
\* run, and every pipeline that still runs has been told to end.
THEOREM StopIsFinal == AgentSpec => NothingBeginsAfterStop
<1>1. ASSUME AgentInv, [AgentNext]_vars
      PROVE  [lifecycle # "accepting" =>
                \A c \in Call : /\ rec'[c].pc = "returned" => rec[c].pc = "returned"
                                /\ rec'[c].run = "going" => rec[c].run = "going"]_vars
  <2> SUFFICES ASSUME lifecycle # "accepting", AgentNext, NEW d \in Call
               PROVE  /\ rec'[d].pc = "returned" => rec[d].pc = "returned"
                      /\ rec'[d].run = "going" => rec[d].run = "going"
    BY <1>1
  <2>1. ASSUME NEW c \in Call, Own(c) \/ Outside(c)
        PROVE  /\ rec'[d].pc = "returned" => rec[d].pc = "returned"
               /\ rec'[d].run = "going" => rec[d].run = "going"
    <3>1. Moves(c)
      BY <1>1, <2>1, CallMoves
    <3> QED
      BY <1>1, <3>1 DEF Moves, Quiet, AgentInv, AgentTypeOK
  <2>2. CASE AgentOwn \/ RuntimeStarts \/ RuntimeStartFails \/ RuntimeStops \/ Stop
    <3>1. ~Stop
      BY DEF Stop
    <3>2. AllAlike
      BY <1>1, <2>2, <3>1, AgentKeeps
    <3> QED
      BY <3>2 DEF AllAlike, Alike
  <2> QED
    BY <2>1, <2>2 DEF AgentNext
<1>2. AgentInv => (lifecycle # "accepting" =>
                     \A c \in Call : rec[c].run = "going" => rec[c].halt)
  BY DEF AgentInv, NothingClaimable
<1> QED
  BY <1>1, <1>2, AgentInvariant, PTL DEF AgentSpec, NothingBeginsAfterStop

=============================================================================
