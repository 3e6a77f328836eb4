------------------------ MODULE ToolIdempotencyProofs -----------------------
(***************************************************************************)
(* Proofs about ToolIdempotency, for any number of processes and calls and *)
(* any bounds on generations and on the lifetimes of the record.           *)
(***************************************************************************)
EXTENDS ToolIdempotency, TLAPS

\* No generation in use is newer than the last one granted, no claim newer than the
\* present lifetime of the record.
Issued ==
    /\ live => gen # NoGen
    /\ row.gen <= gen
    /\ \A p \in Proc : att[p] <= gen /\ attaching[p].gen <= gen
    /\ \A c \in Call : call[c].lease <= gen /\ call[c].claimEpoch <= epoch

\* Process p is attaching with the lease that is live now.
Recovering(p) == attaching[p].pc # "none" /\ live /\ attaching[p].gen = gen

\* While the newest lease is still being attached nobody works under it.
Alone(p) ==
    /\ \A q \in Proc : att[q] # gen
    /\ \A q \in Proc : Recovering(q) => q = p
    /\ \A c \in Call : call[c].pc = "started" => call[c].lease # gen
    /\ row.status = "claimed" => row.gen # gen

AttachesAlone == \A p \in Proc : Recovering(p) => Alone(p)

\* Every record still running is on the list the attaching process works through, or its
\* claim no longer waits for an outcome of an earlier generation.
ListIsComplete ==
    \A p \in Proc : Recovering(p) /\ attaching[p].pc = "prepare" =>
        \A c \in Call : stored[c].status = "running" =>
            \/ c \in attaching[p].todo
            \/ ~(row.status = "claimed" /\ row.owner = c /\ row.gen # gen)

\* A call that may still claim under the live lease was started under it, and by then
\* recovery had settled every record of earlier generations.
StartedRecovered ==
    \A c \in Call : call[c].pc = "started" /\ live /\ call[c].lease = gen =>
        /\ stored[c] = [status |-> "running", gen |-> gen]
        /\ \A d \in Call : stored[d].status = "running" => stored[d].gen = gen

\* What the position of a call says about its executor.
PlaceOK(c) ==
    /\ call[c].pc \in {"new", "started", "claimed", "release"} => ~call[c].ran
    /\ call[c].pc \in {"running", "complete"} => call[c].ran
    /\ call[c].pc = "complete" => call[c].result \in {"succeeded", "failed"}

CallPlace == \A c \in Call : PlaceOK(c)

\* The executor of this call ran, or is about to, and it was not reported as unrecorded.
Executes(c) == (call[c].ran \/ call[c].pc = "claimed") /\ ~call[c].unrecorded

\* The claim of call c stands and its tool-call record is there for the next owner.
Stands(c) ==
    /\ row = Claimed(c, call[c].lease)
    /\ stored[c] = [status |-> "running", gen |-> call[c].lease]
    /\ call[c].pc # "finish"

\* An execution in the present lifetime of the record is answered for: an outcome is
\* recorded, or the claim stands.
Answered ==
    \A c \in Call : Executes(c) /\ call[c].claimEpoch = epoch =>
        row.status \in {"succeeded", "failed"} \/ Stands(c)

\* No two executions share a lifetime of the record.
ExecutesOnce ==
    \A c, d \in Call :
        c # d /\ Executes(c) /\ Executes(d) => call[c].claimEpoch # call[d].claimEpoch

ToolInv ==
    /\ ToolTypeOK /\ Issued /\ AttachesAlone /\ ListIsComplete /\ OwnerSeesOwnCalls
    /\ StartedRecovered /\ CallPlace /\ Answered /\ ExecutesOnce

-----------------------------------------------------------------------------

\* Types: every variable keeps its type under every action.
LEMMA TypeStep == ToolTypeOK /\ [Next]_vars => ToolTypeOK'
<1> SUFFICES ASSUME ToolTypeOK, [Next]_vars PROVE ToolTypeOK'
  OBVIOUS
<1> USE ToolBounds
<1>1. CASE Lapse
  BY <1>1 DEF Lapse, ToolTypeOK
<1>2. CASE Expire
  BY <1>2 DEF Expire, ToolTypeOK, ownership, NoRow, NoGen, KeyRecord
<1>3. ASSUME NEW c \in Call, NEW p \in Proc, NEW late \in BOOLEAN, StartToolCall(c, p, late)
      PROVE  ToolTypeOK'
  <2>1. PICK g \in 1..gen : call'[c] = [New EXCEPT !.proc = p, !.lease = g, !.override = late,
                            !.pc = IF late THEN "finish" ELSE "started",
                            !.result = IF late THEN "failed" ELSE "none"]
    BY <1>3 DEF StartToolCall, ToolTypeOK
  <2>2. call'[c] \in CallState
    <3>1. g \in 0..MaxGen /\ 0 \in 0..MaxEpoch
      BY DEF ToolTypeOK
    <3>2. CASE late
      BY <2>1, <3>1, <3>2 DEF CallState, New
    <3>3. CASE ~late
      BY <2>1, <3>1, <3>3 DEF CallState, New
    <3> QED
      BY <3>2, <3>3
  <2>3. stored' \in [Call -> CallRecord]
    BY <1>3 DEF StartToolCall, ToolTypeOK, CallRecord
  <2> QED
    BY <1>3, <2>2, <2>3 DEF StartToolCall, ToolTypeOK, ownership
<1>4. ASSUME NEW c \in Call, Claim(c)
      PROVE  ToolTypeOK'
  <2>1. call'[c] \in CallState
    BY <1>4 DEF Claim, ToolTypeOK, CallState
  <2>2. row' \in KeyRecord
    BY <1>4 DEF Claim, Claimed, ToolTypeOK, KeyRecord, CallState
  <2> QED
    BY <1>4, <2>1, <2>2 DEF Claim, ToolTypeOK, ownership
<1>5. ASSUME NEW c \in Call, ClaimAnswerLost(c)
      PROVE  ToolTypeOK'
  <2>1. call'[c] = [call[c] EXCEPT !.pc = "finish", !.result = "failed"]
    BY <1>5 DEF ClaimAnswerLost, ToolTypeOK
  <2>2. call'[c] \in CallState
    BY <2>1 DEF ToolTypeOK, CallState
  <2>3. row' \in KeyRecord
    BY <1>5 DEF ClaimAnswerLost, Claimed, ToolTypeOK, KeyRecord, CallState
  <2> QED
    BY <1>5, <2>2, <2>3 DEF ClaimAnswerLost, ToolTypeOK, ownership
<1>6. ASSUME NEW c \in Call, CancelBeforeExecution(c)
      PROVE  ToolTypeOK'
  <2>1. call'[c] = [call[c] EXCEPT !.pc = "release", !.result = "failed"]
    BY <1>6 DEF CancelBeforeExecution, ToolTypeOK
  <2>2. call'[c] \in CallState
    BY <2>1 DEF ToolTypeOK, CallState
  <2> QED
    BY <1>6, <2>2 DEF CancelBeforeExecution, ToolTypeOK, ownership
<1>7. ASSUME NEW c \in Call, ReleaseClaim(c)
      PROVE  ToolTypeOK'
  <2>1. call'[c] \in CallState
    BY <1>7 DEF ReleaseClaim, ToolTypeOK, CallState
  <2>2. row' \in KeyRecord
    BY <1>7 DEF ReleaseClaim, NoRow, NoGen, ToolTypeOK, KeyRecord
  <2> QED
    BY <1>7, <2>1, <2>2 DEF ReleaseClaim, ToolTypeOK, ownership
<1>8. ASSUME NEW c \in Call, Execute(c)
      PROVE  ToolTypeOK'
  <2>1. call'[c] = [call[c] EXCEPT !.pc = "running", !.ran = TRUE]
    BY <1>8 DEF Execute, ToolTypeOK
  <2>2. call'[c] \in CallState
    BY <2>1 DEF ToolTypeOK, CallState
  <2> QED
    BY <1>8, <2>2 DEF Execute, ToolTypeOK, ownership
<1>9. ASSUME NEW c \in Call, NEW r \in {"succeeded", "failed"}, ExecutorSettles(c, r)
      PROVE  ToolTypeOK'
  <2>1. call'[c] = [call[c] EXCEPT !.pc = "complete", !.result = r]
    BY <1>9 DEF ExecutorSettles, ToolTypeOK
  <2>2. call'[c] \in CallState
    BY <2>1 DEF ToolTypeOK, CallState
  <2> QED
    BY <1>9, <2>2 DEF ExecutorSettles, ToolTypeOK, ownership
<1>10. ASSUME NEW c \in Call, Complete(c)
       PROVE  ToolTypeOK'
  <2>1. call'[c] \in CallState
    BY <1>10 DEF Complete, ToolTypeOK, CallState
  <2>2. row' \in KeyRecord
    BY <1>10 DEF Complete, ToolTypeOK, KeyRecord, CallState
  <2> QED
    BY <1>10, <2>1, <2>2 DEF Complete, ToolTypeOK, ownership
<1>11. ASSUME NEW c \in Call, CompleteFails(c)
       PROVE  ToolTypeOK'
  <2>1. call'[c] = [call[c] EXCEPT !.pc = "finish", !.result = "failed", !.unrecorded = TRUE]
    BY <1>11 DEF CompleteFails, ToolTypeOK
  <2>2. call'[c] \in CallState
    BY <2>1 DEF ToolTypeOK, CallState
  <2>3. row' \in KeyRecord
    BY <1>11 DEF CompleteFails, ToolTypeOK, KeyRecord, CallState
  <2> QED
    BY <1>11, <2>2, <2>3 DEF CompleteFails, ToolTypeOK, ownership
<1>12. ASSUME NEW c \in Call, FinishToolCall(c)
       PROVE  ToolTypeOK'
  <2>1. call'[c] \in CallState
    BY <1>12 DEF FinishToolCall, ToolTypeOK, CallState
  <2>2. stored' \in [Call -> CallRecord]
    BY <1>12 DEF FinishToolCall, ToolTypeOK, CallRecord, CallState
  <2> QED
    BY <1>12, <2>1, <2>2 DEF FinishToolCall, ToolTypeOK, ownership
<1>13. ASSUME NEW c \in Call, FinishFails(c)
       PROVE  ToolTypeOK'
  <2>1. call'[c] \in CallState
    BY <1>13 DEF FinishFails, ToolTypeOK, CallState
  <2> QED
    BY <1>13, <2>1 DEF FinishFails, ToolTypeOK, ownership
<1>14. ASSUME NEW p \in Proc, AttachSession(p)
       PROVE  ToolTypeOK'
  <2>1. gen' \in 0..MaxGen
    BY <1>14 DEF AttachSession, ToolTypeOK
  <2>2. attaching'[p] = [NotAttaching EXCEPT !.gen = gen', !.pc = "list"]
    BY <1>14 DEF AttachSession, ToolTypeOK
  <2>3. attaching'[p] \in AttachState
    BY <2>1, <2>2 DEF AttachState, NotAttaching
  <2> QED
    BY <1>14, <2>1, <2>3 DEF AttachSession, ToolTypeOK
<1>15. ASSUME NEW p \in Proc, ListRunning(p)
       PROVE  ToolTypeOK'
  <2> DEFINE running == {c \in Call : stored[c].status = "running"}
  <2>1. attaching'[p] = [attaching[p] EXCEPT !.pc = "prepare", !.prepared = running, !.todo = running]
    BY <1>15 DEF ListRunning, ToolTypeOK
  <2>2. running \in SUBSET Call
    OBVIOUS
  <2> HIDE DEF running
  <2>3. attaching'[p] \in AttachState
    BY <2>1, <2>2 DEF ToolTypeOK, AttachState
  <2> QED
    BY <1>15, <2>3 DEF ListRunning, ToolTypeOK
<1>16. ASSUME NEW p \in Proc, NEW c \in Call, QuarantineRunning(p, c)
       PROVE  ToolTypeOK'
  <2>1. PICK T \in SUBSET Call, R \in SUBSET Call :
           attaching'[p] = [attaching[p] EXCEPT !.todo = T, !.replay = R]
    BY <1>16 DEF QuarantineRunning, ToolTypeOK, AttachState
  <2>2. attaching'[p] \in AttachState
    BY <2>1 DEF ToolTypeOK, AttachState
  <2>3. row' \in KeyRecord
    BY <1>16 DEF QuarantineRunning, Quarantined, ToolTypeOK, KeyRecord, AttachState
  <2> QED
    BY <1>16, <2>2, <2>3 DEF QuarantineRunning, ToolTypeOK
<1>17. ASSUME NEW p \in Proc, RecoveryTransaction(p)
       PROVE  ToolTypeOK'
  <2>1. attaching'[p] \in AttachState
    BY <1>17 DEF RecoveryTransaction, ToolTypeOK, AttachState, NotAttaching, NoGen
  <2>2. stored' \in [Call -> CallRecord]
    BY <1>17 DEF RecoveryTransaction, ToolTypeOK, CallRecord
  <2>3. att' \in [Proc -> 0..MaxGen]
    BY <1>17 DEF RecoveryTransaction, ToolTypeOK, AttachState
  <2> QED
    BY <1>17, <2>1, <2>2, <2>3 DEF RecoveryTransaction, ToolTypeOK
<1>18. ASSUME NEW p \in Proc, AttachFails(p)
       PROVE  ToolTypeOK'
  <2>1. attaching'[p] \in AttachState
    BY <1>18 DEF AttachFails, ToolTypeOK, AttachState, NotAttaching, NoGen
  <2> QED
    BY <1>18, <2>1 DEF AttachFails, ToolTypeOK
<1>19. ASSUME NEW p \in Proc, Detach(p)
       PROVE  ToolTypeOK'
  BY <1>19 DEF Detach, ToolTypeOK, NoGen
<1>20. ASSUME NEW p \in Proc, Crash(p)
       PROVE  ToolTypeOK'
  <2>1. attaching'[p] \in AttachState
    BY <1>20 DEF Crash, ToolTypeOK, AttachState, NotAttaching, NoGen
  <2>2. call' \in [Call -> CallState]
    BY <1>20, <2>1 DEF Crash, ToolTypeOK, CallState
  <2> QED
    BY <1>20, <2>1, <2>2 DEF Crash, ToolTypeOK, NoGen
<1>21. CASE UNCHANGED vars
  BY <1>21 DEF vars, ToolTypeOK
<1> QED
  BY <1>1, <1>2, <1>3, <1>4, <1>5, <1>6, <1>7, <1>8, <1>9, <1>10, <1>11, <1>12, <1>13, <1>14,
     <1>15, <1>16, <1>17, <1>18, <1>19, <1>20, <1>21
     DEF Next, CallStep, ProcStep

\* Generations and lifetimes in use have been issued.
LEMMA IssuedStep == ToolInv /\ ToolTypeOK' /\ [Next]_vars => Issued'
<1> SUFFICES ASSUME ToolInv, ToolTypeOK', [Next]_vars
             PROVE  Issued'
  BY DEF Issued
<1> USE ToolBounds DEF ToolInv
<1>1. CASE Lapse
  BY <1>1 DEF Lapse, ToolTypeOK, KeyRecord, CallState, AttachState, Issued
<1>2. CASE Expire
  BY <1>2 DEF Expire, ownership, NoRow, NoGen, ToolTypeOK, KeyRecord, CallState, AttachState,
     Issued
<1>3. ASSUME NEW c \in Call, NEW p \in Proc, NEW late \in BOOLEAN, StartToolCall(c, p, late)
      PROVE  Issued'
  BY <1>3 DEF StartToolCall, ownership, MayWrite, Fenced, Unfenced, New, NoGen, ToolTypeOK,
     KeyRecord, CallState, AttachState, Issued
<1>4. ASSUME NEW c \in Call, Claim(c)
      PROVE  Issued'
  <2>1. row'.gen <= gen
    BY <1>4 DEF Claim, Fenced, Claimable, Claimed, ToolTypeOK, KeyRecord, CallState, Issued
  <2>2. \A e \in Call : call'[e].lease = call[e].lease /\ call'[e].claimEpoch <= epoch
    BY <1>4 DEF Claim, ToolTypeOK, CallState, Issued
  <2> QED
    BY <1>4, <2>1, <2>2 DEF Claim, ownership, Issued
<1>5. ASSUME NEW c \in Call, ClaimAnswerLost(c)
      PROVE  Issued'
  BY <1>5 DEF ClaimAnswerLost, ownership, Fenced, Claimable, Claimed, ToolTypeOK, KeyRecord,
     CallState, AttachState, Issued
<1>6. ASSUME NEW c \in Call, CancelBeforeExecution(c)
      PROVE  Issued'
  BY <1>6 DEF CancelBeforeExecution, ownership, ToolTypeOK, KeyRecord, CallState, AttachState,
     Issued
<1>7. ASSUME NEW c \in Call, ReleaseClaim(c)
      PROVE  Issued'
  BY <1>7 DEF ReleaseClaim, ownership, Completable, NoRow, NoGen, ToolTypeOK, KeyRecord,
     CallState, AttachState, Issued
<1>8. ASSUME NEW c \in Call, Execute(c)
      PROVE  Issued'
  BY <1>8 DEF Execute, ownership, ToolTypeOK, KeyRecord, CallState, AttachState, Issued
<1>9. ASSUME NEW c \in Call, NEW r \in {"succeeded", "failed"}, ExecutorSettles(c, r)
      PROVE  Issued'
  BY <1>9 DEF ExecutorSettles, ownership, ToolTypeOK, KeyRecord, CallState, AttachState, Issued
<1>10. ASSUME NEW c \in Call, Complete(c)
       PROVE  Issued'
  <2>1. row'.gen <= gen
    BY <1>10 DEF Complete, Completable, ToolTypeOK, KeyRecord, CallState, Issued
  <2>2. \A e \in Call : call'[e].lease = call[e].lease /\ call'[e].claimEpoch <= epoch
    BY <1>10 DEF Complete, ToolTypeOK, CallState, Issued
  <2> QED
    BY <1>10, <2>1, <2>2 DEF Complete, ownership, Issued
<1>11. ASSUME NEW c \in Call, CompleteFails(c)
       PROVE  Issued'
  BY <1>11 DEF CompleteFails, ownership, Completable, ToolTypeOK, KeyRecord, CallState,
     AttachState, Issued
<1>12. ASSUME NEW c \in Call, FinishToolCall(c)
       PROVE  Issued'
  BY <1>12 DEF FinishToolCall, ownership, ToolTypeOK, KeyRecord, CallState, AttachState, Issued
<1>13. ASSUME NEW c \in Call, FinishFails(c)
       PROVE  Issued'
  BY <1>13 DEF FinishFails, ownership, ToolTypeOK, KeyRecord, CallState, AttachState, Issued
<1>14. ASSUME NEW p \in Proc, AttachSession(p)
       PROVE  Issued'
  BY <1>14 DEF AttachSession, NotAttaching, NoGen, ToolTypeOK, KeyRecord, CallState,
     AttachState, Issued
<1>15. ASSUME NEW p \in Proc, ListRunning(p)
       PROVE  Issued'
  <2>1. \A q \in Proc : attaching'[q].gen = attaching[q].gen
    BY <1>15 DEF ListRunning, ToolTypeOK, AttachState
  <2> QED
    BY <1>15, <2>1 DEF ListRunning, Issued
<1>16. ASSUME NEW p \in Proc, NEW c \in Call, QuarantineRunning(p, c)
       PROVE  Issued'
  BY <1>16 DEF QuarantineRunning, Quarantined, Fenced, ToolTypeOK, KeyRecord, CallState,
     AttachState, Issued
<1>17. ASSUME NEW p \in Proc, RecoveryTransaction(p)
       PROVE  Issued'
  BY <1>17 DEF RecoveryTransaction, NotAttaching, Fenced, NoGen, ToolTypeOK, KeyRecord,
     CallState, AttachState, Issued
<1>18. ASSUME NEW p \in Proc, AttachFails(p)
       PROVE  Issued'
  BY <1>18 DEF AttachFails, NotAttaching, NoGen, ToolTypeOK, KeyRecord, CallState, AttachState,
     Issued
<1>19. ASSUME NEW p \in Proc, Detach(p)
       PROVE  Issued'
  BY <1>19 DEF Detach, NoGen, ToolTypeOK, KeyRecord, CallState, AttachState, Issued
<1>20. ASSUME NEW p \in Proc, Crash(p)
       PROVE  Issued'
  BY <1>20 DEF Crash, NotAttaching, NoGen, ToolTypeOK, KeyRecord, CallState, AttachState,
     Issued
<1>21. CASE UNCHANGED vars
  BY <1>21 DEF vars, ToolTypeOK, KeyRecord, CallState, AttachState, Issued
<1> QED
  BY <1>1, <1>2, <1>3, <1>4, <1>5, <1>6, <1>7, <1>8, <1>9, <1>10, <1>11, <1>12, <1>13, <1>14,
     <1>15, <1>16, <1>17, <1>18, <1>19, <1>20, <1>21 DEF Next, CallStep, ProcStep

\* A call's executor runs only after its claim was granted.
LEMMA CallPlaceStep == ToolInv /\ ToolTypeOK' /\ [Next]_vars => CallPlace'
<1> SUFFICES ASSUME ToolInv, ToolTypeOK', [Next]_vars, NEW d \in Call
             PROVE  PlaceOK(d)'
  BY DEF CallPlace
<1> USE ToolBounds DEF ToolInv
<1>1. CASE Lapse
  BY <1>1 DEF Lapse, ToolTypeOK, CallState, CallPlace, PlaceOK
<1>2. CASE Expire
  BY <1>2 DEF Expire, ownership, NoRow, NoGen, ToolTypeOK, CallState, CallPlace, PlaceOK
<1>3. ASSUME NEW c \in Call, NEW p \in Proc, NEW late \in BOOLEAN, StartToolCall(c, p, late)
      PROVE  PlaceOK(d)'
  BY <1>3 DEF StartToolCall, ownership, MayWrite, Fenced, Unfenced, New, NoGen, ToolTypeOK,
     CallState, CallPlace, PlaceOK
<1>4. ASSUME NEW c \in Call, Claim(c)
      PROVE  PlaceOK(d)'
  BY <1>4 DEF Claim, ownership, Fenced, Claimable, Claimed, ToolTypeOK, CallState, CallPlace,
     PlaceOK
<1>5. ASSUME NEW c \in Call, ClaimAnswerLost(c)
      PROVE  PlaceOK(d)'
  BY <1>5 DEF ClaimAnswerLost, ownership, Fenced, Claimable, Claimed, ToolTypeOK, CallState,
     CallPlace, PlaceOK
<1>6. ASSUME NEW c \in Call, CancelBeforeExecution(c)
      PROVE  PlaceOK(d)'
  BY <1>6 DEF CancelBeforeExecution, ownership, ToolTypeOK, CallState, CallPlace, PlaceOK
<1>7. ASSUME NEW c \in Call, ReleaseClaim(c)
      PROVE  PlaceOK(d)'
  BY <1>7 DEF ReleaseClaim, ownership, Completable, NoRow, NoGen, ToolTypeOK, CallState,
     CallPlace, PlaceOK
<1>8. ASSUME NEW c \in Call, Execute(c)
      PROVE  PlaceOK(d)'
  BY <1>8 DEF Execute, ownership, ToolTypeOK, CallState, CallPlace, PlaceOK
<1>9. ASSUME NEW c \in Call, NEW r \in {"succeeded", "failed"}, ExecutorSettles(c, r)
      PROVE  PlaceOK(d)'
  BY <1>9 DEF ExecutorSettles, ownership, ToolTypeOK, CallState, CallPlace, PlaceOK
<1>10. ASSUME NEW c \in Call, Complete(c)
       PROVE  PlaceOK(d)'
  BY <1>10 DEF Complete, ownership, Completable, ToolTypeOK, CallState, CallPlace, PlaceOK
<1>11. ASSUME NEW c \in Call, CompleteFails(c)
       PROVE  PlaceOK(d)'
  BY <1>11 DEF CompleteFails, ownership, Completable, ToolTypeOK, CallState, CallPlace, PlaceOK
<1>12. ASSUME NEW c \in Call, FinishToolCall(c)
       PROVE  PlaceOK(d)'
  BY <1>12 DEF FinishToolCall, ownership, ToolTypeOK, CallState, CallPlace, PlaceOK
<1>13. ASSUME NEW c \in Call, FinishFails(c)
       PROVE  PlaceOK(d)'
  BY <1>13 DEF FinishFails, ownership, ToolTypeOK, CallState, CallPlace, PlaceOK
<1>14. ASSUME NEW p \in Proc, AttachSession(p)
       PROVE  PlaceOK(d)'
  BY <1>14 DEF AttachSession, NotAttaching, NoGen, ToolTypeOK, CallState, CallPlace, PlaceOK
<1>15. ASSUME NEW p \in Proc, ListRunning(p)
       PROVE  PlaceOK(d)'
  BY <1>15 DEF ListRunning, ToolTypeOK, CallState, CallPlace, PlaceOK
<1>16. ASSUME NEW p \in Proc, NEW c \in Call, QuarantineRunning(p, c)
       PROVE  PlaceOK(d)'
  BY <1>16 DEF QuarantineRunning, Quarantined, Fenced, ToolTypeOK, CallState, CallPlace,
     PlaceOK
<1>17. ASSUME NEW p \in Proc, RecoveryTransaction(p)
       PROVE  PlaceOK(d)'
  BY <1>17 DEF RecoveryTransaction, NotAttaching, Fenced, NoGen, ToolTypeOK, CallState,
     CallPlace, PlaceOK
<1>18. ASSUME NEW p \in Proc, AttachFails(p)
       PROVE  PlaceOK(d)'
  BY <1>18 DEF AttachFails, NotAttaching, NoGen, ToolTypeOK, CallState, CallPlace, PlaceOK
<1>19. ASSUME NEW p \in Proc, Detach(p)
       PROVE  PlaceOK(d)'
  BY <1>19 DEF Detach, NoGen, ToolTypeOK, CallState, CallPlace, PlaceOK
<1>20. ASSUME NEW p \in Proc, Crash(p)
       PROVE  PlaceOK(d)'
  BY <1>20 DEF Crash, NotAttaching, NoGen, ToolTypeOK, CallState, CallPlace, PlaceOK
<1>21. CASE UNCHANGED vars
  BY <1>21 DEF vars, ToolTypeOK, CallState, CallPlace, PlaceOK
<1> QED
  BY <1>1, <1>2, <1>3, <1>4, <1>5, <1>6, <1>7, <1>8, <1>9, <1>10, <1>11, <1>12, <1>13, <1>14,
     <1>15, <1>16, <1>17, <1>18, <1>19, <1>20, <1>21 DEF Next, CallStep, ProcStep

\* An owner sees no record of an earlier owner running.
LEMMA OwnerStep == ToolInv /\ ToolTypeOK' /\ [Next]_vars => OwnerSeesOwnCalls'
<1> SUFFICES ASSUME ToolInv, ToolTypeOK', [Next]_vars,
                    NEW q \in Proc, att'[q] = gen', live', NEW d \in Call, stored'[d].status = "running"
             PROVE  stored'[d].gen = gen'
  BY DEF OwnerSeesOwnCalls
<1> USE ToolBounds DEF ToolInv
<1>1. CASE Lapse
  BY <1>1 DEF Lapse, ToolTypeOK, CallRecord, CallState, AttachState, Issued, OwnerSeesOwnCalls
<1>2. CASE Expire
  BY <1>2 DEF Expire, ownership, NoRow, NoGen, ToolTypeOK, CallRecord, CallState, AttachState,
     Issued, OwnerSeesOwnCalls
<1>3. ASSUME NEW c \in Call, NEW p \in Proc, NEW late \in BOOLEAN, StartToolCall(c, p, late)
      PROVE  stored'[d].gen = gen'
  BY <1>3 DEF StartToolCall, ownership, MayWrite, Fenced, Unfenced, New, NoGen, ToolTypeOK,
     CallRecord, CallState, AttachState, Issued, OwnerSeesOwnCalls
<1>4. ASSUME NEW c \in Call, Claim(c)
      PROVE  stored'[d].gen = gen'
  BY <1>4 DEF Claim, ownership, Fenced, Claimable, Claimed, ToolTypeOK, CallRecord, CallState,
     AttachState, Issued, OwnerSeesOwnCalls
<1>5. ASSUME NEW c \in Call, ClaimAnswerLost(c)
      PROVE  stored'[d].gen = gen'
  BY <1>5 DEF ClaimAnswerLost, ownership, Fenced, Claimable, Claimed, ToolTypeOK, CallRecord,
     CallState, AttachState, Issued, OwnerSeesOwnCalls
<1>6. ASSUME NEW c \in Call, CancelBeforeExecution(c)
      PROVE  stored'[d].gen = gen'
  BY <1>6 DEF CancelBeforeExecution, ownership, ToolTypeOK, CallRecord, CallState, AttachState,
     Issued, OwnerSeesOwnCalls
<1>7. ASSUME NEW c \in Call, ReleaseClaim(c)
      PROVE  stored'[d].gen = gen'
  BY <1>7 DEF ReleaseClaim, ownership, Completable, NoRow, NoGen, ToolTypeOK, CallRecord,
     CallState, AttachState, Issued, OwnerSeesOwnCalls
<1>8. ASSUME NEW c \in Call, Execute(c)
      PROVE  stored'[d].gen = gen'
  BY <1>8 DEF Execute, ownership, ToolTypeOK, CallRecord, CallState, AttachState, Issued,
     OwnerSeesOwnCalls
<1>9. ASSUME NEW c \in Call, NEW r \in {"succeeded", "failed"}, ExecutorSettles(c, r)
      PROVE  stored'[d].gen = gen'
  BY <1>9 DEF ExecutorSettles, ownership, ToolTypeOK, CallRecord, CallState, AttachState,
     Issued, OwnerSeesOwnCalls
<1>10. ASSUME NEW c \in Call, Complete(c)
       PROVE  stored'[d].gen = gen'
  BY <1>10 DEF Complete, ownership, Completable, ToolTypeOK, CallRecord, CallState,
     AttachState, Issued, OwnerSeesOwnCalls
<1>11. ASSUME NEW c \in Call, CompleteFails(c)
       PROVE  stored'[d].gen = gen'
  BY <1>11 DEF CompleteFails, ownership, Completable, ToolTypeOK, CallRecord, CallState,
     AttachState, Issued, OwnerSeesOwnCalls
<1>12. ASSUME NEW c \in Call, FinishToolCall(c)
       PROVE  stored'[d].gen = gen'
  BY <1>12 DEF FinishToolCall, ownership, ToolTypeOK, CallRecord, CallState, AttachState,
     Issued, OwnerSeesOwnCalls
<1>13. ASSUME NEW c \in Call, FinishFails(c)
       PROVE  stored'[d].gen = gen'
  BY <1>13 DEF FinishFails, ownership, ToolTypeOK, CallRecord, CallState, AttachState, Issued,
     OwnerSeesOwnCalls
<1>14. ASSUME NEW p \in Proc, AttachSession(p)
       PROVE  stored'[d].gen = gen'
  BY <1>14 DEF AttachSession, NotAttaching, NoGen, ToolTypeOK, CallRecord, CallState,
     AttachState, Issued, OwnerSeesOwnCalls
<1>15. ASSUME NEW p \in Proc, ListRunning(p)
       PROVE  stored'[d].gen = gen'
  BY <1>15 DEF ListRunning, ToolTypeOK, CallRecord, CallState, AttachState, Issued,
     OwnerSeesOwnCalls
<1>16. ASSUME NEW p \in Proc, NEW c \in Call, QuarantineRunning(p, c)
       PROVE  stored'[d].gen = gen'
  BY <1>16 DEF QuarantineRunning, Quarantined, Fenced, ToolTypeOK, CallRecord, CallState,
     AttachState, Issued, OwnerSeesOwnCalls
<1>17. ASSUME NEW p \in Proc, RecoveryTransaction(p)
       PROVE  stored'[d].gen = gen'
  BY <1>17 DEF RecoveryTransaction, NotAttaching, Fenced, NoGen, ToolTypeOK, CallRecord,
     CallState, AttachState, Issued, OwnerSeesOwnCalls
<1>18. ASSUME NEW p \in Proc, AttachFails(p)
       PROVE  stored'[d].gen = gen'
  BY <1>18 DEF AttachFails, NotAttaching, NoGen, ToolTypeOK, CallRecord, CallState,
     AttachState, Issued, OwnerSeesOwnCalls
<1>19. ASSUME NEW p \in Proc, Detach(p)
       PROVE  stored'[d].gen = gen'
  BY <1>19 DEF Detach, NoGen, ToolTypeOK, CallRecord, CallState, AttachState, Issued,
     OwnerSeesOwnCalls
<1>20. ASSUME NEW p \in Proc, Crash(p)
       PROVE  stored'[d].gen = gen'
  BY <1>20 DEF Crash, NotAttaching, NoGen, ToolTypeOK, CallRecord, CallState, AttachState,
     Issued, OwnerSeesOwnCalls
<1>21. CASE UNCHANGED vars
  BY <1>21 DEF vars, ToolTypeOK, CallRecord, CallState, AttachState, Issued, OwnerSeesOwnCalls
<1> QED
  BY <1>1, <1>2, <1>3, <1>4, <1>5, <1>6, <1>7, <1>8, <1>9, <1>10, <1>11, <1>12, <1>13, <1>14,
     <1>15, <1>16, <1>17, <1>18, <1>19, <1>20, <1>21 DEF Next, CallStep, ProcStep

\* A call that may still claim was started after recovery.
LEMMA StartedStep == ToolInv /\ ToolTypeOK' /\ [Next]_vars => StartedRecovered'
<1> SUFFICES ASSUME ToolInv, ToolTypeOK', [Next]_vars,
                    NEW e \in Call, call'[e].pc = "started", live', call'[e].lease = gen'
             PROVE  /\ stored'[e] = [status |-> "running", gen |-> gen']
                    /\ \A d \in Call : stored'[d].status = "running" => stored'[d].gen = gen'
  BY DEF StartedRecovered
<1> USE ToolBounds DEF ToolInv
<1>1. CASE Lapse
  BY <1>1 DEF Lapse, ToolTypeOK, CallRecord, CallState, AttachState, Issued, OwnerSeesOwnCalls,
     AttachesAlone, Alone, Recovering, StartedRecovered
<1>2. CASE Expire
  BY <1>2 DEF Expire, ownership, NoRow, NoGen, ToolTypeOK, CallRecord, CallState, AttachState,
     Issued, OwnerSeesOwnCalls, AttachesAlone, Alone, Recovering, StartedRecovered
<1>3. ASSUME NEW c \in Call, NEW p \in Proc, NEW late \in BOOLEAN, StartToolCall(c, p, late)
      PROVE  /\ stored'[e] = [status |-> "running", gen |-> gen']
                    /\ \A d \in Call : stored'[d].status = "running" => stored'[d].gen = gen'
  BY <1>3 DEF StartToolCall, ownership, MayWrite, Fenced, Unfenced, New, NoGen, ToolTypeOK,
     CallRecord, CallState, AttachState, Issued, OwnerSeesOwnCalls, AttachesAlone, Alone,
     Recovering, StartedRecovered
<1>4. ASSUME NEW c \in Call, Claim(c)
      PROVE  /\ stored'[e] = [status |-> "running", gen |-> gen']
                    /\ \A d \in Call : stored'[d].status = "running" => stored'[d].gen = gen'
  <2>1. call'[e] = call[e]
    BY <1>4 DEF Claim, ToolTypeOK, CallState
  <2> QED
    BY <1>4, <2>1 DEF Claim, ownership, StartedRecovered
<1>5. ASSUME NEW c \in Call, ClaimAnswerLost(c)
      PROVE  /\ stored'[e] = [status |-> "running", gen |-> gen']
                    /\ \A d \in Call : stored'[d].status = "running" => stored'[d].gen = gen'
  BY <1>5 DEF ClaimAnswerLost, ownership, Fenced, Claimable, Claimed, ToolTypeOK, CallRecord,
     CallState, AttachState, Issued, OwnerSeesOwnCalls, AttachesAlone, Alone, Recovering,
     StartedRecovered
<1>6. ASSUME NEW c \in Call, CancelBeforeExecution(c)
      PROVE  /\ stored'[e] = [status |-> "running", gen |-> gen']
                    /\ \A d \in Call : stored'[d].status = "running" => stored'[d].gen = gen'
  BY <1>6 DEF CancelBeforeExecution, ownership, ToolTypeOK, CallRecord, CallState, AttachState,
     Issued, OwnerSeesOwnCalls, AttachesAlone, Alone, Recovering, StartedRecovered
<1>7. ASSUME NEW c \in Call, ReleaseClaim(c)
      PROVE  /\ stored'[e] = [status |-> "running", gen |-> gen']
                    /\ \A d \in Call : stored'[d].status = "running" => stored'[d].gen = gen'
  BY <1>7 DEF ReleaseClaim, ownership, Completable, NoRow, NoGen, ToolTypeOK, CallRecord,
     CallState, AttachState, Issued, OwnerSeesOwnCalls, AttachesAlone, Alone, Recovering,
     StartedRecovered
<1>8. ASSUME NEW c \in Call, Execute(c)
      PROVE  /\ stored'[e] = [status |-> "running", gen |-> gen']
                    /\ \A d \in Call : stored'[d].status = "running" => stored'[d].gen = gen'
  BY <1>8 DEF Execute, ownership, ToolTypeOK, CallRecord, CallState, AttachState, Issued,
     OwnerSeesOwnCalls, AttachesAlone, Alone, Recovering, StartedRecovered
<1>9. ASSUME NEW c \in Call, NEW r \in {"succeeded", "failed"}, ExecutorSettles(c, r)
      PROVE  /\ stored'[e] = [status |-> "running", gen |-> gen']
                    /\ \A d \in Call : stored'[d].status = "running" => stored'[d].gen = gen'
  BY <1>9 DEF ExecutorSettles, ownership, ToolTypeOK, CallRecord, CallState, AttachState,
     Issued, OwnerSeesOwnCalls, AttachesAlone, Alone, Recovering, StartedRecovered
<1>10. ASSUME NEW c \in Call, Complete(c)
       PROVE  /\ stored'[e] = [status |-> "running", gen |-> gen']
                    /\ \A d \in Call : stored'[d].status = "running" => stored'[d].gen = gen'
  <2>1. call'[e] = call[e]
    BY <1>10 DEF Complete, ToolTypeOK, CallState
  <2> QED
    BY <1>10, <2>1 DEF Complete, ownership, StartedRecovered
<1>11. ASSUME NEW c \in Call, CompleteFails(c)
       PROVE  /\ stored'[e] = [status |-> "running", gen |-> gen']
                    /\ \A d \in Call : stored'[d].status = "running" => stored'[d].gen = gen'
  BY <1>11 DEF CompleteFails, ownership, Completable, ToolTypeOK, CallRecord, CallState,
     AttachState, Issued, OwnerSeesOwnCalls, AttachesAlone, Alone, Recovering, StartedRecovered
<1>12. ASSUME NEW c \in Call, FinishToolCall(c)
       PROVE  /\ stored'[e] = [status |-> "running", gen |-> gen']
                    /\ \A d \in Call : stored'[d].status = "running" => stored'[d].gen = gen'
  BY <1>12 DEF FinishToolCall, ownership, ToolTypeOK, CallRecord, CallState, AttachState,
     Issued, OwnerSeesOwnCalls, AttachesAlone, Alone, Recovering, StartedRecovered
<1>13. ASSUME NEW c \in Call, FinishFails(c)
       PROVE  /\ stored'[e] = [status |-> "running", gen |-> gen']
                    /\ \A d \in Call : stored'[d].status = "running" => stored'[d].gen = gen'
  BY <1>13 DEF FinishFails, ownership, ToolTypeOK, CallRecord, CallState, AttachState, Issued,
     OwnerSeesOwnCalls, AttachesAlone, Alone, Recovering, StartedRecovered
<1>14. ASSUME NEW p \in Proc, AttachSession(p)
       PROVE  /\ stored'[e] = [status |-> "running", gen |-> gen']
                    /\ \A d \in Call : stored'[d].status = "running" => stored'[d].gen = gen'
  BY <1>14 DEF AttachSession, NotAttaching, NoGen, ToolTypeOK, CallRecord, CallState,
     AttachState, Issued, OwnerSeesOwnCalls, AttachesAlone, Alone, Recovering, StartedRecovered
<1>15. ASSUME NEW p \in Proc, ListRunning(p)
       PROVE  /\ stored'[e] = [status |-> "running", gen |-> gen']
                    /\ \A d \in Call : stored'[d].status = "running" => stored'[d].gen = gen'
  BY <1>15 DEF ListRunning, ToolTypeOK, CallRecord, CallState, AttachState, Issued,
     OwnerSeesOwnCalls, AttachesAlone, Alone, Recovering, StartedRecovered
<1>16. ASSUME NEW p \in Proc, NEW c \in Call, QuarantineRunning(p, c)
       PROVE  /\ stored'[e] = [status |-> "running", gen |-> gen']
                    /\ \A d \in Call : stored'[d].status = "running" => stored'[d].gen = gen'
  BY <1>16 DEF QuarantineRunning, Quarantined, Fenced, ToolTypeOK, CallRecord, CallState,
     AttachState, Issued, OwnerSeesOwnCalls, AttachesAlone, Alone, Recovering, StartedRecovered
<1>17. ASSUME NEW p \in Proc, RecoveryTransaction(p)
       PROVE  /\ stored'[e] = [status |-> "running", gen |-> gen']
                    /\ \A d \in Call : stored'[d].status = "running" => stored'[d].gen = gen'
  <2>1. Recovering(p) /\ call'[e] = call[e] /\ gen' = gen
    BY <1>17 DEF RecoveryTransaction, Recovering, Fenced
  <2> QED
    BY <2>1 DEF AttachesAlone, Alone
<1>18. ASSUME NEW p \in Proc, AttachFails(p)
       PROVE  /\ stored'[e] = [status |-> "running", gen |-> gen']
                    /\ \A d \in Call : stored'[d].status = "running" => stored'[d].gen = gen'
  BY <1>18 DEF AttachFails, NotAttaching, NoGen, ToolTypeOK, CallRecord, CallState,
     AttachState, Issued, OwnerSeesOwnCalls, AttachesAlone, Alone, Recovering, StartedRecovered
<1>19. ASSUME NEW p \in Proc, Detach(p)
       PROVE  /\ stored'[e] = [status |-> "running", gen |-> gen']
                    /\ \A d \in Call : stored'[d].status = "running" => stored'[d].gen = gen'
  BY <1>19 DEF Detach, NoGen, ToolTypeOK, CallRecord, CallState, AttachState, Issued,
     OwnerSeesOwnCalls, AttachesAlone, Alone, Recovering, StartedRecovered
<1>20. ASSUME NEW p \in Proc, Crash(p)
       PROVE  /\ stored'[e] = [status |-> "running", gen |-> gen']
                    /\ \A d \in Call : stored'[d].status = "running" => stored'[d].gen = gen'
  BY <1>20 DEF Crash, NotAttaching, NoGen, ToolTypeOK, CallRecord, CallState, AttachState,
     Issued, OwnerSeesOwnCalls, AttachesAlone, Alone, Recovering, StartedRecovered
<1>21. CASE UNCHANGED vars
  BY <1>21 DEF vars, ToolTypeOK, CallRecord, CallState, AttachState, Issued, OwnerSeesOwnCalls,
     AttachesAlone, Alone, Recovering, StartedRecovered
<1> QED
  BY <1>1, <1>2, <1>3, <1>4, <1>5, <1>6, <1>7, <1>8, <1>9, <1>10, <1>11, <1>12, <1>13, <1>14,
     <1>15, <1>16, <1>17, <1>18, <1>19, <1>20, <1>21 DEF Next, CallStep, ProcStep

\* Nobody works under the lease that is still being attached.
LEMMA AttachesAloneStep == ToolInv /\ ToolTypeOK' /\ [Next]_vars => AttachesAlone'
<1> SUFFICES ASSUME ToolInv, ToolTypeOK', [Next]_vars,
                    NEW q \in Proc, Recovering(q)'
             PROVE  Alone(q)'
  BY DEF AttachesAlone, Recovering
<1> USE ToolBounds DEF ToolInv
<1>1. CASE Lapse
  BY <1>1 DEF Lapse, ToolTypeOK, KeyRecord, CallState, AttachState, Issued, AttachesAlone,
     Alone, Recovering
<1>2. CASE Expire
  BY <1>2 DEF Expire, ownership, NoRow, NoGen, ToolTypeOK, KeyRecord, CallState, AttachState,
     Issued, AttachesAlone, Alone, Recovering
<1>3. ASSUME NEW c \in Call, NEW p \in Proc, NEW late \in BOOLEAN, StartToolCall(c, p, late)
      PROVE  Alone(q)'
  BY <1>3 DEF StartToolCall, ownership, MayWrite, Fenced, Unfenced, New, NoGen, ToolTypeOK,
     KeyRecord, CallState, AttachState, Issued, AttachesAlone, Alone, Recovering
<1>4. ASSUME NEW c \in Call, Claim(c)
      PROVE  Alone(q)'
  <2>1. Recovering(q) /\ Alone(q)
    BY <1>4 DEF Claim, ownership, AttachesAlone, Recovering
  <2>2. row' = row
    BY <1>4, <2>1 DEF Claim, Fenced, Alone, Recovering
  <2>3. \A d \in Call : call'[d].pc = "started" => call'[d] = call[d]
    BY <1>4 DEF Claim, ToolTypeOK, CallState
  <2> QED
    BY <1>4, <2>1, <2>2, <2>3 DEF Claim, ownership, Alone, Recovering
<1>5. ASSUME NEW c \in Call, ClaimAnswerLost(c)
      PROVE  Alone(q)'
  BY <1>5 DEF ClaimAnswerLost, ownership, Fenced, Claimable, Claimed, ToolTypeOK, KeyRecord,
     CallState, AttachState, Issued, AttachesAlone, Alone, Recovering
<1>6. ASSUME NEW c \in Call, CancelBeforeExecution(c)
      PROVE  Alone(q)'
  BY <1>6 DEF CancelBeforeExecution, ownership, ToolTypeOK, KeyRecord, CallState, AttachState,
     Issued, AttachesAlone, Alone, Recovering
<1>7. ASSUME NEW c \in Call, ReleaseClaim(c)
      PROVE  Alone(q)'
  BY <1>7 DEF ReleaseClaim, ownership, Completable, NoRow, NoGen, ToolTypeOK, KeyRecord,
     CallState, AttachState, Issued, AttachesAlone, Alone, Recovering
<1>8. ASSUME NEW c \in Call, Execute(c)
      PROVE  Alone(q)'
  BY <1>8 DEF Execute, ownership, ToolTypeOK, KeyRecord, CallState, AttachState, Issued,
     AttachesAlone, Alone, Recovering
<1>9. ASSUME NEW c \in Call, NEW r \in {"succeeded", "failed"}, ExecutorSettles(c, r)
      PROVE  Alone(q)'
  BY <1>9 DEF ExecutorSettles, ownership, ToolTypeOK, KeyRecord, CallState, AttachState,
     Issued, AttachesAlone, Alone, Recovering
<1>10. ASSUME NEW c \in Call, Complete(c)
       PROVE  Alone(q)'
  <2>1. Recovering(q) /\ Alone(q)
    BY <1>10 DEF Complete, ownership, AttachesAlone, Recovering
  <2>2. /\ row'.gen = row.gen
        /\ row'.status = "claimed" => row.status = "claimed"
    BY <1>10 DEF Complete, Completable, CallPlace, PlaceOK, ToolTypeOK, KeyRecord
  <2>3. \A d \in Call : call'[d].pc = "started" => call'[d] = call[d]
    BY <1>10 DEF Complete, ToolTypeOK, CallState
  <2> QED
    BY <1>10, <2>1, <2>2, <2>3 DEF Complete, ownership, Alone, Recovering
<1>11. ASSUME NEW c \in Call, CompleteFails(c)
       PROVE  Alone(q)'
  BY <1>11 DEF CompleteFails, ownership, Completable, ToolTypeOK, KeyRecord, CallState,
     AttachState, Issued, AttachesAlone, Alone, Recovering
<1>12. ASSUME NEW c \in Call, FinishToolCall(c)
       PROVE  Alone(q)'
  BY <1>12 DEF FinishToolCall, ownership, ToolTypeOK, KeyRecord, CallState, AttachState,
     Issued, AttachesAlone, Alone, Recovering
<1>13. ASSUME NEW c \in Call, FinishFails(c)
       PROVE  Alone(q)'
  BY <1>13 DEF FinishFails, ownership, ToolTypeOK, KeyRecord, CallState, AttachState, Issued,
     AttachesAlone, Alone, Recovering
<1>14. ASSUME NEW p \in Proc, AttachSession(p)
       PROVE  Alone(q)'
  BY <1>14 DEF AttachSession, NotAttaching, NoGen, ToolTypeOK, KeyRecord, CallState,
     AttachState, Issued, AttachesAlone, Alone, Recovering
<1>15. ASSUME NEW p \in Proc, ListRunning(p)
       PROVE  Alone(q)'
  <2>1. \A z \in Proc :
           /\ attaching'[z].gen = attaching[z].gen
           /\ attaching[z].pc = "none" => attaching'[z].pc = "none"
    BY <1>15 DEF ListRunning, ToolTypeOK, AttachState
  <2>2. ASSUME NEW z \in Proc, Recovering(z)'
        PROVE  Recovering(z)
    BY <1>15, <2>1, <2>2 DEF ListRunning, Recovering
  <2>3. Alone(q)
    BY <2>2 DEF AttachesAlone
  <2> QED
    BY <1>15, <2>2, <2>3 DEF ListRunning, Alone
<1>16. ASSUME NEW p \in Proc, NEW c \in Call, QuarantineRunning(p, c)
       PROVE  Alone(q)'
  BY <1>16 DEF QuarantineRunning, Quarantined, Fenced, ToolTypeOK, KeyRecord, CallState,
     AttachState, Issued, AttachesAlone, Alone, Recovering
<1>17. ASSUME NEW p \in Proc, RecoveryTransaction(p)
       PROVE  Alone(q)'
  BY <1>17 DEF RecoveryTransaction, NotAttaching, Fenced, NoGen, ToolTypeOK, KeyRecord,
     CallState, AttachState, Issued, AttachesAlone, Alone, Recovering
<1>18. ASSUME NEW p \in Proc, AttachFails(p)
       PROVE  Alone(q)'
  BY <1>18 DEF AttachFails, NotAttaching, NoGen, ToolTypeOK, KeyRecord, CallState, AttachState,
     Issued, AttachesAlone, Alone, Recovering
<1>19. ASSUME NEW p \in Proc, Detach(p)
       PROVE  Alone(q)'
  BY <1>19 DEF Detach, NoGen, ToolTypeOK, KeyRecord, CallState, AttachState, Issued,
     AttachesAlone, Alone, Recovering
<1>20. ASSUME NEW p \in Proc, Crash(p)
       PROVE  Alone(q)'
  BY <1>20 DEF Crash, NotAttaching, NoGen, ToolTypeOK, KeyRecord, CallState, AttachState,
     Issued, AttachesAlone, Alone, Recovering
<1>21. CASE UNCHANGED vars
  BY <1>21 DEF vars, ToolTypeOK, KeyRecord, CallState, AttachState, Issued, AttachesAlone,
     Alone, Recovering
<1> QED
  BY <1>1, <1>2, <1>3, <1>4, <1>5, <1>6, <1>7, <1>8, <1>9, <1>10, <1>11, <1>12, <1>13, <1>14,
     <1>15, <1>16, <1>17, <1>18, <1>19, <1>20, <1>21 DEF Next, CallStep, ProcStep

\* The list of an attaching process stays complete.
LEMMA ListStep == ToolInv /\ ToolTypeOK' /\ [Next]_vars => ListIsComplete'
<1> SUFFICES ASSUME ToolInv, ToolTypeOK', [Next]_vars,
                    NEW q \in Proc, Recovering(q)', attaching'[q].pc = "prepare",
                    NEW d \in Call, stored'[d].status = "running"
             PROVE  \/ d \in attaching'[q].todo
                    \/ ~(row'.status = "claimed" /\ row'.owner = d /\ row'.gen # gen')
  BY DEF ListIsComplete, Recovering
<1> USE ToolBounds DEF ToolInv
<1>1. CASE Lapse
  BY <1>1 DEF Lapse, ToolTypeOK, KeyRecord, CallState, CallRecord, AttachState, Issued,
     AttachesAlone, Alone, ListIsComplete, Recovering
<1>2. CASE Expire
  BY <1>2 DEF Expire, ownership, NoRow, NoGen, ToolTypeOK, KeyRecord, CallState, CallRecord,
     AttachState, Issued, AttachesAlone, Alone, ListIsComplete, Recovering
<1>3. ASSUME NEW c \in Call, NEW p \in Proc, NEW late \in BOOLEAN, StartToolCall(c, p, late)
      PROVE  \/ d \in attaching'[q].todo
                    \/ ~(row'.status = "claimed" /\ row'.owner = d /\ row'.gen # gen')
  BY <1>3 DEF StartToolCall, ownership, MayWrite, Fenced, Unfenced, New, NoGen, ToolTypeOK,
     KeyRecord, CallState, CallRecord, AttachState, Issued, AttachesAlone, Alone,
     ListIsComplete, Recovering
<1>4. ASSUME NEW c \in Call, Claim(c)
      PROVE  \/ d \in attaching'[q].todo
                    \/ ~(row'.status = "claimed" /\ row'.owner = d /\ row'.gen # gen')
  BY <1>4 DEF Claim, ownership, Fenced, Claimable, Claimed, ToolTypeOK, KeyRecord, CallState,
     CallRecord, AttachState, Issued, AttachesAlone, Alone, ListIsComplete, Recovering
<1>5. ASSUME NEW c \in Call, ClaimAnswerLost(c)
      PROVE  \/ d \in attaching'[q].todo
                    \/ ~(row'.status = "claimed" /\ row'.owner = d /\ row'.gen # gen')
  BY <1>5 DEF ClaimAnswerLost, ownership, Fenced, Claimable, Claimed, ToolTypeOK, KeyRecord,
     CallState, CallRecord, AttachState, Issued, AttachesAlone, Alone, ListIsComplete,
     Recovering
<1>6. ASSUME NEW c \in Call, CancelBeforeExecution(c)
      PROVE  \/ d \in attaching'[q].todo
                    \/ ~(row'.status = "claimed" /\ row'.owner = d /\ row'.gen # gen')
  BY <1>6 DEF CancelBeforeExecution, ownership, ToolTypeOK, KeyRecord, CallState, CallRecord,
     AttachState, Issued, AttachesAlone, Alone, ListIsComplete, Recovering
<1>7. ASSUME NEW c \in Call, ReleaseClaim(c)
      PROVE  \/ d \in attaching'[q].todo
                    \/ ~(row'.status = "claimed" /\ row'.owner = d /\ row'.gen # gen')
  BY <1>7 DEF ReleaseClaim, ownership, Completable, NoRow, NoGen, ToolTypeOK, KeyRecord,
     CallState, CallRecord, AttachState, Issued, AttachesAlone, Alone, ListIsComplete,
     Recovering
<1>8. ASSUME NEW c \in Call, Execute(c)
      PROVE  \/ d \in attaching'[q].todo
                    \/ ~(row'.status = "claimed" /\ row'.owner = d /\ row'.gen # gen')
  BY <1>8 DEF Execute, ownership, ToolTypeOK, KeyRecord, CallState, CallRecord, AttachState,
     Issued, AttachesAlone, Alone, ListIsComplete, Recovering
<1>9. ASSUME NEW c \in Call, NEW r \in {"succeeded", "failed"}, ExecutorSettles(c, r)
      PROVE  \/ d \in attaching'[q].todo
                    \/ ~(row'.status = "claimed" /\ row'.owner = d /\ row'.gen # gen')
  BY <1>9 DEF ExecutorSettles, ownership, ToolTypeOK, KeyRecord, CallState, CallRecord,
     AttachState, Issued, AttachesAlone, Alone, ListIsComplete, Recovering
<1>10. ASSUME NEW c \in Call, Complete(c)
       PROVE  \/ d \in attaching'[q].todo
                    \/ ~(row'.status = "claimed" /\ row'.owner = d /\ row'.gen # gen')
  BY <1>10 DEF Complete, ownership, Completable, ToolTypeOK, KeyRecord, CallState, CallRecord,
     AttachState, Issued, AttachesAlone, Alone, ListIsComplete, Recovering
<1>11. ASSUME NEW c \in Call, CompleteFails(c)
       PROVE  \/ d \in attaching'[q].todo
                    \/ ~(row'.status = "claimed" /\ row'.owner = d /\ row'.gen # gen')
  BY <1>11 DEF CompleteFails, ownership, Completable, ToolTypeOK, KeyRecord, CallState,
     CallRecord, AttachState, Issued, AttachesAlone, Alone, ListIsComplete, Recovering
<1>12. ASSUME NEW c \in Call, FinishToolCall(c)
       PROVE  \/ d \in attaching'[q].todo
                    \/ ~(row'.status = "claimed" /\ row'.owner = d /\ row'.gen # gen')
  BY <1>12 DEF FinishToolCall, ownership, ToolTypeOK, KeyRecord, CallState, CallRecord,
     AttachState, Issued, AttachesAlone, Alone, ListIsComplete, Recovering
<1>13. ASSUME NEW c \in Call, FinishFails(c)
       PROVE  \/ d \in attaching'[q].todo
                    \/ ~(row'.status = "claimed" /\ row'.owner = d /\ row'.gen # gen')
  BY <1>13 DEF FinishFails, ownership, ToolTypeOK, KeyRecord, CallState, CallRecord,
     AttachState, Issued, AttachesAlone, Alone, ListIsComplete, Recovering
<1>14. ASSUME NEW p \in Proc, AttachSession(p)
       PROVE  \/ d \in attaching'[q].todo
                    \/ ~(row'.status = "claimed" /\ row'.owner = d /\ row'.gen # gen')
  BY <1>14 DEF AttachSession, NotAttaching, NoGen, ToolTypeOK, KeyRecord, CallState,
     CallRecord, AttachState, Issued, AttachesAlone, Alone, ListIsComplete, Recovering
<1>15. ASSUME NEW p \in Proc, ListRunning(p)
       PROVE  \/ d \in attaching'[q].todo
                    \/ ~(row'.status = "claimed" /\ row'.owner = d /\ row'.gen # gen')
  <2>1. CASE q = p
    BY <1>15, <2>1 DEF ListRunning, ToolTypeOK, AttachState
  <2>2. CASE q # p
    <3>1. attaching'[q] = attaching[q]
      BY <1>15, <2>2 DEF ListRunning, ToolTypeOK
    <3> QED
      BY <1>15, <3>1 DEF ListRunning, ListIsComplete, Recovering
  <2> QED
    BY <2>1, <2>2
<1>16. ASSUME NEW p \in Proc, NEW c \in Call, QuarantineRunning(p, c)
       PROVE  \/ d \in attaching'[q].todo
                    \/ ~(row'.status = "claimed" /\ row'.owner = d /\ row'.gen # gen')
  BY <1>16 DEF QuarantineRunning, Quarantined, Fenced, ToolTypeOK, KeyRecord, CallState,
     CallRecord, AttachState, Issued, AttachesAlone, Alone, ListIsComplete, Recovering
<1>17. ASSUME NEW p \in Proc, RecoveryTransaction(p)
       PROVE  \/ d \in attaching'[q].todo
                    \/ ~(row'.status = "claimed" /\ row'.owner = d /\ row'.gen # gen')
  BY <1>17 DEF RecoveryTransaction, NotAttaching, Fenced, NoGen, ToolTypeOK, KeyRecord,
     CallState, CallRecord, AttachState, Issued, AttachesAlone, Alone, ListIsComplete,
     Recovering
<1>18. ASSUME NEW p \in Proc, AttachFails(p)
       PROVE  \/ d \in attaching'[q].todo
                    \/ ~(row'.status = "claimed" /\ row'.owner = d /\ row'.gen # gen')
  BY <1>18 DEF AttachFails, NotAttaching, NoGen, ToolTypeOK, KeyRecord, CallState, CallRecord,
     AttachState, Issued, AttachesAlone, Alone, ListIsComplete, Recovering
<1>19. ASSUME NEW p \in Proc, Detach(p)
       PROVE  \/ d \in attaching'[q].todo
                    \/ ~(row'.status = "claimed" /\ row'.owner = d /\ row'.gen # gen')
  BY <1>19 DEF Detach, NoGen, ToolTypeOK, KeyRecord, CallState, CallRecord, AttachState,
     Issued, AttachesAlone, Alone, ListIsComplete, Recovering
<1>20. ASSUME NEW p \in Proc, Crash(p)
       PROVE  \/ d \in attaching'[q].todo
                    \/ ~(row'.status = "claimed" /\ row'.owner = d /\ row'.gen # gen')
  BY <1>20 DEF Crash, NotAttaching, NoGen, ToolTypeOK, KeyRecord, CallState, CallRecord,
     AttachState, Issued, AttachesAlone, Alone, ListIsComplete, Recovering
<1>21. CASE UNCHANGED vars
  BY <1>21 DEF vars, ToolTypeOK, KeyRecord, CallState, CallRecord, AttachState, Issued,
     AttachesAlone, Alone, ListIsComplete, Recovering
<1> QED
  BY <1>1, <1>2, <1>3, <1>4, <1>5, <1>6, <1>7, <1>8, <1>9, <1>10, <1>11, <1>12, <1>13, <1>14,
     <1>15, <1>16, <1>17, <1>18, <1>19, <1>20, <1>21 DEF Next, CallStep, ProcStep

\* A claim is granted only while no execution of this lifetime is left unanswered: a claim
\* that a newer generation finds was settled by recovery before any call could ask.
LEMMA ClaimIsFirst ==
    ASSUME ToolInv, NEW c \in Call, call[c].pc = "started",
           Fenced(call[c].lease), Claimable(call[c].lease),
           NEW d \in Call, Executes(d)
    PROVE  call[d].claimEpoch # epoch
<1> SUFFICES ASSUME call[d].claimEpoch = epoch PROVE FALSE
  OBVIOUS
<1>1. row.status \notin {"succeeded", "failed"}
  BY DEF Claimable, NoRow
<1>2. Stands(d)
  BY <1>1 DEF ToolInv, Answered
<1>3. stored[d].gen # gen
  BY <1>2 DEF Stands, Claimed, Claimable, NoRow, Fenced
<1>4. stored[d].gen = gen
  BY <1>2 DEF Stands, ToolInv, StartedRecovered, Fenced
<1> QED
  BY <1>3, <1>4

\* An execution is answered for until its record expires or it is reported unrecorded.
LEMMA AnsweredStep == ToolInv /\ ToolTypeOK' /\ [Next]_vars => Answered'
<1> SUFFICES ASSUME ToolInv, ToolTypeOK', [Next]_vars,
                    NEW d \in Call, Executes(d)', call'[d].claimEpoch = epoch'
             PROVE  row'.status \in {"succeeded", "failed"} \/ Stands(d)'
  BY DEF Answered
<1> USE ToolBounds DEF ToolInv
<1>1. CASE Lapse
  BY <1>1 DEF Lapse, ToolTypeOK, KeyRecord, CallState, CallRecord, AttachState, Issued,
     AttachesAlone, Alone, ListIsComplete, Recovering, StartedRecovered, CallPlace, PlaceOK,
     Answered, Stands, Executes
<1>2. CASE Expire
  BY <1>2 DEF Expire, ownership, NoRow, NoGen, ToolTypeOK, KeyRecord, CallState, CallRecord,
     AttachState, Issued, AttachesAlone, Alone, ListIsComplete, Recovering, StartedRecovered,
     CallPlace, PlaceOK, Answered, Stands, Executes
<1>3. ASSUME NEW c \in Call, NEW p \in Proc, NEW late \in BOOLEAN, StartToolCall(c, p, late)
      PROVE  row'.status \in {"succeeded", "failed"} \/ Stands(d)'
  BY <1>3 DEF StartToolCall, ownership, MayWrite, Fenced, Unfenced, New, NoGen, ToolTypeOK,
     KeyRecord, CallState, CallRecord, AttachState, Issued, AttachesAlone, Alone,
     ListIsComplete, Recovering, StartedRecovered, CallPlace, PlaceOK, Answered, Stands,
     Executes
<1>4. ASSUME NEW c \in Call, Claim(c)
      PROVE  row'.status \in {"succeeded", "failed"} \/ Stands(d)'
  <2>1. CASE Fenced(call[c].lease) /\ Claimable(call[c].lease)
    <3>1. d = c
      <4>1. d # c => Executes(d) /\ call[d].claimEpoch = epoch
        BY <1>4 DEF Claim, ToolTypeOK, CallState, Executes
      <4> QED
        BY <1>4, <2>1, <4>1, ClaimIsFirst DEF Claim
    <3>2. stored[c] = [status |-> "running", gen |-> call[c].lease]
      BY <1>4, <2>1 DEF Claim, Fenced, StartedRecovered
    <3> QED
      BY <1>4, <2>1, <3>1, <3>2 DEF Claim, Stands, Claimed, ToolTypeOK, CallState
  <2>2. CASE ~(Fenced(call[c].lease) /\ Claimable(call[c].lease))
    <3>1. Executes(d) /\ d # c /\ call'[d] = call[d]
      BY <1>4, <2>2 DEF Claim, ToolTypeOK, CallState, CallPlace, PlaceOK, Executes
    <3> QED
      BY <1>4, <2>2, <3>1 DEF Claim, Answered, Stands
  <2> QED
    BY <2>1, <2>2
<1>5. ASSUME NEW c \in Call, ClaimAnswerLost(c)
      PROVE  row'.status \in {"succeeded", "failed"} \/ Stands(d)'
  <2>1. Executes(d) /\ d # c /\ call'[d] = call[d]
    BY <1>5 DEF ClaimAnswerLost, ToolTypeOK, CallState, CallPlace, PlaceOK, Executes
  <2>2. row' = row
    BY <1>5, <2>1, ClaimIsFirst DEF ClaimAnswerLost
  <2> QED
    BY <1>5, <2>1, <2>2 DEF ClaimAnswerLost, Answered, Stands
<1>6. ASSUME NEW c \in Call, CancelBeforeExecution(c)
      PROVE  row'.status \in {"succeeded", "failed"} \/ Stands(d)'
  BY <1>6 DEF CancelBeforeExecution, ownership, ToolTypeOK, KeyRecord, CallState, CallRecord,
     AttachState, Issued, AttachesAlone, Alone, ListIsComplete, Recovering, StartedRecovered,
     CallPlace, PlaceOK, Answered, Stands, Executes
<1>7. ASSUME NEW c \in Call, ReleaseClaim(c)
      PROVE  row'.status \in {"succeeded", "failed"} \/ Stands(d)'
  <2>1. Executes(d) /\ d # c /\ call'[d] = call[d]
    BY <1>7 DEF ReleaseClaim, ToolTypeOK, CallState, CallPlace, PlaceOK, Executes
  <2>2. row.status \in {"succeeded", "failed"} \/ Stands(d)
    BY <1>7, <2>1 DEF ReleaseClaim, Answered
  <2>3. row' = row
    BY <1>7, <2>1, <2>2 DEF ReleaseClaim, Completable, Stands, Claimed
  <2> QED
    BY <1>7, <2>1, <2>2, <2>3 DEF ReleaseClaim, Stands
<1>8. ASSUME NEW c \in Call, Execute(c)
      PROVE  row'.status \in {"succeeded", "failed"} \/ Stands(d)'
  BY <1>8 DEF Execute, ownership, ToolTypeOK, KeyRecord, CallState, CallRecord, AttachState,
     Issued, AttachesAlone, Alone, ListIsComplete, Recovering, StartedRecovered, CallPlace,
     PlaceOK, Answered, Stands, Executes
<1>9. ASSUME NEW c \in Call, NEW r \in {"succeeded", "failed"}, ExecutorSettles(c, r)
      PROVE  row'.status \in {"succeeded", "failed"} \/ Stands(d)'
  BY <1>9 DEF ExecutorSettles, ownership, ToolTypeOK, KeyRecord, CallState, CallRecord,
     AttachState, Issued, AttachesAlone, Alone, ListIsComplete, Recovering, StartedRecovered,
     CallPlace, PlaceOK, Answered, Stands, Executes
<1>10. ASSUME NEW c \in Call, Complete(c)
       PROVE  row'.status \in {"succeeded", "failed"} \/ Stands(d)'
  <2>1. CASE Completable(c, call[c].lease)
    BY <1>10, <2>1 DEF Complete, CallPlace, PlaceOK, ToolTypeOK, KeyRecord
  <2>2. CASE ~Completable(c, call[c].lease)
    <3>1. Executes(d) /\ d # c /\ call'[d] = call[d]
      BY <1>10, <2>2 DEF Complete, ToolTypeOK, CallState, Executes
    <3> QED
      BY <1>10, <2>2, <3>1 DEF Complete, Answered, Stands
  <2> QED
    BY <2>1, <2>2
<1>11. ASSUME NEW c \in Call, CompleteFails(c)
       PROVE  row'.status \in {"succeeded", "failed"} \/ Stands(d)'
  BY <1>11 DEF CompleteFails, ownership, Completable, ToolTypeOK, KeyRecord, CallState,
     CallRecord, AttachState, Issued, AttachesAlone, Alone, ListIsComplete, Recovering,
     StartedRecovered, CallPlace, PlaceOK, Answered, Stands, Executes
<1>12. ASSUME NEW c \in Call, FinishToolCall(c)
       PROVE  row'.status \in {"succeeded", "failed"} \/ Stands(d)'
  BY <1>12 DEF FinishToolCall, ownership, ToolTypeOK, KeyRecord, CallState, CallRecord,
     AttachState, Issued, AttachesAlone, Alone, ListIsComplete, Recovering, StartedRecovered,
     CallPlace, PlaceOK, Answered, Stands, Executes
<1>13. ASSUME NEW c \in Call, FinishFails(c)
       PROVE  row'.status \in {"succeeded", "failed"} \/ Stands(d)'
  BY <1>13 DEF FinishFails, ownership, ToolTypeOK, KeyRecord, CallState, CallRecord,
     AttachState, Issued, AttachesAlone, Alone, ListIsComplete, Recovering, StartedRecovered,
     CallPlace, PlaceOK, Answered, Stands, Executes
<1>14. ASSUME NEW p \in Proc, AttachSession(p)
       PROVE  row'.status \in {"succeeded", "failed"} \/ Stands(d)'
  BY <1>14 DEF AttachSession, NotAttaching, NoGen, ToolTypeOK, KeyRecord, CallState,
     CallRecord, AttachState, Issued, AttachesAlone, Alone, ListIsComplete, Recovering,
     StartedRecovered, CallPlace, PlaceOK, Answered, Stands, Executes
<1>15. ASSUME NEW p \in Proc, ListRunning(p)
       PROVE  row'.status \in {"succeeded", "failed"} \/ Stands(d)'
  BY <1>15 DEF ListRunning, ToolTypeOK, KeyRecord, CallState, CallRecord, AttachState, Issued,
     AttachesAlone, Alone, ListIsComplete, Recovering, StartedRecovered, CallPlace, PlaceOK,
     Answered, Stands, Executes
<1>16. ASSUME NEW p \in Proc, NEW c \in Call, QuarantineRunning(p, c)
       PROVE  row'.status \in {"succeeded", "failed"} \/ Stands(d)'
  BY <1>16 DEF QuarantineRunning, Quarantined, Fenced, ToolTypeOK, KeyRecord, CallState,
     CallRecord, AttachState, Issued, AttachesAlone, Alone, ListIsComplete, Recovering,
     StartedRecovered, CallPlace, PlaceOK, Answered, Stands, Executes
<1>17. ASSUME NEW p \in Proc, RecoveryTransaction(p)
       PROVE  row'.status \in {"succeeded", "failed"} \/ Stands(d)'
  <2>1. Executes(d) /\ call[d].claimEpoch = epoch
    BY <1>17 DEF RecoveryTransaction, Executes
  <2>2. Recovering(p)
    BY <1>17 DEF RecoveryTransaction, Recovering, Fenced
  <2>3. ~Stands(d)
    BY <1>17, <2>2 DEF RecoveryTransaction, ListIsComplete, AttachesAlone, Alone, Stands, Claimed
  <2> QED
    BY <1>17, <2>1, <2>3 DEF RecoveryTransaction, Answered
<1>18. ASSUME NEW p \in Proc, AttachFails(p)
       PROVE  row'.status \in {"succeeded", "failed"} \/ Stands(d)'
  BY <1>18 DEF AttachFails, NotAttaching, NoGen, ToolTypeOK, KeyRecord, CallState, CallRecord,
     AttachState, Issued, AttachesAlone, Alone, ListIsComplete, Recovering, StartedRecovered,
     CallPlace, PlaceOK, Answered, Stands, Executes
<1>19. ASSUME NEW p \in Proc, Detach(p)
       PROVE  row'.status \in {"succeeded", "failed"} \/ Stands(d)'
  BY <1>19 DEF Detach, NoGen, ToolTypeOK, KeyRecord, CallState, CallRecord, AttachState,
     Issued, AttachesAlone, Alone, ListIsComplete, Recovering, StartedRecovered, CallPlace,
     PlaceOK, Answered, Stands, Executes
<1>20. ASSUME NEW p \in Proc, Crash(p)
       PROVE  row'.status \in {"succeeded", "failed"} \/ Stands(d)'
  BY <1>20 DEF Crash, NotAttaching, NoGen, ToolTypeOK, KeyRecord, CallState, CallRecord,
     AttachState, Issued, AttachesAlone, Alone, ListIsComplete, Recovering, StartedRecovered,
     CallPlace, PlaceOK, Answered, Stands, Executes
<1>21. CASE UNCHANGED vars
  BY <1>21 DEF vars, ToolTypeOK, KeyRecord, CallState, CallRecord, AttachState, Issued,
     AttachesAlone, Alone, ListIsComplete, Recovering, StartedRecovered, CallPlace, PlaceOK,
     Answered, Stands, Executes
<1> QED
  BY <1>1, <1>2, <1>3, <1>4, <1>5, <1>6, <1>7, <1>8, <1>9, <1>10, <1>11, <1>12, <1>13, <1>14,
     <1>15, <1>16, <1>17, <1>18, <1>19, <1>20, <1>21 DEF Next, CallStep, ProcStep

\* A second execution does not begin in a lifetime of the record that has one.
LEMMA OnceStep == ToolInv /\ ToolTypeOK' /\ [Next]_vars => ExecutesOnce'
<1> SUFFICES ASSUME ToolInv, ToolTypeOK', [Next]_vars,
                    NEW d \in Call, NEW e \in Call, d # e, Executes(d)', Executes(e)'
             PROVE  call'[d].claimEpoch # call'[e].claimEpoch
  BY DEF ExecutesOnce
<1> USE ToolBounds DEF ToolInv
<1>1. CASE Lapse
  BY <1>1 DEF Lapse, ToolTypeOK, CallState, CallPlace, PlaceOK, ExecutesOnce, Executes
<1>2. CASE Expire
  BY <1>2 DEF Expire, ownership, NoRow, NoGen, ToolTypeOK, CallState, CallPlace, PlaceOK,
     ExecutesOnce, Executes
<1>3. ASSUME NEW c \in Call, NEW p \in Proc, NEW late \in BOOLEAN, StartToolCall(c, p, late)
      PROVE  call'[d].claimEpoch # call'[e].claimEpoch
  BY <1>3 DEF StartToolCall, ownership, MayWrite, Fenced, Unfenced, New, NoGen, ToolTypeOK,
     CallState, CallPlace, PlaceOK, ExecutesOnce, Executes
<1>4. ASSUME NEW c \in Call, Claim(c)
      PROVE  call'[d].claimEpoch # call'[e].claimEpoch
  <2>1. CASE Fenced(call[c].lease) /\ Claimable(call[c].lease)
    <3>1. \A f \in Call \ {c} : Executes(f)' => Executes(f) /\ call'[f].claimEpoch # epoch
      BY <1>4, <2>1, ClaimIsFirst DEF Claim, ToolTypeOK, Executes
    <3>2. call'[c].claimEpoch = epoch
      BY <1>4, <2>1 DEF Claim, ToolTypeOK, CallState
    <3>3. CASE d = c \/ e = c
      BY <3>1, <3>2, <3>3
    <3>4. CASE d # c /\ e # c
      BY <1>4, <3>1, <3>4 DEF Claim, ToolTypeOK, ExecutesOnce
    <3> QED
      BY <3>3, <3>4
  <2>2. CASE ~(Fenced(call[c].lease) /\ Claimable(call[c].lease))
    <3>1. \A f \in Call :
             /\ Executes(f)' => Executes(f)
             /\ call'[f].claimEpoch = call[f].claimEpoch
      BY <1>4, <2>2 DEF Claim, ToolTypeOK, CallState, CallPlace, PlaceOK, Executes
    <3> QED
      BY <3>1 DEF ExecutesOnce
  <2> QED
    BY <2>1, <2>2
<1>5. ASSUME NEW c \in Call, ClaimAnswerLost(c)
      PROVE  call'[d].claimEpoch # call'[e].claimEpoch
  BY <1>5 DEF ClaimAnswerLost, ownership, Fenced, Claimable, Claimed, ToolTypeOK, CallState,
     CallPlace, PlaceOK, ExecutesOnce, Executes
<1>6. ASSUME NEW c \in Call, CancelBeforeExecution(c)
      PROVE  call'[d].claimEpoch # call'[e].claimEpoch
  BY <1>6 DEF CancelBeforeExecution, ownership, ToolTypeOK, CallState, CallPlace, PlaceOK,
     ExecutesOnce, Executes
<1>7. ASSUME NEW c \in Call, ReleaseClaim(c)
      PROVE  call'[d].claimEpoch # call'[e].claimEpoch
  BY <1>7 DEF ReleaseClaim, ownership, Completable, NoRow, NoGen, ToolTypeOK, CallState,
     CallPlace, PlaceOK, ExecutesOnce, Executes
<1>8. ASSUME NEW c \in Call, Execute(c)
      PROVE  call'[d].claimEpoch # call'[e].claimEpoch
  BY <1>8 DEF Execute, ownership, ToolTypeOK, CallState, CallPlace, PlaceOK, ExecutesOnce,
     Executes
<1>9. ASSUME NEW c \in Call, NEW r \in {"succeeded", "failed"}, ExecutorSettles(c, r)
      PROVE  call'[d].claimEpoch # call'[e].claimEpoch
  BY <1>9 DEF ExecutorSettles, ownership, ToolTypeOK, CallState, CallPlace, PlaceOK,
     ExecutesOnce, Executes
<1>10. ASSUME NEW c \in Call, Complete(c)
       PROVE  call'[d].claimEpoch # call'[e].claimEpoch
  BY <1>10 DEF Complete, ownership, Completable, ToolTypeOK, CallState, CallPlace, PlaceOK,
     ExecutesOnce, Executes
<1>11. ASSUME NEW c \in Call, CompleteFails(c)
       PROVE  call'[d].claimEpoch # call'[e].claimEpoch
  BY <1>11 DEF CompleteFails, ownership, Completable, ToolTypeOK, CallState, CallPlace,
     PlaceOK, ExecutesOnce, Executes
<1>12. ASSUME NEW c \in Call, FinishToolCall(c)
       PROVE  call'[d].claimEpoch # call'[e].claimEpoch
  BY <1>12 DEF FinishToolCall, ownership, ToolTypeOK, CallState, CallPlace, PlaceOK,
     ExecutesOnce, Executes
<1>13. ASSUME NEW c \in Call, FinishFails(c)
       PROVE  call'[d].claimEpoch # call'[e].claimEpoch
  BY <1>13 DEF FinishFails, ownership, ToolTypeOK, CallState, CallPlace, PlaceOK, ExecutesOnce,
     Executes
<1>14. ASSUME NEW p \in Proc, AttachSession(p)
       PROVE  call'[d].claimEpoch # call'[e].claimEpoch
  BY <1>14 DEF AttachSession, NotAttaching, NoGen, ToolTypeOK, CallState, CallPlace, PlaceOK,
     ExecutesOnce, Executes
<1>15. ASSUME NEW p \in Proc, ListRunning(p)
       PROVE  call'[d].claimEpoch # call'[e].claimEpoch
  BY <1>15 DEF ListRunning, ToolTypeOK, CallState, CallPlace, PlaceOK, ExecutesOnce, Executes
<1>16. ASSUME NEW p \in Proc, NEW c \in Call, QuarantineRunning(p, c)
       PROVE  call'[d].claimEpoch # call'[e].claimEpoch
  BY <1>16 DEF QuarantineRunning, Quarantined, Fenced, ToolTypeOK, CallState, CallPlace,
     PlaceOK, ExecutesOnce, Executes
<1>17. ASSUME NEW p \in Proc, RecoveryTransaction(p)
       PROVE  call'[d].claimEpoch # call'[e].claimEpoch
  BY <1>17 DEF RecoveryTransaction, NotAttaching, Fenced, NoGen, ToolTypeOK, CallState,
     CallPlace, PlaceOK, ExecutesOnce, Executes
<1>18. ASSUME NEW p \in Proc, AttachFails(p)
       PROVE  call'[d].claimEpoch # call'[e].claimEpoch
  BY <1>18 DEF AttachFails, NotAttaching, NoGen, ToolTypeOK, CallState, CallPlace, PlaceOK,
     ExecutesOnce, Executes
<1>19. ASSUME NEW p \in Proc, Detach(p)
       PROVE  call'[d].claimEpoch # call'[e].claimEpoch
  BY <1>19 DEF Detach, NoGen, ToolTypeOK, CallState, CallPlace, PlaceOK, ExecutesOnce, Executes
<1>20. ASSUME NEW p \in Proc, Crash(p)
       PROVE  call'[d].claimEpoch # call'[e].claimEpoch
  BY <1>20 DEF Crash, NotAttaching, NoGen, ToolTypeOK, CallState, CallPlace, PlaceOK,
     ExecutesOnce, Executes
<1>21. CASE UNCHANGED vars
  BY <1>21 DEF vars, ToolTypeOK, CallState, CallPlace, PlaceOK, ExecutesOnce, Executes
<1> QED
  BY <1>1, <1>2, <1>3, <1>4, <1>5, <1>6, <1>7, <1>8, <1>9, <1>10, <1>11, <1>12, <1>13, <1>14,
     <1>15, <1>16, <1>17, <1>18, <1>19, <1>20, <1>21 DEF Next, CallStep, ProcStep

-----------------------------------------------------------------------------

\* The whole inductive invariant: every execution is answered for, whoever crashes, loses
\* the lease or recovers in between.
THEOREM ToolInvariant == Spec => []ToolInv
<1>1. Init => ToolInv
  <2> SUFFICES ASSUME Init PROVE ToolInv
    OBVIOUS
  <2>1. ToolTypeOK
    <3>1. New \in CallState
      BY ToolBounds DEF New, CallState, NoGen
    <3>2. NotAttaching \in AttachState
      BY ToolBounds DEF NotAttaching, AttachState, NoGen
    <3>3. NoRow \in KeyRecord /\ NoRecord \in CallRecord
      BY ToolBounds DEF NoRow, KeyRecord, NoRecord, CallRecord, NoGen
    <3>4. 0 \in 0..MaxGen /\ 0 \in 0..MaxEpoch
      BY ToolBounds
    <3>5. attaching \in [Proc -> AttachState] /\ call \in [Call -> CallState]
      BY <3>1, <3>2 DEF Init
    <3>6. stored \in [Call -> CallRecord] /\ row \in KeyRecord
      BY <3>3 DEF Init
    <3> QED
      BY <3>4, <3>5, <3>6 DEF Init, ToolTypeOK, NoGen
  <2>2. Issued /\ AttachesAlone /\ ListIsComplete /\ OwnerSeesOwnCalls /\ StartedRecovered
    BY DEF Init, Issued, AttachesAlone, ListIsComplete, OwnerSeesOwnCalls, StartedRecovered,
           Recovering, NotAttaching, NoRow, NoGen, New
  <2>3. CallPlace /\ Answered /\ ExecutesOnce
    BY DEF Init, CallPlace, PlaceOK, Answered, ExecutesOnce, Executes, New
  <2> QED
    BY <2>1, <2>2, <2>3 DEF ToolInv
<1>2. ToolInv /\ [Next]_vars => ToolInv'
  <2> SUFFICES ASSUME ToolInv, [Next]_vars PROVE ToolInv'
    OBVIOUS
  <2>1. ToolTypeOK'
    BY TypeStep DEF ToolInv
  <2> QED
    BY <2>1, IssuedStep, CallPlaceStep, OwnerStep, StartedStep, AttachesAloneStep, ListStep,
       AnsweredStep, OnceStep DEF ToolInv
<1> QED
  BY <1>1, <1>2, PTL DEF Spec

\* The idempotency record, the tool-call records and the attachments keep their types.
THEOREM ToolTypes == Spec => []ToolTypeOK
<1>1. ToolInv => ToolTypeOK
  BY DEF ToolInv
<1> QED
  BY <1>1, ToolInvariant, PTL

\* executeTool: the executor runs a second time for a key only after a call was reported
\* with resultRecordFailed.
THEOREM OnlyUnrecordedRepeat == Spec => []RepeatsOnlyUnrecorded
<1>1. ToolInv => RepeatsOnlyUnrecorded
  BY DEF ToolInv, RepeatsOnlyUnrecorded, RanTwice, ExecutesOnce, Executes
<1> QED
  BY <1>1, ToolInvariant, PTL

\* attachSession: an attached runtime that holds the session sees no call of an earlier
\* owner running.
THEOREM RecoverySettlesAll == Spec => []OwnerSeesOwnCalls
<1>1. ToolInv => OwnerSeesOwnCalls
  BY DEF ToolInv
<1> QED
  BY <1>1, ToolInvariant, PTL

\* The idempotency store: a recorded outcome stays until it expires.
THEOREM OutcomesStay == Spec => OutcomeIsFinal
<1> DEFINE Keeps == row.status \in {"succeeded", "failed"} /\ epoch' = epoch => row' = row
<1>1. ToolInv /\ [Next]_vars => [Keeps]_vars
  <2> SUFFICES ASSUME ToolInv, [Next]_vars, row.status \in {"succeeded", "failed"},
                      epoch' = epoch
               PROVE  row' = row
    OBVIOUS
  <2> USE DEF ToolInv
  <2>1. ~Expire
    BY DEF Expire, ToolTypeOK
  <2>2. ASSUME NEW c \in Call, CallStep(c)
        PROVE  row' = row
    <3>1. ~Claimable(call[c].lease) /\ ~Completable(c, call[c].lease)
      BY DEF Claimable, Completable, NoRow
    <3>2. CASE Claim(c) \/ ClaimAnswerLost(c)
      BY <3>1, <3>2 DEF Claim, ClaimAnswerLost
    <3>3. CASE ReleaseClaim(c) \/ Complete(c) \/ CompleteFails(c)
      BY <3>1, <3>3 DEF ReleaseClaim, Complete, CompleteFails
    <3> QED
      BY <2>2, <3>2, <3>3 DEF CallStep, StartToolCall, CancelBeforeExecution, Execute,
         ExecutorSettles, FinishToolCall, FinishFails
  <2>3. ASSUME NEW p \in Proc, ProcStep(p)
        PROVE  row' = row
    BY <2>3 DEF ProcStep, AttachSession, ListRunning, QuarantineRunning, Quarantined,
       RecoveryTransaction, AttachFails, Detach, Crash
  <2> QED
    BY <2>1, <2>2, <2>3 DEF Next, Lapse, vars
<1> QED
  BY <1>1, ToolInvariant, PTL DEF Spec, OutcomeIsFinal

=============================================================================
