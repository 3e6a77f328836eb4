-------------------------- MODULE SessionEndProofs --------------------------
(***************************************************************************)
(* Proofs about SessionEnd, for any finite number of attempts.             *)
(***************************************************************************)
EXTENDS SessionEnd, FiniteSetTheorems, TLAPS

\* The attempts whose late handler is still to come, those of them holding an admission,
\* the attempts whose caller still waits, and the finisher.
LateOpen == {a \in Attempt : attempt[a].late /\ attempt[a].pc # "done"}
AdmittedOpen == {a \in LateOpen : attempt[a].admitted}
Timely == {a \in Attempt : ~attempt[a].late /\ attempt[a].pc \notin {"new", "done"}}
Finishing == {a \in Attempt : attempt[a].pc \in {"finishWait", "emit", "observe", "observed"}}

\* What the position of an attempt says about its write and its deadline.
PlaceOK(a) ==
    LET t == attempt[a] IN
    /\ t.write = "sent" => t.pc = "write"
    /\ t.late => t.pc \in {"write", "lateRelease", "finishWait", "emit", "observe", "observed",
                           "settle", "done"}
    /\ t.pc = "lateRelease" => t.late
    /\ emitted[a] # None => t.pc \in {"settle", "done"}
    /\ observing = a <=> t.pc \in {"observe", "observed"}

\* One finisher at a time, and one attempt a caller would join.
Exclusive ==
    /\ beingFinished <=> Finishing # {}
    /\ \A a, b \in Finishing : a = b
    /\ endOp # None => endOp \in Timely

\* Every counter counts what it stands for.
Counts ==
    /\ owners = releases + Cardinality(AdmittedOpen)
    /\ pendingLate = Cardinality(LateOpen)
    /\ usage.pending = Cardinality(Timely) + Cardinality(Finishing)
    /\ usage.late <= pendingLate
    /\ closed => owners > 0

\* While the session is attached only the attempt a caller would join is under way, and
\* no deadline of an attempt has passed; an attempt that captured no lease found it
\* detached, and so does everybody after it.
AttachedAlone ==
    attached => \A a \in Attempt :
        attempt[a].pc \notin {"new", "done"} =>
            /\ endOp = a /\ ~attempt[a].late
            /\ attempt[a].pc # "wait" => attempt[a].fenced

\* Nothing under the lease is under way, or still to come, once it is being released.
ReleasedAlone ==
    releases > 0 =>
        /\ ~attached
        /\ \A a \in Attempt : attempt[a].fenced =>
              attempt[a].pc \notin {"read", "check"} /\ attempt[a].write # "sent"

\* The usage of the session is still there.
Kept(u) == (u.finalizer \/ u.summary) /\ (u.frozen => u.summary)

\* Until the end is announced nobody is in a position to discard the usage that is owed: it
\* is held for a retry, for a late write, or by the finisher, who will find it.  A write
\* still in time holds it as the attempt a caller would join, beside which nobody reads.
UsageHeld ==
    owed /\ ~Announced =>
        /\ Kept(usage)
        /\ beingFinished => usage.summary
        /\ releases > 0 => usage.retry \/ beingFinished
        /\ \A a \in Attempt :
              /\ attempt[a].pc = "check" => usage.retry \/ beingFinished
              /\ attempt[a].pc = "settle" =>
                    \/ usage.retry \/ beingFinished
                    \/ ~attempt[a].late /\ usage.late > 0
              /\ attempt[a].pc = "observed" => attempt[a].seen
              /\ attempt[a].write # None =>
                    \/ usage.retry \/ beingFinished \/ usage.late > 0
                    \/ attempt[a].pc = "write" /\ endOp = a
              /\ a \in Timely => beingFinished \/ endOp = a

EndInv ==
    /\ TypeOK /\ (\A a \in Attempt : PlaceOK(a)) /\ Exclusive /\ Counts
    /\ AttachedAlone /\ ReleasedAlone /\ UsageHeld /\ UsageReachesTheHook

-----------------------------------------------------------------------------
(***************************************************************************)
(* The usage bookkeeping.                                                  *)
(***************************************************************************)

\* Discarding keeps the holds, and does nothing while somebody holds the usage.
LEMMA DiscardedFacts ==
    ASSUME NEW u \in Usage
    PROVE  LET v == Discarded(u) IN
           /\ v \in Usage
           /\ v.pending = u.pending /\ v.late = u.late /\ v.retry = u.retry
           /\ u.late > 0 \/ u.retry => v = u
<1>1. CASE u.late > 0 \/ u.retry
  BY <1>1 DEF Discarded
<1>2. CASE ~(u.late > 0 \/ u.retry)
  <2>1. Discarded(u) = [u EXCEPT !.finalizer = FALSE, !.summary = FALSE, !.frozen = FALSE]
    BY <1>2 DEF Discarded
  <2>2. Discarded(u) \in Usage
    BY <2>1 DEF Usage
  <2>3. /\ Discarded(u).pending = u.pending /\ Discarded(u).late = u.late
        /\ Discarded(u).retry = u.retry
    BY <2>1 DEF Usage
  <2> QED
    BY <1>2, <2>2, <2>3
<1> QED
  BY <1>1, <1>2

\* Freezing keeps the holds, and a usage that is still there is found in the summary.
LEMMA FrozenFacts ==
    ASSUME NEW u \in Usage
    PROVE  LET v == Frozen(u) IN
           /\ v \in Usage
           /\ v.pending = u.pending /\ v.late = u.late /\ v.retry = u.retry
           /\ Kept(u) => v.summary /\ Kept(v)
<1>1. CASE u.frozen \/ u.summary
  <2>1. Frozen(u) = [u EXCEPT !.frozen = TRUE]
    BY <1>1 DEF Frozen
  <2> QED
    BY <1>1, <2>1 DEF Usage, Kept
<1>2. CASE ~(u.frozen \/ u.summary)
  <2>1. Frozen(u) = [u EXCEPT !.frozen = TRUE, !.finalizer = FALSE, !.summary = u.finalizer]
    BY <1>2 DEF Frozen
  <2>2. Frozen(u) \in Usage
    BY <2>1 DEF Usage
  <2>3. Frozen(u).pending = u.pending /\ Frozen(u).late = u.late /\ Frozen(u).retry = u.retry
    BY <2>1 DEF Usage
  <2>4. Frozen(u).summary = u.finalizer
    BY <2>1 DEF Usage
  <2> QED
    BY <1>2, <2>2, <2>3, <2>4 DEF Kept
<1> QED
  BY <1>1, <1>2

\* An attempt begins to hold the usage.
LEMMA BeginFacts ==
    ASSUME NEW u \in Usage
    PROVE  LET v == BeginFinalization(u) IN
           /\ v \in Usage
           /\ v.pending = u.pending + 1 /\ v.late = u.late /\ v.retry = u.retry
           /\ Kept(u) => Kept(v)
BY DEF BeginFinalization, Usage, Kept

\* An attempt lets go of the usage; the last one discards it unless it is held otherwise.
LEMMA EndFacts ==
    ASSUME NEW u \in Usage, u.pending > 0
    PROVE  LET v == EndFinalization(u) IN
           /\ v \in Usage
           /\ v.pending = u.pending - 1 /\ v.late = u.late /\ v.retry = u.retry
           /\ u.pending > 1 \/ u.late > 0 \/ u.retry =>
                 (Kept(u) => Kept(v)) /\ (u.summary => v.summary)
<1> DEFINE w == [u EXCEPT !.pending = @ - 1]
<1>1. /\ w \in Usage /\ w.pending = u.pending - 1 /\ w.late = u.late /\ w.retry = u.retry
      /\ w.finalizer = u.finalizer /\ w.summary = u.summary /\ w.frozen = u.frozen
  BY DEF Usage
<1>2. EndFinalization(u) = IF w.pending = 0 /\ observing = None THEN Discarded(w) ELSE w
  BY DEF EndFinalization
<1> HIDE DEF w
<1>3. u.pending \in Nat
  BY DEF Usage
<1> QED
  BY <1>1, <1>2, <1>3, DiscardedFacts DEF Kept

\* A usage that is there is kept for the retry of a failed attempt.
LEMMA RetainedFacts ==
    ASSUME NEW u \in Usage
    PROVE  LET v == RetainedForRetry(u) IN
           /\ v \in Usage
           /\ v.pending = u.pending /\ v.late = u.late
           /\ u.retry => v.retry
           /\ Kept(u) => v.retry /\ Kept(v) /\ (u.summary => v.summary)
<1> DEFINE w == [u EXCEPT !.retry = @ \/ u.frozen \/ u.summary \/ u.finalizer]
<1>1. /\ w \in Usage /\ w.pending = u.pending /\ w.late = u.late
      /\ w.finalizer = u.finalizer /\ w.summary = u.summary /\ w.frozen = u.frozen
      /\ w.retry = (u.retry \/ u.frozen \/ u.summary \/ u.finalizer)
  BY DEF Usage
<1>2. RetainedForRetry(u) = Discarded(w)
  BY DEF RetainedForRetry
<1> HIDE DEF w
<1> QED
  BY <1>1, <1>2, DiscardedFacts DEF Kept

\* A write that passed its deadline holds the usage too.
LEMMA RetainedLateFacts ==
    ASSUME NEW u \in Usage
    PROVE  LET v == RetainedForLateWrite(u) IN
           /\ v \in Usage
           /\ v.pending = u.pending /\ v.late = u.late + 1 /\ v.retry = u.retry
           /\ (Kept(u) => Kept(v)) /\ (u.summary => v.summary)
BY DEF RetainedForLateWrite, Usage, Kept

\* A late write lets go of the usage; the last hold discards it.
LEMMA ReleasedLateFacts ==
    ASSUME NEW u \in Usage
    PROVE  LET v == ReleasedForLateWrite(u) IN
           /\ v \in Usage
           /\ v.pending = u.pending /\ v.retry = u.retry
           /\ v.late = IF u.late = 0 THEN 0 ELSE u.late - 1
           /\ u.pending > 0 \/ u.retry => (Kept(u) => Kept(v)) /\ (u.summary => v.summary)
<1> DEFINE w == [u EXCEPT !.late = IF @ = 0 THEN 0 ELSE @ - 1]
<1>1. /\ w \in Usage /\ w.pending = u.pending /\ w.retry = u.retry
      /\ w.finalizer = u.finalizer /\ w.summary = u.summary /\ w.frozen = u.frozen
  BY DEF Usage
<1>2. w.late = IF u.late = 0 THEN 0 ELSE u.late - 1
  BY DEF Usage
<1>3. \/ ReleasedForLateWrite(u) = w
      \/ u.pending = 0 /\ ReleasedForLateWrite(u) = Discarded(w)
  BY <1>1 DEF ReleasedForLateWrite
<1> HIDE DEF w
<1>4. u.pending \in Nat
  BY DEF Usage
<1> QED
  BY <1>1, <1>2, <1>3, <1>4, DiscardedFacts DEF Kept

-----------------------------------------------------------------------------
(***************************************************************************)
(* The counters.                                                           *)
(***************************************************************************)

One(holds) == IF holds THEN 1 ELSE 0

\* A set that differs from another at most in one element has at most one element more
\* or less.
LEMMA CardMove ==
    ASSUME NEW S, NEW T, NEW x, IsFiniteSet(S), T \ {x} = S \ {x}
    PROVE  /\ IsFiniteSet(T) /\ Cardinality(S) \in Nat /\ Cardinality(T) \in Nat
           /\ Cardinality(T) + One(x \in S) = Cardinality(S) + One(x \in T)
<1> DEFINE R == S \ {x}
<1>1. IsFiniteSet(R) /\ Cardinality(R) \in Nat
  BY FS_RemoveElement, FS_CardinalityType
<1>2. x \notin R
  OBVIOUS
<1>3. IsFiniteSet(R \cup {x}) /\ Cardinality(R \cup {x}) = Cardinality(R) + 1
  BY <1>1, <1>2, FS_AddElement
<1>4. S = IF x \in S THEN R \cup {x} ELSE R
  OBVIOUS
<1>5. T = IF x \in T THEN R \cup {x} ELSE R
  OBVIOUS
<1> HIDE DEF R
<1>6. IsFiniteSet(S) /\ Cardinality(S) = Cardinality(R) + One(x \in S)
  BY <1>1, <1>3, <1>4 DEF One
<1>7. IsFiniteSet(T) /\ Cardinality(T) = Cardinality(R) + One(x \in T)
  <2>1. CASE x \in T
    <3>1. T = R \cup {x} /\ One(x \in T) = 1
      BY <2>1, <1>5 DEF One
    <3> QED
      BY <1>3, <3>1
  <2>2. CASE x \notin T
    <3>1. T = R /\ One(x \in T) = 0
      BY <2>2, <1>5 DEF One
    <3> QED
      BY <1>1, <3>1
  <2> QED
    BY <2>1, <2>2
<1>8. One(x \in S) \in Nat /\ One(x \in T) \in Nat
  BY DEF One
<1> HIDE DEF One
<1> QED
  BY <1>1, <1>6, <1>7, <1>8

\* The sets the counters count are finite.
LEMMA FiniteHolds ==
    /\ IsFiniteSet(LateOpen) /\ IsFiniteSet(AdmittedOpen)
    /\ IsFiniteSet(Timely) /\ IsFiniteSet(Finishing)
<1>1. /\ LateOpen \subseteq Attempt /\ AdmittedOpen \subseteq Attempt
      /\ Timely \subseteq Attempt /\ Finishing \subseteq Attempt
  BY DEF LateOpen, AdmittedOpen, Timely, Finishing
<1> QED
  BY <1>1, AttemptAssumption, FS_Subset

\* What a step of one attempt does to the counted sets.
LEMMA SetsMove ==
    ASSUME NEW a \in Attempt, \A b \in Attempt \ {a} : attempt'[b] = attempt[b]
    PROVE  /\ Cardinality(LateOpen') + One(a \in LateOpen)
                = Cardinality(LateOpen) + One(a \in LateOpen')
           /\ Cardinality(AdmittedOpen') + One(a \in AdmittedOpen)
                = Cardinality(AdmittedOpen) + One(a \in AdmittedOpen')
           /\ Cardinality(Timely') + One(a \in Timely) = Cardinality(Timely) + One(a \in Timely')
           /\ Cardinality(Finishing') + One(a \in Finishing)
                = Cardinality(Finishing) + One(a \in Finishing')
           /\ Cardinality(LateOpen) \in Nat /\ Cardinality(LateOpen') \in Nat
           /\ Cardinality(AdmittedOpen) \in Nat /\ Cardinality(AdmittedOpen') \in Nat
           /\ Cardinality(Timely) \in Nat /\ Cardinality(Timely') \in Nat
           /\ Cardinality(Finishing) \in Nat /\ Cardinality(Finishing') \in Nat
<1>1. LateOpen' \ {a} = LateOpen \ {a}
  BY DEF LateOpen
<1>2. AdmittedOpen' \ {a} = AdmittedOpen \ {a}
  BY DEF AdmittedOpen, LateOpen
<1>3. Timely' \ {a} = Timely \ {a}
  BY DEF Timely
<1>4. Finishing' \ {a} = Finishing \ {a}
  BY DEF Finishing
<1> HIDE DEF LateOpen, AdmittedOpen, Timely, Finishing
<1> QED
  BY <1>1, <1>2, <1>3, <1>4, FiniteHolds, CardMove

\* A finite set with an element in it counts.
LEMMA SomeCounted ==
    ASSUME NEW S, IsFiniteSet(S), NEW x \in S
    PROVE  Cardinality(S) \in Nat /\ Cardinality(S) >= 1
<1>1. Cardinality(S) \in Nat /\ Cardinality(S \ {x}) \in Nat
  BY FS_CardinalityType, FS_RemoveElement
<1>2. Cardinality(S \ {x}) + One(x \in S) = Cardinality(S) + One(x \in S \ {x})
  BY CardMove
<1> QED
  BY <1>1, <1>2 DEF One

\* The counters are large enough to be counted down.
LEMMA Held ==
    ASSUME EndInv, NEW a \in Attempt
    PROVE  /\ usage.pending >= One(a \in Timely) + One(a \in Finishing)
           /\ pendingLate >= One(a \in LateOpen)
           /\ owners >= releases + One(a \in AdmittedOpen)
<1>1. ASSUME NEW S, IsFiniteSet(S)
      PROVE  Cardinality(S) \in Nat /\ Cardinality(S) >= One(a \in S)
  <2>1. Cardinality(S) \in Nat /\ Cardinality(S \ {a}) \in Nat
    BY <1>1, FS_CardinalityType, FS_RemoveElement
  <2>2. Cardinality(S \ {a}) + One(a \in S) = Cardinality(S) + One(a \in S \ {a})
    BY <1>1, CardMove
  <2> QED
    BY <2>1, <2>2 DEF One
<1>2. releases \in Nat
  BY DEF EndInv, TypeOK
<1> QED
  BY <1>1, <1>2, FiniteHolds DEF EndInv, Counts, One

-----------------------------------------------------------------------------
(***************************************************************************)
(* The steps.                                                              *)
(***************************************************************************)

\* endSession starts an attempt of its own: it holds the usage.
LEMMA EndSessionKeeps ==
    ASSUME EndInv, NEW a \in Attempt, EndSession(a),
           owed' = owed
    PROVE  EndInv'
<1>1. /\ attempt[a].pc = "new" /\ ~attempt[a].late
      /\ \A b \in Attempt \ {a} : attempt'[b] = attempt[b]
      /\ attempt'[a].pc = "wait" /\ attempt'[a].fenced = attempt[a].fenced
      /\ attempt'[a].write = attempt[a].write /\ attempt'[a].late = attempt[a].late
      /\ attempt'[a].admitted = attempt[a].admitted /\ attempt'[a].seen = attempt[a].seen
  BY DEF EndSession, EndInv, TypeOK, AttemptState, PlaceOK
<1>2. attempt' \in [Attempt -> AttemptState]
  BY DEF EndSession, EndInv, TypeOK, AttemptState
<1>3. /\ endOp = None /\ endOp' = a
      /\ UNCHANGED <<status, endedHere, leaseLive, attached, owners, closed, releases, cleanup,
           pendingLate, beingFinished, observing, emitted>>
  BY DEF EndSession, store, admission
<1>4. /\ usage' \in Usage /\ usage'.pending = usage.pending + 1
      /\ usage'.late = usage.late /\ usage'.retry = usage.retry
      /\ Kept(usage) => usage'.summary /\ Kept(usage')
  <2>1. usage \in Usage /\ usage' = Frozen(BeginFinalization(usage))
    BY DEF EndSession, EndInv, TypeOK
  <2> QED
    BY <2>1, BeginFacts, FrozenFacts
<1>5. TypeOK'
  BY <1>1, <1>2, <1>3, <1>4 DEF EndInv, TypeOK
<1>6. \A b \in Attempt : PlaceOK(b)'
  BY <1>1, <1>2, <1>3, <1>4, AttemptAssumption DEF EndInv, PlaceOK, TypeOK, None
<1>7. Exclusive'
  BY <1>1, <1>2, <1>3, <1>4, AttemptAssumption DEF EndInv, Exclusive, Finishing, Timely
<1>8. Counts'
  <2>1. /\ (a \in LateOpen' <=> a \in LateOpen)
        /\ (a \in AdmittedOpen' <=> a \in AdmittedOpen)
        /\ a \notin Timely /\ a \in Timely'
        /\ (a \in Finishing' <=> a \in Finishing)
    BY <1>1 DEF LateOpen, AdmittedOpen, Timely, Finishing
  <2>2. /\ Cardinality(LateOpen') = Cardinality(LateOpen)
        /\ Cardinality(AdmittedOpen') = Cardinality(AdmittedOpen)
        /\ Cardinality(Timely') = Cardinality(Timely) + 1
        /\ Cardinality(Finishing') = Cardinality(Finishing)
    BY <1>1, <2>1, SetsMove DEF One
  <2>3. /\ Cardinality(LateOpen) \in Nat /\ Cardinality(AdmittedOpen) \in Nat
        /\ Cardinality(Timely) \in Nat /\ Cardinality(Finishing) \in Nat
    BY <1>1, SetsMove
  <2> QED
    BY <2>2, <2>3, <1>3, <1>4 DEF EndInv, Counts, TypeOK, Usage
<1>9. AttachedAlone'
  BY <1>1, <1>2, <1>3, <1>4, AttemptAssumption DEF EndInv, AttachedAlone, PlaceOK
<1>10. ReleasedAlone'
  BY <1>1, <1>2, <1>3, <1>4 DEF EndInv, ReleasedAlone, AttachedAlone, PlaceOK
<1>11. UsageHeld'
  BY <1>1, <1>2, <1>3, <1>4 DEF EndInv, UsageHeld, Announced, Exclusive, Finishing,
     Timely, PlaceOK, TypeOK, Usage
<1>12. UsageReachesTheHook'
  BY <1>1, <1>2, <1>3, <1>4 DEF EndInv, UsageReachesTheHook, Announced
<1> QED
  BY <1>5, <1>6, <1>7, <1>8, <1>9, <1>10, <1>11, <1>12 DEF EndInv

\* The attempt captures the lease of the attachment, if there is one.
LEMMA AwaitCleanupKeeps ==
    ASSUME EndInv, NEW a \in Attempt, AwaitCleanup(a),
           owed' = owed
    PROVE  EndInv'
<1>1. /\ attempt[a].pc = "wait" /\ ~attempt[a].late
      /\ \A b \in Attempt \ {a} : attempt'[b] = attempt[b]
      /\ attempt'[a].pc = "read" /\ attempt'[a].fenced = attached
      /\ attempt'[a].write = attempt[a].write /\ attempt'[a].late = attempt[a].late
      /\ attempt'[a].admitted = attempt[a].admitted /\ attempt'[a].seen = attempt[a].seen
  BY DEF AwaitCleanup, EndInv, TypeOK, AttemptState, PlaceOK
<1>2. attempt' \in [Attempt -> AttemptState]
  <2>1. attempt'[a] = [attempt[a] EXCEPT !.pc = "read", !.fenced = attached]
    BY DEF AwaitCleanup, EndInv, TypeOK
  <2>2. attempt'[a] \in AttemptState
    BY <2>1, <1>1 DEF EndInv, TypeOK, AttemptState, Usage
  <2> QED
    BY <2>2 DEF AwaitCleanup, EndInv, TypeOK
<1>3. UNCHANGED <<status, endedHere, leaseLive, attached, owners, closed, releases, cleanup, endOp,
           pendingLate, beingFinished, usage, observing, emitted>>
  BY DEF AwaitCleanup, store, admission
<1>5. TypeOK'
  BY <1>1, <1>2, <1>3 DEF EndInv, TypeOK
<1>6. \A b \in Attempt : PlaceOK(b)'
  BY <1>1, <1>2, <1>3, AttemptAssumption DEF EndInv, PlaceOK, TypeOK, None
<1>7. Exclusive'
  BY <1>1, <1>2, <1>3, AttemptAssumption DEF EndInv, Exclusive, Finishing, Timely
<1>8. Counts'
  <2>1. /\ (a \in LateOpen' <=> a \in LateOpen)
        /\ (a \in AdmittedOpen' <=> a \in AdmittedOpen)
        /\ (a \in Timely' <=> a \in Timely)
        /\ (a \in Finishing' <=> a \in Finishing)
    BY <1>1 DEF LateOpen, AdmittedOpen, Timely, Finishing
  <2>2. /\ Cardinality(LateOpen') = Cardinality(LateOpen)
        /\ Cardinality(AdmittedOpen') = Cardinality(AdmittedOpen)
        /\ Cardinality(Timely') = Cardinality(Timely)
        /\ Cardinality(Finishing') = Cardinality(Finishing)
    BY <1>1, <2>1, SetsMove DEF One
  <2>3. /\ Cardinality(LateOpen) \in Nat /\ Cardinality(AdmittedOpen) \in Nat
        /\ Cardinality(Timely) \in Nat /\ Cardinality(Finishing) \in Nat
    BY <1>1, SetsMove
  <2> QED
    BY <2>2, <2>3, <1>3 DEF EndInv, Counts, TypeOK, Usage
<1>9. AttachedAlone'
  BY <1>1, <1>2, <1>3, AttemptAssumption DEF EndInv, AttachedAlone, PlaceOK
<1>10. ReleasedAlone'
  BY <1>1, <1>2, <1>3 DEF EndInv, ReleasedAlone, AttachedAlone, PlaceOK
<1>11. UsageHeld'
  BY <1>1, <1>2, <1>3 DEF EndInv, UsageHeld, Announced, Exclusive, Finishing,
     Timely, PlaceOK, TypeOK, Usage
<1>12. UsageReachesTheHook'
  BY <1>1, <1>2, <1>3 DEF EndInv, UsageReachesTheHook, Announced
<1> QED
  BY <1>5, <1>6, <1>7, <1>8, <1>9, <1>10, <1>11, <1>12 DEF EndInv

\* The session is open: the write is sent, or the lease looked up first.  An admission
\* that no late write holds belongs to a release, so the usage is held already.
LEMMA ReadActiveKeeps ==
    ASSUME EndInv, NEW a \in Attempt, ReadActive(a),
           owed' = owed
    PROVE  EndInv'
<1>1. /\ attempt[a].pc = "read" /\ ~attempt[a].late
      /\ \A b \in Attempt \ {a} : attempt'[b] = attempt[b]
      /\ attempt'[a].pc = (IF owners > 0 /\ pendingLate = 0 THEN "check" ELSE "write")
      /\ attempt'[a].fenced = attempt[a].fenced
      /\ attempt'[a].write = (IF owners > 0 /\ pendingLate = 0 THEN None ELSE "sent")
      /\ attempt'[a].late = attempt[a].late /\ attempt'[a].admitted = attempt[a].admitted
      /\ attempt'[a].seen = attempt[a].seen
  BY DEF ReadActive, EndInv, TypeOK, AttemptState, PlaceOK
<1>2. attempt' \in [Attempt -> AttemptState]
  <2>1. CASE owners > 0 /\ pendingLate = 0
    <3>1. attempt'[a] = [attempt[a] EXCEPT !.pc = "check", !.write = None]
      BY <2>1 DEF ReadActive, EndInv, TypeOK
    <3>2. attempt'[a] \in AttemptState
      BY <3>1 DEF EndInv, TypeOK, AttemptState
    <3> QED
      BY <3>2 DEF ReadActive, EndInv, TypeOK
  <2>2. CASE ~(owners > 0 /\ pendingLate = 0)
    <3>1. attempt'[a] = [attempt[a] EXCEPT !.pc = "write", !.write = "sent"]
      BY <2>2 DEF ReadActive, EndInv, TypeOK
    <3>2. attempt'[a] \in AttemptState
      BY <3>1 DEF EndInv, TypeOK, AttemptState
    <3> QED
      BY <3>2 DEF ReadActive, EndInv, TypeOK
  <2> QED
    BY <2>1, <2>2
<1>3. UNCHANGED <<status, endedHere, leaseLive, attached, owners, closed, releases, cleanup, endOp,
           pendingLate, beingFinished, usage, observing, emitted>>
  BY DEF ReadActive, store, admission
<1>5. TypeOK'
  BY <1>1, <1>2, <1>3 DEF EndInv, TypeOK
<1>6. \A b \in Attempt : PlaceOK(b)'
  BY <1>1, <1>2, <1>3, AttemptAssumption DEF EndInv, PlaceOK, TypeOK, None
<1>7. Exclusive'
  BY <1>1, <1>2, <1>3, AttemptAssumption DEF EndInv, Exclusive, Finishing, Timely
<1>8. Counts'
  <2>1. /\ (a \in LateOpen' <=> a \in LateOpen)
        /\ (a \in AdmittedOpen' <=> a \in AdmittedOpen)
        /\ (a \in Timely' <=> a \in Timely)
        /\ (a \in Finishing' <=> a \in Finishing)
    BY <1>1 DEF LateOpen, AdmittedOpen, Timely, Finishing
  <2>2. /\ Cardinality(LateOpen') = Cardinality(LateOpen)
        /\ Cardinality(AdmittedOpen') = Cardinality(AdmittedOpen)
        /\ Cardinality(Timely') = Cardinality(Timely)
        /\ Cardinality(Finishing') = Cardinality(Finishing)
    BY <1>1, <2>1, SetsMove DEF One
  <2>3. /\ Cardinality(LateOpen) \in Nat /\ Cardinality(AdmittedOpen) \in Nat
        /\ Cardinality(Timely) \in Nat /\ Cardinality(Finishing) \in Nat
    BY <1>1, SetsMove
  <2> QED
    BY <2>2, <2>3, <1>3 DEF EndInv, Counts, TypeOK, Usage
<1>9. AttachedAlone'
  BY <1>1, <1>2, <1>3, AttemptAssumption DEF EndInv, AttachedAlone, PlaceOK
<1>10. ReleasedAlone'
  BY <1>1, <1>2, <1>3 DEF EndInv, ReleasedAlone, AttachedAlone, PlaceOK
<1>11. UsageHeld'
  <2>1. owners > 0 /\ pendingLate = 0 => releases > 0
    <3>1. AdmittedOpen \subseteq LateOpen
      BY DEF AdmittedOpen
    <3>2. /\ Cardinality(AdmittedOpen) <= Cardinality(LateOpen)
          /\ Cardinality(AdmittedOpen) \in Nat /\ Cardinality(LateOpen) \in Nat
      BY <3>1, FiniteHolds, FS_Subset, FS_CardinalityType
    <3> QED
      BY <3>2 DEF EndInv, Counts, TypeOK
  <2> QED
    BY <1>1, <1>3, <2>1 DEF EndInv, UsageHeld, Announced, Timely
<1>12. UsageReachesTheHook'
  BY <1>1, <1>2, <1>3 DEF EndInv, UsageReachesTheHook, Announced
<1> QED
  BY <1>5, <1>6, <1>7, <1>8, <1>9, <1>10, <1>11, <1>12 DEF EndInv

\* The lookup finds the lease live, and the attempt gives up, or not.
LEMMA CheckLeaseKeeps ==
    ASSUME EndInv, NEW a \in Attempt, CheckLease(a),
           owed' = owed
    PROVE  EndInv'
<1>1. /\ attempt[a].pc = "check" /\ ~attempt[a].late
      /\ \A b \in Attempt \ {a} : attempt'[b] = attempt[b]
      /\ attempt'[a].pc = (IF leaseLive THEN "settle" ELSE "write")
      /\ attempt'[a].fenced = attempt[a].fenced
      /\ attempt'[a].write = (IF leaseLive THEN None ELSE "sent")
      /\ attempt'[a].late = attempt[a].late /\ attempt'[a].admitted = attempt[a].admitted
      /\ attempt'[a].seen = attempt[a].seen
  BY DEF CheckLease, EndInv, TypeOK, AttemptState, PlaceOK
<1>2. attempt' \in [Attempt -> AttemptState]
  <2>1. CASE leaseLive
    <3>1. attempt'[a] = [attempt[a] EXCEPT !.pc = "settle", !.write = None]
      BY <2>1 DEF CheckLease, EndInv, TypeOK
    <3>2. attempt'[a] \in AttemptState
      BY <3>1 DEF EndInv, TypeOK, AttemptState
    <3> QED
      BY <3>2 DEF CheckLease, EndInv, TypeOK
  <2>2. CASE ~leaseLive
    <3>1. attempt'[a] = [attempt[a] EXCEPT !.pc = "write", !.write = "sent"]
      BY <2>2 DEF CheckLease, EndInv, TypeOK
    <3>2. attempt'[a] \in AttemptState
      BY <3>1 DEF EndInv, TypeOK, AttemptState
    <3> QED
      BY <3>2 DEF CheckLease, EndInv, TypeOK
  <2> QED
    BY <2>1, <2>2
<1>3. UNCHANGED <<status, endedHere, leaseLive, attached, owners, closed, releases, cleanup, endOp,
           pendingLate, beingFinished, usage, observing, emitted>>
  BY DEF CheckLease, store, admission
<1>5. TypeOK'
  BY <1>1, <1>2, <1>3 DEF EndInv, TypeOK
<1>6. \A b \in Attempt : PlaceOK(b)'
  BY <1>1, <1>2, <1>3, AttemptAssumption DEF EndInv, PlaceOK, TypeOK, None
<1>7. Exclusive'
  BY <1>1, <1>2, <1>3, AttemptAssumption DEF EndInv, Exclusive, Finishing, Timely
<1>8. Counts'
  <2>1. /\ (a \in LateOpen' <=> a \in LateOpen)
        /\ (a \in AdmittedOpen' <=> a \in AdmittedOpen)
        /\ (a \in Timely' <=> a \in Timely)
        /\ (a \in Finishing' <=> a \in Finishing)
    BY <1>1 DEF LateOpen, AdmittedOpen, Timely, Finishing
  <2>2. /\ Cardinality(LateOpen') = Cardinality(LateOpen)
        /\ Cardinality(AdmittedOpen') = Cardinality(AdmittedOpen)
        /\ Cardinality(Timely') = Cardinality(Timely)
        /\ Cardinality(Finishing') = Cardinality(Finishing)
    BY <1>1, <2>1, SetsMove DEF One
  <2>3. /\ Cardinality(LateOpen) \in Nat /\ Cardinality(AdmittedOpen) \in Nat
        /\ Cardinality(Timely) \in Nat /\ Cardinality(Finishing) \in Nat
    BY <1>1, SetsMove
  <2> QED
    BY <2>2, <2>3, <1>3 DEF EndInv, Counts, TypeOK, Usage
<1>9. AttachedAlone'
  BY <1>1, <1>2, <1>3, AttemptAssumption DEF EndInv, AttachedAlone, PlaceOK
<1>10. ReleasedAlone'
  BY <1>1, <1>2, <1>3 DEF EndInv, ReleasedAlone, AttachedAlone, PlaceOK
<1>11. UsageHeld'
  BY <1>1, <1>2, <1>3 DEF EndInv, UsageHeld, Announced, Exclusive, Finishing,
     Timely, PlaceOK, TypeOK, Usage
<1>12. UsageReachesTheHook'
  BY <1>1, <1>2, <1>3 DEF EndInv, UsageReachesTheHook, Announced
<1> QED
  BY <1>5, <1>6, <1>7, <1>8, <1>9, <1>10, <1>11, <1>12 DEF EndInv

\* A read fails.  What is owed after it is held by an attempt that got to its write, or by
\* the finisher.
LEMMA ReadFailsKeeps ==
    ASSUME EndInv, NEW a \in Attempt, ReadFails(a)
    PROVE  EndInv'
<1>1. /\ attempt[a].pc \in {"read", "check"} /\ ~attempt[a].late
      /\ \A b \in Attempt \ {a} : attempt'[b] = attempt[b]
      /\ attempt'[a].pc = "settle" /\ attempt'[a].fenced = attempt[a].fenced
      /\ attempt'[a].write = attempt[a].write /\ attempt'[a].late = attempt[a].late
      /\ attempt'[a].admitted = attempt[a].admitted /\ attempt'[a].seen = attempt[a].seen
  BY DEF ReadFails, EndInv, TypeOK, AttemptState, PlaceOK
<1>2. attempt' \in [Attempt -> AttemptState]
  BY DEF ReadFails, EndInv, TypeOK, AttemptState
<1>3. /\ owed' = (owed /\ ~NobodyWrote)
      /\ UNCHANGED <<status, endedHere, leaseLive, attached, owners, closed, releases, cleanup,
           endOp, pendingLate, beingFinished, usage, observing, emitted>>
  BY DEF ReadFails, store, admission
<1>5. TypeOK'
  BY <1>1, <1>2, <1>3 DEF EndInv, TypeOK
<1>6. \A b \in Attempt : PlaceOK(b)'
  BY <1>1, <1>2, <1>3, AttemptAssumption DEF EndInv, PlaceOK, TypeOK, None
<1>7. Exclusive'
  BY <1>1, <1>2, <1>3, AttemptAssumption DEF EndInv, Exclusive, Finishing, Timely
<1>8. Counts'
  <2>1. /\ (a \in LateOpen' <=> a \in LateOpen)
        /\ (a \in AdmittedOpen' <=> a \in AdmittedOpen)
        /\ (a \in Timely' <=> a \in Timely)
        /\ (a \in Finishing' <=> a \in Finishing)
    BY <1>1 DEF LateOpen, AdmittedOpen, Timely, Finishing
  <2>2. /\ Cardinality(LateOpen') = Cardinality(LateOpen)
        /\ Cardinality(AdmittedOpen') = Cardinality(AdmittedOpen)
        /\ Cardinality(Timely') = Cardinality(Timely)
        /\ Cardinality(Finishing') = Cardinality(Finishing)
    BY <1>1, <2>1, SetsMove DEF One
  <2>3. /\ Cardinality(LateOpen) \in Nat /\ Cardinality(AdmittedOpen) \in Nat
        /\ Cardinality(Timely) \in Nat /\ Cardinality(Finishing) \in Nat
    BY <1>1, SetsMove
  <2> QED
    BY <2>2, <2>3, <1>3 DEF EndInv, Counts, TypeOK, Usage
<1>9. AttachedAlone'
  BY <1>1, <1>2, <1>3, AttemptAssumption DEF EndInv, AttachedAlone, PlaceOK
<1>10. ReleasedAlone'
  BY <1>1, <1>2, <1>3 DEF EndInv, ReleasedAlone, AttachedAlone, PlaceOK
<1>11. UsageHeld'
  <2> SUFFICES ASSUME owed', ~Announced' PROVE UsageHeld'
    BY DEF UsageHeld
  <2>1. owed /\ ~Announced /\ UsageHeld
    BY <1>3 DEF Announced, EndInv
  <2>2. usage.retry \/ beingFinished \/ usage.late > 0
    <3>1. CASE beingFinished
      BY <3>1
    <3>2. CASE ~beingFinished
      <4>1. PICK b \in Attempt : attempt[b].write # None
        BY <1>3, <3>2 DEF NobodyWrote
      <4>2. endOp = a
        BY <1>1, <2>1, <3>2 DEF UsageHeld, Timely
      <4> QED
        BY <1>1, <2>1, <3>2, <4>1, <4>2 DEF UsageHeld
    <3> QED
      BY <3>1, <3>2
  <2> QED
    BY <1>1, <1>3, <2>1, <2>2 DEF UsageHeld, Timely, Announced
<1>12. UsageReachesTheHook'
  BY <1>1, <1>2, <1>3 DEF EndInv, UsageReachesTheHook, Announced
<1> QED
  BY <1>5, <1>6, <1>7, <1>8, <1>9, <1>10, <1>11, <1>12 DEF EndInv

\* The deadline passes: the attempt lets its caller go and holds the usage, and an
\* admission, for its late result.  Nothing is attached any more.
LEMMA WriteTimesOutKeeps ==
    ASSUME EndInv, NEW a \in Attempt, WriteTimesOut(a),
           owed' = owed
    PROVE  EndInv'
<1>1. /\ attempt[a].pc = "write" /\ ~attempt[a].late
      /\ \A b \in Attempt \ {a} : attempt'[b] = attempt[b]
      /\ attempt'[a].pc = attempt[a].pc /\ attempt'[a].fenced = attempt[a].fenced
      /\ attempt'[a].write = attempt[a].write /\ attempt'[a].late = TRUE
      /\ attempt'[a].admitted = ~closed /\ attempt'[a].seen = attempt[a].seen
  BY DEF WriteTimesOut, EndInv, TypeOK, AttemptState, PlaceOK
<1>2. attempt' \in [Attempt -> AttemptState]
  <2>1. attempt'[a] = [attempt[a] EXCEPT !.late = TRUE, !.admitted = ~closed]
    BY DEF WriteTimesOut, EndInv, TypeOK
  <2>2. attempt'[a] \in AttemptState
    BY <2>1, <1>1 DEF EndInv, TypeOK, AttemptState, Usage
  <2> QED
    BY <2>2 DEF WriteTimesOut, EndInv, TypeOK
<1>3. /\ attached' = FALSE
      /\ owners' = IF closed THEN owners ELSE owners + 1
      /\ cleanup' = TRUE
      /\ endOp' = IF endOp = a THEN None ELSE endOp
      /\ pendingLate' = pendingLate + 1
      /\ UNCHANGED <<status, endedHere, leaseLive, closed, releases, beingFinished, observing, emitted>>
  <2>1. attached => attempt[a].fenced
    BY <1>1 DEF EndInv, AttachedAlone
  <2> QED
    BY <2>1 DEF WriteTimesOut, Settles, store
<1>4. /\ usage' \in Usage /\ usage'.pending = usage.pending - 1
      /\ usage'.late = usage.late + 1 /\ usage'.retry = usage.retry
      /\ Kept(usage) => usage'.summary /\ Kept(usage')
  <2> DEFINE u == Frozen(RetainedForLateWrite(usage))
  <2>1. usage \in Usage /\ usage' = EndFinalization(u)
    BY DEF WriteTimesOut, EndInv, TypeOK
  <2>2. /\ u \in Usage /\ u.pending = usage.pending /\ u.late = usage.late + 1
        /\ u.retry = usage.retry /\ (Kept(usage) => u.summary /\ Kept(u))
    BY <2>1, RetainedLateFacts, FrozenFacts
  <2>3. usage.pending > 0
    <3>1. a \in Timely
      BY <1>1 DEF Timely
    <3> QED
      BY <2>1, <3>1, Held DEF One, Usage
  <2>4. usage.late \in Nat
    BY <2>1 DEF Usage
  <2> HIDE DEF u
  <2> QED
    BY <2>1, <2>2, <2>3, <2>4, EndFacts
<1>5. TypeOK'
  <2>1. owners \in Nat /\ releases \in Nat /\ pendingLate \in Nat /\ endOp \in Attempt \cup {None}
    BY DEF EndInv, TypeOK
  <2>2. owners' \in Nat /\ pendingLate' \in Nat /\ endOp' \in Attempt \cup {None}
    BY <1>3, <2>1
  <2> QED
    BY <1>2, <1>3, <1>4, <2>2 DEF EndInv, TypeOK
<1>6. \A b \in Attempt : PlaceOK(b)'
  BY <1>1, <1>2, <1>3, <1>4, AttemptAssumption DEF EndInv, PlaceOK, TypeOK, None
<1>7. Exclusive'
  BY <1>1, <1>2, <1>3, <1>4, AttemptAssumption DEF EndInv, Exclusive, Finishing, Timely
<1>8. Counts'
  <2>1. /\ a \notin LateOpen /\ a \in LateOpen' /\ a \notin AdmittedOpen
        /\ (a \in AdmittedOpen' <=> ~closed)
        /\ a \in Timely /\ a \notin Timely' /\ (a \in Finishing' <=> a \in Finishing)
    BY <1>1 DEF LateOpen, AdmittedOpen, Timely, Finishing
  <2>2. /\ Cardinality(LateOpen') = Cardinality(LateOpen) + 1
        /\ Cardinality(AdmittedOpen') = Cardinality(AdmittedOpen) + (IF closed THEN 0 ELSE 1)
        /\ Cardinality(Timely') = Cardinality(Timely) - 1
        /\ Cardinality(Finishing') = Cardinality(Finishing)
    BY <1>1, <2>1, SetsMove DEF One
  <2>3. /\ Cardinality(LateOpen) \in Nat /\ Cardinality(AdmittedOpen) \in Nat
        /\ Cardinality(Timely) \in Nat /\ Cardinality(Finishing) \in Nat
    BY <1>1, SetsMove
  <2>4. usage.late \in Nat /\ usage.pending \in Nat /\ owners \in Nat /\ releases \in Nat
    BY DEF EndInv, TypeOK, Usage
  <2> QED
    BY <2>2, <2>3, <2>4, <1>3, <1>4 DEF EndInv, Counts
<1>9. AttachedAlone'
  BY <1>1, <1>2, <1>3, <1>4, AttemptAssumption DEF EndInv, AttachedAlone, PlaceOK
<1>10. ReleasedAlone'
  BY <1>1, <1>2, <1>3, <1>4 DEF EndInv, ReleasedAlone, AttachedAlone, PlaceOK
<1>11. UsageHeld'
  BY <1>1, <1>2, <1>3, <1>4 DEF EndInv, UsageHeld, Announced, Exclusive, Finishing,
     Timely, PlaceOK, TypeOK, Usage
<1>12. UsageReachesTheHook'
  BY <1>1, <1>2, <1>3, <1>4 DEF EndInv, UsageReachesTheHook, Announced
<1> QED
  BY <1>5, <1>6, <1>7, <1>8, <1>9, <1>10, <1>11, <1>12 DEF EndInv

\* The write settles after its deadline.
LEMMA LateWriteSettlesKeeps ==
    ASSUME EndInv, NEW a \in Attempt, LateWriteSettles(a),
           owed' = owed
    PROVE  EndInv'
<1>1. /\ attempt[a].pc = "write" /\ attempt[a].late /\ attempt[a].write # "sent"
      /\ \A b \in Attempt \ {a} : attempt'[b] = attempt[b]
      /\ attempt'[a].pc = "lateRelease" /\ attempt'[a].fenced = attempt[a].fenced
      /\ attempt'[a].write = attempt[a].write /\ attempt'[a].late = TRUE
      /\ attempt'[a].admitted = attempt[a].admitted /\ attempt'[a].seen = attempt[a].seen
  <2>1. attempt[a] \in AttemptState
    BY DEF EndInv, TypeOK
  <2>2. attempt[a].late = TRUE
    BY <2>1 DEF LateWriteSettles, AttemptState
  <2>3. /\ \A b \in Attempt \ {a} : attempt'[b] = attempt[b]
        /\ attempt'[a].pc = "lateRelease" /\ attempt'[a].fenced = attempt[a].fenced
        /\ attempt'[a].write = attempt[a].write /\ attempt'[a].late = attempt[a].late
        /\ attempt'[a].admitted = attempt[a].admitted /\ attempt'[a].seen = attempt[a].seen
    BY DEF LateWriteSettles, EndInv, TypeOK, AttemptState
  <2>4. attempt[a].pc = "write" /\ attempt[a].write # "sent"
    BY DEF LateWriteSettles
  <2> QED
    BY <2>2, <2>3, <2>4
<1>2. attempt' \in [Attempt -> AttemptState]
  BY DEF LateWriteSettles, EndInv, TypeOK, AttemptState
<1>3. UNCHANGED <<status, endedHere, leaseLive, attached, owners, closed, releases, cleanup, endOp,
           pendingLate, beingFinished, usage, observing, emitted>>
  BY DEF LateWriteSettles, store, admission
<1>5. TypeOK'
  BY <1>1, <1>2, <1>3 DEF EndInv, TypeOK
<1>6. \A b \in Attempt : PlaceOK(b)'
  BY <1>1, <1>2, <1>3, AttemptAssumption DEF EndInv, PlaceOK, TypeOK, None
<1>7. Exclusive'
  BY <1>1, <1>2, <1>3, AttemptAssumption DEF EndInv, Exclusive, Finishing, Timely
<1>8. Counts'
  <2>1. /\ (a \in LateOpen' <=> a \in LateOpen)
        /\ (a \in AdmittedOpen' <=> a \in AdmittedOpen)
        /\ (a \in Timely' <=> a \in Timely)
        /\ (a \in Finishing' <=> a \in Finishing)
    BY <1>1 DEF LateOpen, AdmittedOpen, Timely, Finishing
  <2>2. /\ Cardinality(LateOpen') = Cardinality(LateOpen)
        /\ Cardinality(AdmittedOpen') = Cardinality(AdmittedOpen)
        /\ Cardinality(Timely') = Cardinality(Timely)
        /\ Cardinality(Finishing') = Cardinality(Finishing)
    BY <1>1, <2>1, SetsMove DEF One
  <2>3. /\ Cardinality(LateOpen) \in Nat /\ Cardinality(AdmittedOpen) \in Nat
        /\ Cardinality(Timely) \in Nat /\ Cardinality(Finishing) \in Nat
    BY <1>1, SetsMove
  <2> QED
    BY <2>2, <2>3, <1>3 DEF EndInv, Counts, TypeOK, Usage
<1>9. AttachedAlone'
  BY <1>1, <1>2, <1>3, AttemptAssumption DEF EndInv, AttachedAlone, PlaceOK
<1>10. ReleasedAlone'
  BY <1>1, <1>2, <1>3 DEF EndInv, ReleasedAlone, AttachedAlone, PlaceOK
<1>11. UsageHeld'
  BY <1>1, <1>2, <1>3 DEF EndInv, UsageHeld, Announced, Exclusive, Finishing,
     Timely, PlaceOK, TypeOK, Usage
<1>12. UsageReachesTheHook'
  BY <1>1, <1>2, <1>3 DEF EndInv, UsageReachesTheHook, Announced
<1> QED
  BY <1>5, <1>6, <1>7, <1>8, <1>9, <1>10, <1>11, <1>12 DEF EndInv

\* The finisher drops the attachment.
LEMMA FinishDetachesKeeps ==
    ASSUME EndInv, NEW a \in Attempt, FinishDetaches(a),
           owed' = owed
    PROVE  EndInv'
<1>1. /\ attempt[a].pc = "finishWait"
      /\ \A b \in Attempt \ {a} : attempt'[b] = attempt[b]
      /\ attempt'[a].pc = "emit" /\ attempt'[a].fenced = attempt[a].fenced
      /\ attempt'[a].write = attempt[a].write /\ attempt'[a].late = attempt[a].late
      /\ attempt'[a].admitted = attempt[a].admitted /\ attempt'[a].seen = attempt[a].seen
  BY DEF FinishDetaches, EndInv, TypeOK, AttemptState, PlaceOK
<1>2. attempt' \in [Attempt -> AttemptState]
  BY DEF FinishDetaches, EndInv, TypeOK, AttemptState
<1>3. /\ attached' = FALSE /\ endOp' = None
      /\ \/ attached /\ ~closed /\ owners' = owners + 1 /\ releases' = releases + 1 /\ closed' = closed
         \/ UNCHANGED <<owners, closed, releases>>
      /\ UNCHANGED <<status, endedHere, leaseLive, cleanup, pendingLate, beingFinished, usage, observing,
           emitted>>
  BY DEF FinishDetaches, DetachAndRelease, store, admission
<1>5. TypeOK'
  <2>1. owners \in Nat /\ releases \in Nat /\ pendingLate \in Nat /\ endOp \in Attempt \cup {None}
    BY DEF EndInv, TypeOK
  <2>2. owners' \in Nat /\ releases' \in Nat /\ closed' = closed /\ endOp' \in Attempt \cup {None}
    BY <1>3, <2>1
  <2> QED
    BY <1>2, <1>3, <2>2 DEF EndInv, TypeOK
<1>6. \A b \in Attempt : PlaceOK(b)'
  BY <1>1, <1>2, <1>3, AttemptAssumption DEF EndInv, PlaceOK, TypeOK, None
<1>7. Exclusive'
  BY <1>1, <1>2, <1>3, AttemptAssumption DEF EndInv, Exclusive, Finishing, Timely
<1>8. Counts'
  <2>1. /\ (a \in LateOpen' <=> a \in LateOpen)
        /\ (a \in AdmittedOpen' <=> a \in AdmittedOpen)
        /\ (a \in Timely' <=> a \in Timely)
        /\ (a \in Finishing' <=> a \in Finishing)
    BY <1>1 DEF LateOpen, AdmittedOpen, Timely, Finishing
  <2>2. /\ Cardinality(LateOpen') = Cardinality(LateOpen)
        /\ Cardinality(AdmittedOpen') = Cardinality(AdmittedOpen)
        /\ Cardinality(Timely') = Cardinality(Timely)
        /\ Cardinality(Finishing') = Cardinality(Finishing)
    BY <1>1, <2>1, SetsMove DEF One
  <2>3. /\ Cardinality(LateOpen) \in Nat /\ Cardinality(AdmittedOpen) \in Nat
        /\ Cardinality(Timely) \in Nat /\ Cardinality(Finishing) \in Nat
    BY <1>1, SetsMove
  <2> QED
    BY <2>2, <2>3, <1>3 DEF EndInv, Counts, TypeOK, Usage
<1>9. AttachedAlone'
  BY <1>1, <1>2, <1>3, AttemptAssumption DEF EndInv, AttachedAlone, PlaceOK
<1>10. ReleasedAlone'
  BY <1>1, <1>2, <1>3 DEF EndInv, ReleasedAlone, AttachedAlone, PlaceOK
<1>11. UsageHeld'
  BY <1>1, <1>2, <1>3 DEF EndInv, UsageHeld, Announced, Exclusive, Finishing,
     Timely, PlaceOK, TypeOK, Usage
<1>12. UsageReachesTheHook'
  BY <1>1, <1>2, <1>3 DEF EndInv, UsageReachesTheHook, Announced
<1> QED
  BY <1>5, <1>6, <1>7, <1>8, <1>9, <1>10, <1>11, <1>12 DEF EndInv

\* The observation starts.
LEMMA EmitKeeps ==
    ASSUME EndInv, NEW a \in Attempt, Emit(a),
           owed' = owed
    PROVE  EndInv'
<1>1. /\ attempt[a].pc = "emit"
      /\ \A b \in Attempt \ {a} : attempt'[b] = attempt[b]
      /\ attempt'[a].pc = "observe" /\ attempt'[a].fenced = attempt[a].fenced
      /\ attempt'[a].write = attempt[a].write /\ attempt'[a].late = attempt[a].late
      /\ attempt'[a].admitted = attempt[a].admitted /\ attempt'[a].seen = attempt[a].seen
  BY DEF Emit, EndInv, TypeOK, AttemptState, PlaceOK
<1>2. attempt' \in [Attempt -> AttemptState]
  BY DEF Emit, EndInv, TypeOK, AttemptState
<1>3. /\ observing = None /\ observing' = a
      /\ UNCHANGED <<status, endedHere, leaseLive, attached, owners, closed, releases, cleanup, endOp,
           pendingLate, beingFinished, usage, emitted>>
  BY DEF Emit, store, admission
<1>5. TypeOK'
  BY <1>1, <1>2, <1>3 DEF EndInv, TypeOK
<1>6. \A b \in Attempt : PlaceOK(b)'
  BY <1>1, <1>2, <1>3, AttemptAssumption DEF EndInv, PlaceOK, TypeOK, None
<1>7. Exclusive'
  BY <1>1, <1>2, <1>3, AttemptAssumption DEF EndInv, Exclusive, Finishing, Timely
<1>8. Counts'
  <2>1. /\ (a \in LateOpen' <=> a \in LateOpen)
        /\ (a \in AdmittedOpen' <=> a \in AdmittedOpen)
        /\ (a \in Timely' <=> a \in Timely)
        /\ (a \in Finishing' <=> a \in Finishing)
    BY <1>1 DEF LateOpen, AdmittedOpen, Timely, Finishing
  <2>2. /\ Cardinality(LateOpen') = Cardinality(LateOpen)
        /\ Cardinality(AdmittedOpen') = Cardinality(AdmittedOpen)
        /\ Cardinality(Timely') = Cardinality(Timely)
        /\ Cardinality(Finishing') = Cardinality(Finishing)
    BY <1>1, <2>1, SetsMove DEF One
  <2>3. /\ Cardinality(LateOpen) \in Nat /\ Cardinality(AdmittedOpen) \in Nat
        /\ Cardinality(Timely) \in Nat /\ Cardinality(Finishing) \in Nat
    BY <1>1, SetsMove
  <2> QED
    BY <2>2, <2>3, <1>3 DEF EndInv, Counts, TypeOK, Usage
<1>9. AttachedAlone'
  BY <1>1, <1>2, <1>3, AttemptAssumption DEF EndInv, AttachedAlone, PlaceOK
<1>10. ReleasedAlone'
  BY <1>1, <1>2, <1>3 DEF EndInv, ReleasedAlone, AttachedAlone, PlaceOK
<1>11. UsageHeld'
  BY <1>1, <1>2, <1>3 DEF EndInv, UsageHeld, Announced, Exclusive, Finishing,
     Timely, PlaceOK, TypeOK, Usage
<1>12. UsageReachesTheHook'
  BY <1>1, <1>2, <1>3 DEF EndInv, UsageReachesTheHook, Announced
<1> QED
  BY <1>5, <1>6, <1>7, <1>8, <1>9, <1>10, <1>11, <1>12 DEF EndInv

\* The observation reads the usage summary.
LEMMA ObserveUsageKeeps ==
    ASSUME EndInv, NEW a \in Attempt, ObserveUsage(a),
           owed' = owed
    PROVE  EndInv'
<1>1. /\ attempt[a].pc = "observe"
      /\ \A b \in Attempt \ {a} : attempt'[b] = attempt[b]
      /\ attempt'[a].pc = "observed" /\ attempt'[a].fenced = attempt[a].fenced
      /\ attempt'[a].write = attempt[a].write /\ attempt'[a].late = attempt[a].late
      /\ attempt'[a].admitted = attempt[a].admitted /\ attempt'[a].seen = usage.summary
  BY DEF ObserveUsage, EndInv, TypeOK, AttemptState, PlaceOK
<1>2. attempt' \in [Attempt -> AttemptState]
  <2>1. attempt'[a] = [attempt[a] EXCEPT !.pc = "observed", !.seen = usage.summary]
    BY DEF ObserveUsage, EndInv, TypeOK
  <2>2. attempt'[a] \in AttemptState
    BY <2>1, <1>1 DEF EndInv, TypeOK, AttemptState, Usage
  <2> QED
    BY <2>2 DEF ObserveUsage, EndInv, TypeOK
<1>3. UNCHANGED <<status, endedHere, leaseLive, attached, owners, closed, releases, cleanup, endOp,
           pendingLate, beingFinished, usage, observing, emitted>>
  BY DEF ObserveUsage, store, admission
<1>5. TypeOK'
  BY <1>1, <1>2, <1>3 DEF EndInv, TypeOK
<1>6. \A b \in Attempt : PlaceOK(b)'
  BY <1>1, <1>2, <1>3, AttemptAssumption DEF EndInv, PlaceOK, TypeOK, None
<1>7. Exclusive'
  BY <1>1, <1>2, <1>3, AttemptAssumption DEF EndInv, Exclusive, Finishing, Timely
<1>8. Counts'
  <2>1. /\ (a \in LateOpen' <=> a \in LateOpen)
        /\ (a \in AdmittedOpen' <=> a \in AdmittedOpen)
        /\ (a \in Timely' <=> a \in Timely)
        /\ (a \in Finishing' <=> a \in Finishing)
    BY <1>1 DEF LateOpen, AdmittedOpen, Timely, Finishing
  <2>2. /\ Cardinality(LateOpen') = Cardinality(LateOpen)
        /\ Cardinality(AdmittedOpen') = Cardinality(AdmittedOpen)
        /\ Cardinality(Timely') = Cardinality(Timely)
        /\ Cardinality(Finishing') = Cardinality(Finishing)
    BY <1>1, <2>1, SetsMove DEF One
  <2>3. /\ Cardinality(LateOpen) \in Nat /\ Cardinality(AdmittedOpen) \in Nat
        /\ Cardinality(Timely) \in Nat /\ Cardinality(Finishing) \in Nat
    BY <1>1, SetsMove
  <2> QED
    BY <2>2, <2>3, <1>3 DEF EndInv, Counts, TypeOK, Usage
<1>9. AttachedAlone'
  BY <1>1, <1>2, <1>3, AttemptAssumption DEF EndInv, AttachedAlone, PlaceOK
<1>10. ReleasedAlone'
  BY <1>1, <1>2, <1>3 DEF EndInv, ReleasedAlone, AttachedAlone, PlaceOK
<1>11. UsageHeld'
  BY <1>1, <1>2, <1>3 DEF EndInv, UsageHeld, Announced, Exclusive, Finishing,
     Timely, PlaceOK, TypeOK, Usage
<1>12. UsageReachesTheHook'
  BY <1>1, <1>2, <1>3 DEF EndInv, UsageReachesTheHook, Announced
<1> QED
  BY <1>5, <1>6, <1>7, <1>8, <1>9, <1>10, <1>11, <1>12 DEF EndInv

\* The transaction settles: it made the session terminal, or found it so.
LEMMA PersistKeeps ==
    ASSUME EndInv, NEW a \in Attempt, PersistSessionEnd(a),
           owed' = owed
    PROVE  EndInv'
<1>1. /\ attempt[a].write = "sent"
      /\ \A b \in Attempt \ {a} : attempt'[b] = attempt[b]
      /\ attempt'[a].pc = attempt[a].pc /\ attempt'[a].fenced = attempt[a].fenced
      /\ attempt'[a].write = (IF status = "active" THEN "ended" ELSE "already")
      /\ attempt'[a].late = attempt[a].late /\ attempt'[a].admitted = attempt[a].admitted
      /\ attempt'[a].seen = attempt[a].seen
  BY DEF PersistSessionEnd, EndInv, TypeOK, AttemptState, PlaceOK
<1>2. attempt' \in [Attempt -> AttemptState]
  BY DEF PersistSessionEnd, EndInv, TypeOK, AttemptState
<1>3. /\ status' \in {"active", "terminal"} /\ endedHere' \in BOOLEAN
      /\ UNCHANGED <<leaseLive, attached, owners, closed, releases, cleanup, endOp, pendingLate,
           beingFinished, usage, observing, emitted>>
  BY DEF PersistSessionEnd, EndInv, TypeOK, admission
<1>5. TypeOK'
  BY <1>1, <1>2, <1>3 DEF EndInv, TypeOK
<1>6. \A b \in Attempt : PlaceOK(b)'
  BY <1>1, <1>2, <1>3, AttemptAssumption DEF EndInv, PlaceOK, TypeOK, None
<1>7. Exclusive'
  BY <1>1, <1>2, <1>3, AttemptAssumption DEF EndInv, Exclusive, Finishing, Timely
<1>8. Counts'
  <2>1. /\ (a \in LateOpen' <=> a \in LateOpen)
        /\ (a \in AdmittedOpen' <=> a \in AdmittedOpen)
        /\ (a \in Timely' <=> a \in Timely)
        /\ (a \in Finishing' <=> a \in Finishing)
    BY <1>1 DEF LateOpen, AdmittedOpen, Timely, Finishing
  <2>2. /\ Cardinality(LateOpen') = Cardinality(LateOpen)
        /\ Cardinality(AdmittedOpen') = Cardinality(AdmittedOpen)
        /\ Cardinality(Timely') = Cardinality(Timely)
        /\ Cardinality(Finishing') = Cardinality(Finishing)
    BY <1>1, <2>1, SetsMove DEF One
  <2>3. /\ Cardinality(LateOpen) \in Nat /\ Cardinality(AdmittedOpen) \in Nat
        /\ Cardinality(Timely) \in Nat /\ Cardinality(Finishing) \in Nat
    BY <1>1, SetsMove
  <2> QED
    BY <2>2, <2>3, <1>3 DEF EndInv, Counts, TypeOK, Usage
<1>9. AttachedAlone'
  BY <1>1, <1>2, <1>3, AttemptAssumption DEF EndInv, AttachedAlone, PlaceOK
<1>10. ReleasedAlone'
  BY <1>1, <1>2, <1>3 DEF EndInv, ReleasedAlone, AttachedAlone, PlaceOK
<1>11. UsageHeld'
  BY <1>1, <1>2, <1>3 DEF EndInv, UsageHeld, Announced, Exclusive, Finishing,
     Timely, PlaceOK, TypeOK, Usage, None
<1>12. UsageReachesTheHook'
  BY <1>1, <1>2, <1>3 DEF EndInv, UsageReachesTheHook, Announced
<1> QED
  BY <1>5, <1>6, <1>7, <1>8, <1>9, <1>10, <1>11, <1>12 DEF EndInv

\* The transaction fails.
LEMMA PersistFailsKeeps ==
    ASSUME EndInv, NEW a \in Attempt, PersistSessionEndFails(a),
           owed' = owed
    PROVE  EndInv'
<1>1. /\ attempt[a].write = "sent"
      /\ \A b \in Attempt \ {a} : attempt'[b] = attempt[b]
      /\ attempt'[a].pc = attempt[a].pc /\ attempt'[a].fenced = attempt[a].fenced
      /\ attempt'[a].write = "failed" /\ attempt'[a].late = attempt[a].late
      /\ attempt'[a].admitted = attempt[a].admitted /\ attempt'[a].seen = attempt[a].seen
  BY DEF PersistSessionEndFails, EndInv, TypeOK, AttemptState, PlaceOK
<1>2. attempt' \in [Attempt -> AttemptState]
  BY DEF PersistSessionEndFails, EndInv, TypeOK, AttemptState
<1>3. UNCHANGED <<status, endedHere, leaseLive, attached, owners, closed, releases, cleanup, endOp,
           pendingLate, beingFinished, usage, observing, emitted>>
  BY DEF PersistSessionEndFails, store, admission
<1>5. TypeOK'
  BY <1>1, <1>2, <1>3 DEF EndInv, TypeOK
<1>6. \A b \in Attempt : PlaceOK(b)'
  BY <1>1, <1>2, <1>3, AttemptAssumption DEF EndInv, PlaceOK, TypeOK, None
<1>7. Exclusive'
  BY <1>1, <1>2, <1>3, AttemptAssumption DEF EndInv, Exclusive, Finishing, Timely
<1>8. Counts'
  <2>1. /\ (a \in LateOpen' <=> a \in LateOpen)
        /\ (a \in AdmittedOpen' <=> a \in AdmittedOpen)
        /\ (a \in Timely' <=> a \in Timely)
        /\ (a \in Finishing' <=> a \in Finishing)
    BY <1>1 DEF LateOpen, AdmittedOpen, Timely, Finishing
  <2>2. /\ Cardinality(LateOpen') = Cardinality(LateOpen)
        /\ Cardinality(AdmittedOpen') = Cardinality(AdmittedOpen)
        /\ Cardinality(Timely') = Cardinality(Timely)
        /\ Cardinality(Finishing') = Cardinality(Finishing)
    BY <1>1, <2>1, SetsMove DEF One
  <2>3. /\ Cardinality(LateOpen) \in Nat /\ Cardinality(AdmittedOpen) \in Nat
        /\ Cardinality(Timely) \in Nat /\ Cardinality(Finishing) \in Nat
    BY <1>1, SetsMove
  <2> QED
    BY <2>2, <2>3, <1>3 DEF EndInv, Counts, TypeOK, Usage
<1>9. AttachedAlone'
  BY <1>1, <1>2, <1>3, AttemptAssumption DEF EndInv, AttachedAlone, PlaceOK
<1>10. ReleasedAlone'
  BY <1>1, <1>2, <1>3 DEF EndInv, ReleasedAlone, AttachedAlone, PlaceOK
<1>11. UsageHeld'
  BY <1>1, <1>2, <1>3 DEF EndInv, UsageHeld, Announced, Exclusive, Finishing,
     Timely, PlaceOK, TypeOK, Usage, None
<1>12. UsageReachesTheHook'
  BY <1>1, <1>2, <1>3 DEF EndInv, UsageReachesTheHook, Announced
<1> QED
  BY <1>5, <1>6, <1>7, <1>8, <1>9, <1>10, <1>11, <1>12 DEF EndInv

\* An attempt becomes the finisher: it closes admission and freezes the usage.
LEMMA BecomesFinisher ==
    ASSUME EndInv, NEW a \in Attempt, NEW u \in Usage,
           u.pending = usage.pending, u.late = usage.late, u.retry = usage.retry,
           Kept(usage) => Kept(u), usage.summary => u.summary,
           attempt[a].pc \in {"read", "write", "lateRelease"}, attempt[a].write # "sent",
           EnterFinish(a, u), status' \in {"active", "terminal"}, endedHere' \in BOOLEAN,
           leaseLive' \in BOOLEAN, cleanup' \in BOOLEAN,
           UNCHANGED <<attached, owners, releases, endOp, pendingLate, observing, emitted>>,
           ~beingFinished,
           owed' = owed
    PROVE  EndInv'
<1>1. /\ attempt[a].pc \in {"read", "write", "lateRelease"} /\ attempt[a].write # "sent"
      /\ \A b \in Attempt \ {a} : attempt'[b] = attempt[b]
      /\ attempt'[a].pc = "finishWait" /\ attempt'[a].fenced = attempt[a].fenced
      /\ attempt'[a].write = attempt[a].write /\ attempt'[a].late = attempt[a].late
      /\ attempt'[a].admitted = attempt[a].admitted /\ attempt'[a].seen = attempt[a].seen
  BY DEF EnterFinish, EndInv, TypeOK, AttemptState, PlaceOK
<1>2. attempt' \in [Attempt -> AttemptState]
  BY DEF EnterFinish, EndInv, TypeOK, AttemptState
<1>3. /\ status' \in {"active", "terminal"} /\ endedHere' \in BOOLEAN
      /\ leaseLive' \in BOOLEAN /\ cleanup' \in BOOLEAN
      /\ ~beingFinished /\ beingFinished' = TRUE /\ closed' = (owners > 0)
      /\ UNCHANGED <<attached, owners, releases, endOp, pendingLate, observing, emitted>>
  BY DEF EnterFinish, store, admission
<1>4. /\ usage' \in Usage /\ usage'.pending = usage.pending + 1
      /\ usage'.late = usage.late /\ usage'.retry = usage.retry
      /\ Kept(usage) => usage'.summary /\ Kept(usage')
  <2>1. usage' = Frozen(BeginFinalization(u))
    BY DEF EnterFinish
  <2> QED
    BY <2>1, BeginFacts, FrozenFacts
<1>5. TypeOK'
  BY <1>1, <1>2, <1>3, <1>4 DEF EndInv, TypeOK
<1>6. \A b \in Attempt : PlaceOK(b)'
  BY <1>1, <1>2, <1>3, <1>4, AttemptAssumption DEF EndInv, PlaceOK, TypeOK, None
<1>7. Exclusive'
  BY <1>1, <1>2, <1>3, <1>4, AttemptAssumption DEF EndInv, Exclusive, Finishing, Timely
<1>8. Counts'
  <2>1. /\ (a \in LateOpen' <=> a \in LateOpen)
        /\ (a \in AdmittedOpen' <=> a \in AdmittedOpen)
        /\ (a \in Timely' <=> a \in Timely)
        /\ a \notin Finishing /\ a \in Finishing'
    BY <1>1 DEF LateOpen, AdmittedOpen, Timely, Finishing
  <2>2. /\ Cardinality(LateOpen') = Cardinality(LateOpen)
        /\ Cardinality(AdmittedOpen') = Cardinality(AdmittedOpen)
        /\ Cardinality(Timely') = Cardinality(Timely)
        /\ Cardinality(Finishing') = Cardinality(Finishing) + 1
    BY <1>1, <2>1, SetsMove DEF One
  <2>3. /\ Cardinality(LateOpen) \in Nat /\ Cardinality(AdmittedOpen) \in Nat
        /\ Cardinality(Timely) \in Nat /\ Cardinality(Finishing) \in Nat
    BY <1>1, SetsMove
  <2> QED
    BY <2>2, <2>3, <1>3, <1>4 DEF EndInv, Counts, TypeOK, Usage
<1>9. AttachedAlone'
  BY <1>1, <1>2, <1>3, <1>4, AttemptAssumption DEF EndInv, AttachedAlone, PlaceOK
<1>10. ReleasedAlone'
  BY <1>1, <1>2, <1>3, <1>4 DEF EndInv, ReleasedAlone, AttachedAlone, PlaceOK
<1>11. UsageHeld'
  BY <1>1, <1>2, <1>3, <1>4 DEF EndInv, UsageHeld, Announced, Exclusive, Finishing,
     Timely, PlaceOK, TypeOK, Usage
<1>12. UsageReachesTheHook'
  BY <1>1, <1>2, <1>3, <1>4 DEF EndInv, UsageReachesTheHook, Announced
<1> QED
  BY <1>5, <1>6, <1>7, <1>8, <1>9, <1>10, <1>11, <1>12 DEF EndInv

\* Somebody else is finishing the session already: the attempt just settles.
LEMMA LeavesItToFinisher ==
    ASSUME EndInv, NEW a \in Attempt, NEW u \in Usage,
           u.pending = usage.pending, u.late = usage.late, u.retry = usage.retry,
           Kept(usage) => Kept(u), usage.summary => u.summary,
           attempt[a].pc \in {"read", "write", "lateRelease"}, attempt[a].write # "sent",
           EnterFinish(a, u), status' \in {"active", "terminal"}, endedHere' \in BOOLEAN,
           leaseLive' \in BOOLEAN, cleanup' \in BOOLEAN,
           UNCHANGED <<attached, owners, releases, endOp, pendingLate, observing, emitted>>,
           beingFinished,
           owed' = owed
    PROVE  EndInv'
<1>1. /\ attempt[a].pc \in {"read", "write", "lateRelease"} /\ attempt[a].write # "sent"
      /\ \A b \in Attempt \ {a} : attempt'[b] = attempt[b]
      /\ attempt'[a].pc = "settle" /\ attempt'[a].fenced = attempt[a].fenced
      /\ attempt'[a].write = attempt[a].write /\ attempt'[a].late = attempt[a].late
      /\ attempt'[a].admitted = attempt[a].admitted /\ attempt'[a].seen = attempt[a].seen
  BY DEF EnterFinish, EndInv, TypeOK, AttemptState, PlaceOK
<1>2. attempt' \in [Attempt -> AttemptState]
  BY DEF EnterFinish, EndInv, TypeOK, AttemptState
<1>3. /\ status' \in {"active", "terminal"} /\ endedHere' \in BOOLEAN
      /\ leaseLive' \in BOOLEAN /\ cleanup' \in BOOLEAN
      /\ beingFinished
      /\ UNCHANGED <<attached, owners, releases, endOp, pendingLate, observing, emitted, beingFinished,
           closed>>
  BY DEF EnterFinish, store, admission
<1>4. /\ usage' \in Usage /\ usage'.pending = usage.pending
      /\ usage'.late = usage.late /\ usage'.retry = usage.retry
      /\ (Kept(usage) => Kept(usage')) /\ (usage.summary => usage'.summary)
  BY DEF EnterFinish
<1>5. TypeOK'
  BY <1>1, <1>2, <1>3, <1>4 DEF EndInv, TypeOK
<1>6. \A b \in Attempt : PlaceOK(b)'
  BY <1>1, <1>2, <1>3, <1>4, AttemptAssumption DEF EndInv, PlaceOK, TypeOK, None
<1>7. Exclusive'
  BY <1>1, <1>2, <1>3, <1>4, AttemptAssumption DEF EndInv, Exclusive, Finishing, Timely
<1>8. Counts'
  <2>1. /\ (a \in LateOpen' <=> a \in LateOpen)
        /\ (a \in AdmittedOpen' <=> a \in AdmittedOpen)
        /\ (a \in Timely' <=> a \in Timely)
        /\ (a \in Finishing' <=> a \in Finishing)
    BY <1>1 DEF LateOpen, AdmittedOpen, Timely, Finishing
  <2>2. /\ Cardinality(LateOpen') = Cardinality(LateOpen)
        /\ Cardinality(AdmittedOpen') = Cardinality(AdmittedOpen)
        /\ Cardinality(Timely') = Cardinality(Timely)
        /\ Cardinality(Finishing') = Cardinality(Finishing)
    BY <1>1, <2>1, SetsMove DEF One
  <2>3. /\ Cardinality(LateOpen) \in Nat /\ Cardinality(AdmittedOpen) \in Nat
        /\ Cardinality(Timely) \in Nat /\ Cardinality(Finishing) \in Nat
    BY <1>1, SetsMove
  <2> QED
    BY <2>2, <2>3, <1>3, <1>4 DEF EndInv, Counts, TypeOK, Usage
<1>9. AttachedAlone'
  BY <1>1, <1>2, <1>3, <1>4, AttemptAssumption DEF EndInv, AttachedAlone, PlaceOK
<1>10. ReleasedAlone'
  BY <1>1, <1>2, <1>3, <1>4 DEF EndInv, ReleasedAlone, AttachedAlone, PlaceOK
<1>11. UsageHeld'
  BY <1>1, <1>2, <1>3, <1>4 DEF EndInv, UsageHeld, Announced, Exclusive, Finishing,
     Timely, PlaceOK, TypeOK, Usage
<1>12. UsageReachesTheHook'
  BY <1>1, <1>2, <1>3, <1>4 DEF EndInv, UsageReachesTheHook, Announced
<1> QED
  BY <1>5, <1>6, <1>7, <1>8, <1>9, <1>10, <1>11, <1>12 DEF EndInv

\* The lease may be released on the way, if the session is attached and not closed.
Releasing ==
    /\ attached /\ ~closed /\ closed' = FALSE /\ attached' = FALSE
    /\ owners' = owners + 1 /\ releases' = releases + 1

MayRelease ==
    \/ Releasing
    \/ UNCHANGED <<owners, closed, releases>> /\ (attached' = attached \/ attached' = FALSE)

\* A usage that is still to be announced is kept for a retry.
HeldForRetry ==
    owed /\ ~Announced =>
        Kept(usage') /\ usage'.retry /\ (usage.summary => usage'.summary)

\* An attempt that has nothing to finish settles; it may release the lease on its way.
LEMMA GivesUp ==
    ASSUME EndInv, NEW a \in Attempt, attempt' = [attempt EXCEPT ![a].pc = "settle"],
           attempt[a].pc \in {"read", "write", "lateRelease"}, attempt[a].write # "sent",
           usage' \in Usage, usage'.pending = usage.pending, usage'.late = usage.late,
           HeldForRetry,
           status' \in {"active", "terminal"}, endedHere' \in BOOLEAN, leaseLive' \in BOOLEAN,
           cleanup' \in BOOLEAN,
           MayRelease,
           UNCHANGED <<endOp, pendingLate, beingFinished, observing, emitted>>,
           owed' = owed
    PROVE  EndInv'
<1>1. /\ attempt[a].pc \in {"read", "write", "lateRelease"} /\ attempt[a].write # "sent"
      /\ \A b \in Attempt \ {a} : attempt'[b] = attempt[b]
      /\ attempt'[a].pc = "settle" /\ attempt'[a].fenced = attempt[a].fenced
      /\ attempt'[a].write = attempt[a].write /\ attempt'[a].late = attempt[a].late
      /\ attempt'[a].admitted = attempt[a].admitted /\ attempt'[a].seen = attempt[a].seen
  BY DEF EndInv, TypeOK, AttemptState, PlaceOK
<1>2. attempt' \in [Attempt -> AttemptState]
  BY DEF EndInv, TypeOK, AttemptState
<1>3. /\ status' \in {"active", "terminal"} /\ endedHere' \in BOOLEAN
      /\ leaseLive' \in BOOLEAN /\ cleanup' \in BOOLEAN
      /\ MayRelease
      /\ UNCHANGED <<endOp, pendingLate, beingFinished, observing, emitted>>
  OBVIOUS
<1>4. /\ usage' \in Usage /\ usage'.pending = usage.pending /\ usage'.late = usage.late
      /\ HeldForRetry
  OBVIOUS
<1>5. TypeOK'
  <2>1. owners \in Nat /\ releases \in Nat
    BY DEF EndInv, TypeOK
  <2>2. owners' \in Nat /\ releases' \in Nat
    BY <1>3, <2>1 DEF MayRelease, Releasing
  <2>3. closed' \in BOOLEAN /\ attached' \in BOOLEAN
    BY <1>3 DEF MayRelease, Releasing, EndInv, TypeOK
  <2> QED
    BY <1>2, <1>3, <1>4, <2>2, <2>3 DEF EndInv, TypeOK
<1>6. \A b \in Attempt : PlaceOK(b)'
  BY <1>1, <1>2, <1>3, <1>4, AttemptAssumption DEF EndInv, PlaceOK, TypeOK, None
<1>7. Exclusive'
  BY <1>1, <1>2, <1>3, <1>4, AttemptAssumption DEF EndInv, Exclusive, Finishing, Timely
<1>8. Counts'
  <2>1. /\ (a \in LateOpen' <=> a \in LateOpen)
        /\ (a \in AdmittedOpen' <=> a \in AdmittedOpen)
        /\ (a \in Timely' <=> a \in Timely)
        /\ (a \in Finishing' <=> a \in Finishing)
    BY <1>1 DEF LateOpen, AdmittedOpen, Timely, Finishing
  <2>2. /\ Cardinality(LateOpen') = Cardinality(LateOpen)
        /\ Cardinality(AdmittedOpen') = Cardinality(AdmittedOpen)
        /\ Cardinality(Timely') = Cardinality(Timely)
        /\ Cardinality(Finishing') = Cardinality(Finishing)
    BY <1>1, <2>1, SetsMove DEF One
  <2>3. /\ Cardinality(LateOpen) \in Nat /\ Cardinality(AdmittedOpen) \in Nat
        /\ Cardinality(Timely) \in Nat /\ Cardinality(Finishing) \in Nat
    BY <1>1, SetsMove
  <2> QED
    BY <2>2, <2>3, <1>3, <1>4 DEF EndInv, Counts, TypeOK, MayRelease, Releasing
<1>9. AttachedAlone'
  BY <1>1, <1>2, <1>3, <1>4, AttemptAssumption DEF EndInv, AttachedAlone, PlaceOK,
     MayRelease, Releasing
<1>10. ReleasedAlone'
  <2>1. CASE Releasing
    <3>1. \A b \in Attempt : attempt[b].pc \notin {"new", "done"} => b = a
      BY <1>1, <2>1 DEF EndInv, AttachedAlone, Releasing
    <3>2. \A b \in Attempt : attempt[b].write = "sent" => attempt[b].pc = "write"
      BY DEF EndInv, PlaceOK
    <3>3. attached' = FALSE
      BY <2>1 DEF Releasing
    <3>4. \A b \in Attempt : /\ attempt'[b].pc \notin {"read", "check"}
                          /\ attempt'[b].write # "sent"
      BY <1>1, <3>1, <3>2
    <3> QED
      BY <3>3, <3>4 DEF ReleasedAlone
  <2>2. CASE releases' = releases /\ (attached' = attached \/ attached' = FALSE)
    BY <1>1, <2>2 DEF EndInv, ReleasedAlone
  <2> QED
    BY <1>3, <2>1, <2>2 DEF MayRelease
<1>11. UsageHeld'
  BY <1>1, <1>2, <1>3, <1>4 DEF EndInv, UsageHeld, Announced, HeldForRetry,
     MayRelease, Releasing, Exclusive, Finishing, Timely, PlaceOK
<1>12. UsageReachesTheHook'
  BY <1>1, <1>2, <1>3, <1>4 DEF EndInv, UsageReachesTheHook, Announced
<1> QED
  BY <1>5, <1>6, <1>7, <1>8, <1>9, <1>10, <1>11, <1>12 DEF EndInv

\* The entry of the finisher.
LEMMA EnterFinishKeeps ==
    ASSUME EndInv, NEW a \in Attempt, NEW u \in Usage,
           u.pending = usage.pending, u.late = usage.late, u.retry = usage.retry,
           Kept(usage) => Kept(u), usage.summary => u.summary,
           attempt[a].pc \in {"read", "write", "lateRelease"}, attempt[a].write # "sent",
           EnterFinish(a, u), status' \in {"active", "terminal"}, endedHere' \in BOOLEAN,
           leaseLive' \in BOOLEAN, cleanup' \in BOOLEAN,
           UNCHANGED <<attached, owners, releases, endOp, pendingLate, observing, emitted>>,
           owed' = owed
    PROVE  EndInv'
<1>1. CASE beingFinished
  BY <1>1, LeavesItToFinisher
<1>2. CASE ~beingFinished
  BY <1>2, BecomesFinisher
<1> QED
  BY <1>1, <1>2

\* The stored session is terminal already.  Before the end is announced the usage is still
\* there, so that only a session without usage, or one announced, is dropped here.
LEMMA ReadTerminalKeeps ==
    ASSUME EndInv, NEW a \in Attempt, ReadTerminal(a), owed' = owed
    PROVE  EndInv'
<1>1. /\ attempt[a].pc = "read" /\ attempt[a].write # "sent"
      /\ usage \in Usage
  BY DEF ReadTerminal, EndInv, PlaceOK, TypeOK
<1>2. /\ status' \in {"active", "terminal"} /\ endedHere' \in BOOLEAN /\ leaseLive' \in BOOLEAN
      /\ cleanup' \in BOOLEAN /\ UNCHANGED <<endOp, pendingLate, observing, emitted>>
  BY DEF ReadTerminal, EndInv, TypeOK, store
<1>3. LET u == Frozen(usage) IN
      /\ u \in Usage /\ u.pending = usage.pending /\ u.late = usage.late
      /\ u.retry = usage.retry /\ (Kept(usage) => Kept(u) /\ u.summary)
  BY <1>1, FrozenFacts
<1>4. CASE Frozen(usage).summary
  <2>1. EnterFinish(a, Frozen(usage)) /\ UNCHANGED <<owners, releases, attached>>
    BY <1>4 DEF ReadTerminal
  <2> HIDE DEF EnterFinish, EndInv
  <2> QED
    BY <1>1, <1>2, <1>3, <1>4, <2>1, EnterFinishKeeps
<1>5. CASE ~Frozen(usage).summary
  <2>1. /\ DetachAndRelease /\ usage' = Frozen(usage) /\ beingFinished' = beingFinished
        /\ attempt' = [attempt EXCEPT ![a].pc = "settle"]
    BY <1>5 DEF ReadTerminal
  <2>2. MayRelease
    BY <2>1 DEF DetachAndRelease, admission, MayRelease, Releasing
  <2>3. HeldForRetry
    BY <1>3, <1>5 DEF EndInv, UsageHeld, HeldForRetry
  <2> HIDE DEF EndInv
  <2> QED
    BY <1>1, <1>2, <1>3, <2>1, <2>2, <2>3, GivesUp
<1> QED
  BY <1>4, <1>5

\* The write settles in time.
LEMMA WriteSettlesKeeps ==
    ASSUME EndInv, NEW a \in Attempt, WriteSettles(a), owed' = owed
    PROVE  EndInv'
<1>1. /\ attempt[a].pc = "write" /\ attempt[a].write # "sent" /\ usage \in Usage
  BY DEF WriteSettles, EndInv, TypeOK
<1>2. /\ status' \in {"active", "terminal"} /\ endedHere' \in BOOLEAN /\ leaseLive' \in BOOLEAN
      /\ UNCHANGED <<endOp, pendingLate, observing, emitted>>
  BY DEF WriteSettles, EndInv, TypeOK, store
<1>3. CASE attempt[a].write = "ended"
  <2>1. EnterFinish(a, usage) /\ UNCHANGED <<owners, releases, attached, cleanup>>
    BY <1>3 DEF WriteSettles
  <2>2. cleanup' \in BOOLEAN
    BY <2>1 DEF EndInv, TypeOK
  <2> QED
    BY <1>1, <1>2, <2>1, <2>2, EnterFinishKeeps
<1>4. CASE attempt[a].write # "ended"
  <2>1. /\ IF attempt[a].fenced THEN DetachAndRelease ELSE UNCHANGED <<attached, admission>>
        /\ usage' = RetainedForRetry(usage) /\ cleanup' = TRUE
        /\ attempt' = [attempt EXCEPT ![a].pc = "settle"] /\ beingFinished' = beingFinished
    BY <1>4 DEF WriteSettles
  <2>2. MayRelease
    BY <2>1 DEF DetachAndRelease, admission, MayRelease, Releasing
  <2>3. /\ usage' \in Usage /\ usage'.pending = usage.pending /\ usage'.late = usage.late
        /\ Kept(usage) => usage'.retry /\ Kept(usage') /\ (usage.summary => usage'.summary)
    BY <1>1, <2>1, RetainedFacts
  <2>4. HeldForRetry
    BY <2>3 DEF EndInv, UsageHeld, HeldForRetry
  <2> QED
    BY <1>1, <1>2, <2>1, <2>2, <2>3, <2>4, GivesUp
<1> QED
  BY <1>3, <1>4

\* The late handler, after the release of the lease.
LEMMA LateReleasedKeeps ==
    ASSUME EndInv, NEW a \in Attempt, LateReleased(a), owed' = owed
    PROVE  EndInv'
<1>1. /\ attempt[a].pc = "lateRelease" /\ attempt[a].write # "sent" /\ usage \in Usage
  BY DEF LateReleased, EndInv, TypeOK, PlaceOK
<1>2. /\ status' \in {"active", "terminal"} /\ endedHere' \in BOOLEAN /\ leaseLive' \in BOOLEAN
      /\ UNCHANGED <<attached, owners, releases, endOp, pendingLate, observing, emitted>>
  BY DEF LateReleased, EndInv, TypeOK
<1>3. CASE attempt[a].write = "ended"
  <2>1. EnterFinish(a, usage) /\ cleanup' \in BOOLEAN
    BY <1>3 DEF LateReleased, EndInv, TypeOK
  <2> QED
    BY <1>1, <1>2, <2>1, EnterFinishKeeps
<1>4. CASE attempt[a].write # "ended"
  <2>1. /\ usage' = RetainedForRetry(usage) /\ cleanup' = TRUE /\ closed' = closed
        /\ attempt' = [attempt EXCEPT ![a].pc = "settle"] /\ beingFinished' = beingFinished
    BY <1>4 DEF LateReleased
  <2>2. /\ usage' \in Usage /\ usage'.pending = usage.pending /\ usage'.late = usage.late
        /\ Kept(usage) => usage'.retry /\ Kept(usage') /\ (usage.summary => usage'.summary)
    BY <1>1, <2>1, RetainedFacts
  <2>3. HeldForRetry
    BY <2>2 DEF EndInv, UsageHeld, HeldForRetry
  <2>4. MayRelease
    BY <1>2, <2>1 DEF MayRelease
  <2> QED
    BY <1>1, <1>2, <2>1, <2>2, <2>3, <2>4, GivesUp
<1> QED
  BY <1>3, <1>4

\* The hooks have run.  The usage was found when the end was not announced before, and
\* otherwise it was delivered earlier.
LEMMA ObserveDoneKeeps ==
    ASSUME EndInv, NEW a \in Attempt, ObserveDone(a),
           owed' = owed
    PROVE  EndInv'
<1>1. /\ attempt[a].pc = "observed"
      /\ \A b \in Attempt \ {a} : attempt'[b] = attempt[b]
      /\ attempt'[a].pc = "settle" /\ attempt'[a].fenced = attempt[a].fenced
      /\ attempt'[a].write = attempt[a].write /\ attempt'[a].late = attempt[a].late
      /\ attempt'[a].admitted = attempt[a].admitted /\ attempt'[a].seen = attempt[a].seen
  BY DEF ObserveDone, EndInv, TypeOK, AttemptState, PlaceOK
<1>2. attempt' \in [Attempt -> AttemptState]
  BY DEF ObserveDone, EndInv, TypeOK, AttemptState
<1>3. /\ observing' = None /\ beingFinished' = FALSE
      /\ \A b \in Attempt \ {a} : emitted'[b] = emitted[b]
      /\ emitted'[a] = (IF attempt[a].seen THEN "usage" ELSE "bare")
      /\ emitted' \in [Attempt -> {None, "usage", "bare"}]
      /\ UNCHANGED <<status, endedHere, leaseLive, attached, owners, closed, releases, cleanup, endOp,
           pendingLate>>
  <2>1. emitted \in [Attempt -> {None, "usage", "bare"}]
    BY DEF EndInv, TypeOK
  <2>2. emitted' = [emitted EXCEPT ![a] = IF attempt[a].seen THEN "usage" ELSE "bare"]
    BY DEF ObserveDone
  <2> QED
    BY <2>1, <2>2 DEF ObserveDone, store, admission
<1>4. usage' \in Usage /\ usage'.pending = usage.pending - 1 /\ usage'.late = 0
  <2>1. usage' = [usage EXCEPT !.finalizer = FALSE, !.summary = FALSE, !.frozen = FALSE,
                               !.retry = FALSE, !.late = 0, !.pending = @ - 1]
    BY DEF ObserveDone
  <2>2. usage \in Usage /\ usage.pending \in Nat /\ usage.pending > 0
    <3>1. a \in Finishing
      BY <1>1 DEF Finishing
    <3>2. usage \in Usage /\ usage.pending \in Nat
      BY DEF EndInv, TypeOK, Usage
    <3> QED
      BY <3>1, <3>2, Held DEF One
  <2>3. usage.pending - 1 \in Nat
    BY <2>2
  <2>4. usage' \in Usage
    BY <2>1, <2>2, <2>3 DEF Usage
  <2>5. usage'.pending = usage.pending - 1 /\ usage'.late = 0
    BY <2>1, <2>2 DEF Usage
  <2> QED
    BY <2>4, <2>5
<1>5. TypeOK'
  BY <1>1, <1>2, <1>3, <1>4 DEF EndInv, TypeOK
<1>6. \A b \in Attempt : PlaceOK(b)'
  BY <1>1, <1>2, <1>3, <1>4, AttemptAssumption DEF EndInv, PlaceOK, TypeOK, None
<1>7. Exclusive'
  <2>1. Finishing' = {}
    BY <1>1 DEF Finishing, EndInv, Exclusive
  <2>2. endOp' # None => endOp' \in Timely'
    BY <1>1, <1>3 DEF EndInv, Exclusive, Timely
  <2> QED
    BY <1>3, <2>1, <2>2 DEF Exclusive
<1>8. Counts'
  <2>1. /\ (a \in LateOpen' <=> a \in LateOpen)
        /\ (a \in AdmittedOpen' <=> a \in AdmittedOpen)
        /\ (a \in Timely' <=> a \in Timely)
        /\ a \in Finishing /\ a \notin Finishing'
    BY <1>1 DEF LateOpen, AdmittedOpen, Timely, Finishing
  <2>2. /\ Cardinality(LateOpen') = Cardinality(LateOpen)
        /\ Cardinality(AdmittedOpen') = Cardinality(AdmittedOpen)
        /\ Cardinality(Timely') = Cardinality(Timely)
        /\ Cardinality(Finishing') = Cardinality(Finishing) - 1
    BY <1>1, <2>1, SetsMove DEF One
  <2>3. /\ Cardinality(LateOpen) \in Nat /\ Cardinality(AdmittedOpen) \in Nat
        /\ Cardinality(Timely) \in Nat /\ Cardinality(Finishing) \in Nat
    BY <1>1, SetsMove
  <2> QED
    BY <2>2, <2>3, <1>3, <1>4 DEF EndInv, Counts, TypeOK, Usage
<1>9. AttachedAlone'
  BY <1>1, <1>2, <1>3, <1>4, AttemptAssumption DEF EndInv, AttachedAlone, PlaceOK
<1>10. ReleasedAlone'
  BY <1>1, <1>2, <1>3, <1>4 DEF EndInv, ReleasedAlone, AttachedAlone, PlaceOK
<1>11. UsageHeld'
  BY <1>3 DEF UsageHeld, Announced, None
<1>12. UsageReachesTheHook'
  <2>1. emitted[a] = None
    BY <1>1 DEF EndInv, PlaceOK
  <2>2. CASE attempt[a].seen
    BY <2>2, <1>3 DEF UsageReachesTheHook
  <2>3. CASE ~attempt[a].seen /\ owed
    <3>1. Announced
      BY <2>3, <1>1 DEF EndInv, UsageHeld
    <3>2. PICK b \in Attempt : emitted[b] = "usage"
      BY <2>3, <3>1 DEF EndInv, UsageReachesTheHook
    <3>3. emitted'[b] = "usage"
      BY <1>3, <2>1, <3>2 DEF None
    <3> QED
      BY <3>3 DEF UsageReachesTheHook
  <2>4. CASE ~owed
    BY <2>4 DEF UsageReachesTheHook
  <2> QED
    BY <2>2, <2>3, <2>4
<1> QED
  BY <1>5, <1>6, <1>7, <1>8, <1>9, <1>10, <1>11, <1>12 DEF EndInv

\* A late handler gives back what the deadline took.
LEMMA LateSettleKeeps ==
    ASSUME EndInv, NEW a \in Attempt, Settle(a), attempt[a].late,
           owed' = owed
    PROVE  EndInv'
<1>1. /\ attempt[a].pc = "settle" /\ attempt[a].late
      /\ \A b \in Attempt \ {a} : attempt'[b] = attempt[b]
      /\ attempt'[a].pc = "done" /\ attempt'[a].fenced = attempt[a].fenced
      /\ attempt'[a].write = attempt[a].write /\ attempt'[a].late = TRUE
      /\ attempt'[a].admitted = attempt[a].admitted /\ attempt'[a].seen = attempt[a].seen
  <2>1. attempt[a] \in AttemptState
    BY DEF EndInv, TypeOK
  <2>2. attempt[a].late = TRUE
    BY <2>1 DEF Settle, AttemptState
  <2>3. /\ \A b \in Attempt \ {a} : attempt'[b] = attempt[b]
        /\ attempt'[a].pc = "done" /\ attempt'[a].fenced = attempt[a].fenced
        /\ attempt'[a].write = attempt[a].write /\ attempt'[a].late = attempt[a].late
        /\ attempt'[a].admitted = attempt[a].admitted /\ attempt'[a].seen = attempt[a].seen
    BY DEF Settle, EndInv, TypeOK, AttemptState
  <2>4. attempt[a].pc = "settle" 
    BY DEF Settle
  <2> QED
    BY <2>2, <2>3, <2>4
<1>2. attempt' \in [Attempt -> AttemptState]
  BY DEF Settle, EndInv, TypeOK, AttemptState
<1>3. /\ pendingLate' = pendingLate - 1 /\ pendingLate > 0
      /\ owners' = owners - One(attempt[a].admitted) /\ owners >= One(attempt[a].admitted)
      /\ closed' \in BOOLEAN /\ (closed' => closed /\ owners' > 0)
      /\ UNCHANGED <<status, endedHere, leaseLive, attached, releases, cleanup, endOp, beingFinished,
           observing, emitted>>
  <2>1. a \in LateOpen /\ (a \in AdmittedOpen <=> attempt[a].admitted)
    BY <1>1 DEF LateOpen, AdmittedOpen
  <2>2. pendingLate \in Nat /\ owners \in Nat /\ releases \in Nat
    BY DEF EndInv, TypeOK
  <2>3. pendingLate > 0 /\ owners >= One(attempt[a].admitted)
    BY <2>1, <2>2, Held DEF One
  <2>4. /\ pendingLate' = pendingLate - 1
        /\ owners' = owners - (IF attempt[a].admitted THEN 1 ELSE 0)
        /\ closed' \in BOOLEAN /\ (closed' => closed /\ owners' > 0)
    BY <1>1 DEF Settle, GiveBack
  <2> QED
    BY <1>1, <2>3, <2>4 DEF Settle, One, store
<1>4. /\ usage' \in Usage /\ usage'.pending = usage.pending /\ usage'.retry = usage.retry
      /\ usage'.late = IF usage.late = 0 THEN 0 ELSE usage.late - 1
      /\ owed /\ ~Announced =>
             Kept(usage') /\ (usage.summary => usage'.summary)
  <2>1. usage \in Usage /\ usage' = ReleasedForLateWrite(usage)
    BY <1>1 DEF Settle, EndInv, TypeOK
  <2>2. owed /\ ~Announced => Kept(usage) /\ (usage.retry \/ beingFinished)
    BY <1>1 DEF EndInv, UsageHeld
  <2>3. beingFinished => usage.pending > 0
    <3>1. SUFFICES ASSUME beingFinished PROVE usage.pending > 0
      OBVIOUS
    <3>2. PICK b \in Attempt : b \in Finishing
      BY <3>1 DEF EndInv, Exclusive, Finishing
    <3> QED
      BY <2>1, <3>2, Held DEF One, Usage
  <2> QED
    BY <2>1, <2>2, <2>3, ReleasedLateFacts
<1>5. TypeOK'
  <2>1. owners \in Nat /\ pendingLate \in Nat
    BY DEF EndInv, TypeOK
  <2>2. owners' \in Nat /\ pendingLate' \in Nat /\ closed' \in BOOLEAN
    BY <1>3, <2>1 DEF One
  <2> QED
    BY <1>2, <1>3, <1>4, <2>2 DEF EndInv, TypeOK
<1>6. \A b \in Attempt : PlaceOK(b)'
  BY <1>1, <1>2, <1>3, <1>4, AttemptAssumption DEF EndInv, PlaceOK, TypeOK, None
<1>7. Exclusive'
  BY <1>1, <1>2, <1>3, <1>4, AttemptAssumption DEF EndInv, Exclusive, Finishing, Timely
<1>8. Counts'
  <2>1. /\ a \in LateOpen /\ a \notin LateOpen' /\ a \notin AdmittedOpen'
        /\ (a \in AdmittedOpen <=> attempt[a].admitted)
        /\ (a \in Timely' <=> a \in Timely) /\ (a \in Finishing' <=> a \in Finishing)
    BY <1>1 DEF LateOpen, AdmittedOpen, Timely, Finishing
  <2>2. /\ Cardinality(LateOpen') = Cardinality(LateOpen) - 1
        /\ Cardinality(AdmittedOpen') = Cardinality(AdmittedOpen) - One(attempt[a].admitted)
        /\ Cardinality(Timely') = Cardinality(Timely)
        /\ Cardinality(Finishing') = Cardinality(Finishing)
    BY <1>1, <2>1, SetsMove DEF One
  <2>3. /\ Cardinality(LateOpen) \in Nat /\ Cardinality(AdmittedOpen) \in Nat
        /\ Cardinality(Timely) \in Nat /\ Cardinality(Finishing) \in Nat
    BY <1>1, SetsMove
  <2>4. usage.late \in Nat /\ usage.pending \in Nat /\ owners \in Nat /\ releases \in Nat
    BY DEF EndInv, TypeOK, Usage
  <2> QED
    BY <2>2, <2>3, <2>4, <1>3, <1>4 DEF EndInv, Counts, One
<1>9. AttachedAlone'
  BY <1>1, <1>2, <1>3, <1>4, AttemptAssumption DEF EndInv, AttachedAlone, PlaceOK
<1>10. ReleasedAlone'
  BY <1>1, <1>2, <1>3, <1>4 DEF EndInv, ReleasedAlone, AttachedAlone, PlaceOK
<1>11. UsageHeld'
  BY <1>1, <1>2, <1>3, <1>4 DEF EndInv, UsageHeld, Announced, Exclusive, Finishing,
     Timely, PlaceOK, TypeOK, Usage
<1>12. UsageReachesTheHook'
  BY <1>1, <1>2, <1>3, <1>4 DEF EndInv, UsageReachesTheHook, Announced
<1> QED
  BY <1>5, <1>6, <1>7, <1>8, <1>9, <1>10, <1>11, <1>12 DEF EndInv

\* A timely attempt settles the promise of its caller.  It is not the last one to hold the
\* usage while a finisher is under way.
LEMMA TimelySettleKeeps ==
    ASSUME EndInv, NEW a \in Attempt, Settle(a), ~attempt[a].late,
           owed' = owed
    PROVE  EndInv'
<1>1. /\ attempt[a].pc = "settle" /\ ~attempt[a].late
      /\ \A b \in Attempt \ {a} : attempt'[b] = attempt[b]
      /\ attempt'[a].pc = "done" /\ attempt'[a].fenced = attempt[a].fenced
      /\ attempt'[a].write = attempt[a].write /\ attempt'[a].late = attempt[a].late
      /\ attempt'[a].admitted = attempt[a].admitted /\ attempt'[a].seen = attempt[a].seen
  BY DEF Settle, EndInv, TypeOK, AttemptState, PlaceOK
<1>2. attempt' \in [Attempt -> AttemptState]
  BY DEF Settle, EndInv, TypeOK, AttemptState
<1>3. /\ endOp' = IF endOp = a THEN None ELSE endOp
      /\ UNCHANGED <<status, endedHere, leaseLive, attached, owners, closed, releases, cleanup,
           pendingLate, beingFinished, observing, emitted>>
  BY <1>1 DEF Settle, Settles, store
<1>4. /\ usage' \in Usage /\ usage'.pending = usage.pending - 1
      /\ usage'.late = usage.late /\ usage'.retry = usage.retry
      /\ owed /\ ~Announced =>
             Kept(usage') /\ (usage.summary => usage'.summary)
  <2>1. usage \in Usage /\ usage' = EndFinalization(usage)
    BY <1>1 DEF Settle, EndInv, TypeOK
  <2>2. owed /\ ~Announced =>
           Kept(usage) /\ (usage.retry \/ beingFinished \/ usage.late > 0)
    BY <1>1 DEF EndInv, UsageHeld
  <2>3. a \in Timely
    BY <1>1 DEF Timely
  <2>4. usage.pending > 0
    BY <2>1, <2>3, Held DEF One, Usage
  <2>5. beingFinished => usage.pending > 1
    <3>1. SUFFICES ASSUME beingFinished PROVE usage.pending > 1
      OBVIOUS
    <3>2. PICK b \in Attempt : b \in Finishing
      BY <3>1 DEF EndInv, Exclusive, Finishing
    <3>3. /\ Cardinality(Timely) \in Nat /\ Cardinality(Timely) >= 1
          /\ Cardinality(Finishing) \in Nat /\ Cardinality(Finishing) >= 1
      BY <2>3, <3>2, FiniteHolds, SomeCounted
    <3> QED
      BY <3>3 DEF EndInv, Counts
  <2> QED
    BY <2>1, <2>2, <2>4, <2>5, EndFacts
<1>5. TypeOK'
  BY <1>1, <1>2, <1>3, <1>4 DEF EndInv, TypeOK
<1>6. \A b \in Attempt : PlaceOK(b)'
  BY <1>1, <1>2, <1>3, <1>4, AttemptAssumption DEF EndInv, PlaceOK, TypeOK, None
<1>7. Exclusive'
  BY <1>1, <1>2, <1>3, <1>4, AttemptAssumption DEF EndInv, Exclusive, Finishing, Timely
<1>8. Counts'
  <2>1. /\ (a \in LateOpen' <=> a \in LateOpen)
        /\ (a \in AdmittedOpen' <=> a \in AdmittedOpen)
        /\ a \in Timely /\ a \notin Timely'
        /\ (a \in Finishing' <=> a \in Finishing)
    BY <1>1 DEF LateOpen, AdmittedOpen, Timely, Finishing
  <2>2. /\ Cardinality(LateOpen') = Cardinality(LateOpen)
        /\ Cardinality(AdmittedOpen') = Cardinality(AdmittedOpen)
        /\ Cardinality(Timely') = Cardinality(Timely) - 1
        /\ Cardinality(Finishing') = Cardinality(Finishing)
    BY <1>1, <2>1, SetsMove DEF One
  <2>3. /\ Cardinality(LateOpen) \in Nat /\ Cardinality(AdmittedOpen) \in Nat
        /\ Cardinality(Timely) \in Nat /\ Cardinality(Finishing) \in Nat
    BY <1>1, SetsMove
  <2> QED
    BY <2>2, <2>3, <1>3, <1>4 DEF EndInv, Counts, TypeOK, Usage
<1>9. AttachedAlone'
  BY <1>1, <1>2, <1>3, <1>4, AttemptAssumption DEF EndInv, AttachedAlone, PlaceOK
<1>10. ReleasedAlone'
  BY <1>1, <1>2, <1>3, <1>4 DEF EndInv, ReleasedAlone, AttachedAlone, PlaceOK
<1>11. UsageHeld'
  BY <1>1, <1>2, <1>3, <1>4 DEF EndInv, UsageHeld, Announced, Exclusive, Finishing,
     Timely, PlaceOK, TypeOK, Usage
<1>12. UsageReachesTheHook'
  BY <1>1, <1>2, <1>3, <1>4 DEF EndInv, UsageReachesTheHook, Announced
<1> QED
  BY <1>5, <1>6, <1>7, <1>8, <1>9, <1>10, <1>11, <1>12 DEF EndInv

\* A release settles: it gives its admission back.
LEMMA ReleaseSettlesKeeps ==
    ASSUME EndInv, ReleaseSettles, owed' = owed
    PROVE  EndInv'
<1>1. /\ releases > 0 /\ releases' = releases - 1 /\ owners' = owners - 1
      /\ closed' \in BOOLEAN /\ (closed' => closed /\ owners' > 0)
      /\ leaseLive' \in BOOLEAN
      /\ UNCHANGED <<status, endedHere, attached, cleanup, endOp, pendingLate, beingFinished,
                     usage, observing, attempt, emitted>>
  BY DEF ReleaseSettles, GiveBack, EndInv, TypeOK
<1>2. /\ releases \in Nat /\ owners = releases + Cardinality(AdmittedOpen)
      /\ Cardinality(AdmittedOpen) \in Nat
  BY FiniteHolds, FS_CardinalityType DEF EndInv, TypeOK, Counts
<1>3. owners' \in Nat /\ releases' \in Nat /\ closed' \in BOOLEAN /\ leaseLive' \in BOOLEAN
  BY <1>1, <1>2
<1>4. TypeOK'
  BY <1>1, <1>3 DEF EndInv, TypeOK
<1>5. UNCHANGED <<LateOpen, AdmittedOpen, Timely, Finishing, Announced, UsageReachesTheHook>>
  BY <1>1 DEF LateOpen, AdmittedOpen, Timely, Finishing, Announced, UsageReachesTheHook
<1>6. (\A b \in Attempt : PlaceOK(b)') /\ Exclusive'
  BY <1>1, <1>5 DEF EndInv, PlaceOK, Exclusive
<1>7. Counts'
  BY <1>1, <1>2, <1>5 DEF EndInv, Counts
<1>8. AttachedAlone' /\ ReleasedAlone'
  BY <1>1, <1>2 DEF EndInv, AttachedAlone, ReleasedAlone
<1>9. UsageHeld'
  BY <1>1, <1>2, <1>5 DEF EndInv, UsageHeld
<1> QED
  BY <1>4, <1>5, <1>6, <1>7, <1>8, <1>9 DEF EndInv

\* A step that concerns only the store, the lease or the cleanup.
LEMMA StoreStepKeeps ==
    ASSUME EndInv, TypeOK',
           UNCHANGED <<attached, owners, closed, releases, endOp, pendingLate, beingFinished,
                       usage, observing, attempt, emitted, owed>>
    PROVE  EndInv'
<1>1. UNCHANGED <<LateOpen, AdmittedOpen, Timely, Finishing, Announced, UsageReachesTheHook>>
  BY DEF LateOpen, AdmittedOpen, Timely, Finishing, Announced, UsageReachesTheHook
<1>2. (\A b \in Attempt : PlaceOK(b)') /\ Exclusive' /\ Counts'
  BY <1>1 DEF EndInv, PlaceOK, Exclusive, Counts
<1>3. AttachedAlone' /\ ReleasedAlone' /\ UsageHeld'
  BY <1>1 DEF EndInv, AttachedAlone, ReleasedAlone, UsageHeld
<1> QED
  BY <1>1, <1>2, <1>3 DEF EndInv

-----------------------------------------------------------------------------
(***************************************************************************)
(* The theorems.                                                           *)
(***************************************************************************)

\* The invariant holds initially.
LEMMA EndInit == Init => EndInv
<1> SUFFICES ASSUME Init PROVE EndInv
  OBVIOUS
<1>1. /\ attempt \in [Attempt -> AttemptState]
      /\ \A a \in Attempt : /\ attempt[a].pc = "new" /\ attempt[a].write = None
                            /\ ~attempt[a].late /\ ~attempt[a].fenced /\ emitted[a] = None
  BY DEF Init, New, AttemptState
<1>2. /\ usage \in Usage /\ usage.pending = 0 /\ usage.late = 0
      /\ usage.finalizer = owed /\ ~usage.frozen
  BY DEF Init, Usage
<1>3. LateOpen = {} /\ AdmittedOpen = {} /\ Timely = {} /\ Finishing = {}
  BY <1>1 DEF LateOpen, AdmittedOpen, Timely, Finishing
<1>4. Cardinality({}) = 0
  BY FS_EmptySet
<1>5. TypeOK
  BY <1>1, <1>2 DEF Init, TypeOK
<1>6. \A a \in Attempt : PlaceOK(a)
  BY <1>1, AttemptAssumption DEF Init, PlaceOK, None
<1>7. Exclusive /\ Counts
  BY <1>2, <1>3, <1>4 DEF Init, Exclusive, Counts
<1>8. AttachedAlone /\ ReleasedAlone
  BY <1>1 DEF Init, AttachedAlone, ReleasedAlone
<1>9. UsageHeld /\ UsageReachesTheHook
  BY <1>1, <1>2, <1>3 DEF Init, UsageHeld, UsageReachesTheHook, Announced, Kept
<1> QED
  BY <1>5, <1>6, <1>7, <1>8, <1>9 DEF EndInv

\* Every step keeps the invariant.
LEMMA EndStep == EndInv /\ [Next]_vars => EndInv'
<1> SUFFICES ASSUME EndInv, [Next]_vars PROVE EndInv'
  OBVIOUS
<1>1. ASSUME NEW a \in Attempt, EndSession(a), owed' = owed PROVE EndInv'
  BY <1>1, EndSessionKeeps
<1>2. ASSUME NEW a \in Attempt, Proceed(a), owed' = owed PROVE EndInv'
  <2>1. CASE AwaitCleanup(a)
    BY <1>2, <2>1, AwaitCleanupKeeps
  <2>2. CASE WriteSettles(a)
    BY <1>2, <2>2, WriteSettlesKeeps
  <2>3. CASE LateWriteSettles(a)
    BY <1>2, <2>3, LateWriteSettlesKeeps
  <2>4. CASE LateReleased(a)
    BY <1>2, <2>4, LateReleasedKeeps
  <2>5. CASE FinishDetaches(a)
    BY <1>2, <2>5, FinishDetachesKeeps
  <2>6. CASE Emit(a)
    BY <1>2, <2>6, EmitKeeps
  <2>7. CASE ObserveUsage(a)
    BY <1>2, <2>7, ObserveUsageKeeps
  <2>8. CASE ObserveDone(a)
    BY <1>2, <2>8, ObserveDoneKeeps
  <2>9. CASE Settle(a)
    BY <1>2, <2>9, LateSettleKeeps, TimelySettleKeeps
  <2> QED
    BY <1>2, <2>1, <2>2, <2>3, <2>4, <2>5, <2>6, <2>7, <2>8, <2>9
       DEF Proceed
<1>3. ASSUME NEW a \in Attempt, WriteTimesOut(a), owed' = owed PROVE EndInv'
  BY <1>3, WriteTimesOutKeeps
<1>4. ASSUME NEW a \in Attempt, PersistSessionEnd(a), owed' = owed PROVE EndInv'
  BY <1>4, PersistKeeps
<1>5. ASSUME NEW a \in Attempt, PersistSessionEndFails(a), owed' = owed
      PROVE  EndInv'
  BY <1>5, PersistFailsKeeps
<1>6. CASE ReleaseSettles /\ owed' = owed
  BY <1>6, ReleaseSettlesKeeps
<1>7. CASE (CleanupDone \/ LeaseExpires \/ EndedElsewhere) /\ owed' = owed
  <2>1. TypeOK'
    BY <1>7 DEF CleanupDone, LeaseExpires, EndedElsewhere, store, admission, EndInv, TypeOK
  <2>2. UNCHANGED <<attached, owners, closed, releases, endOp, pendingLate, beingFinished,
                    usage, observing, attempt, emitted, owed>>
    BY <1>7 DEF CleanupDone, LeaseExpires, EndedElsewhere, store, admission
  <2> QED
    BY <2>1, <2>2, StoreStepKeeps
<1>8. ASSUME NEW a \in Attempt, Read(a), owed' = owed PROVE EndInv'
  BY <1>8, ReadTerminalKeeps, ReadActiveKeeps, CheckLeaseKeeps DEF Read
<1>9. ASSUME NEW a \in Attempt, ReadFails(a) PROVE EndInv'
  BY <1>9, ReadFailsKeeps
<1>10. CASE UNCHANGED vars
  <2>1. TypeOK'
    BY <1>10 DEF vars, EndInv, TypeOK
  <2> QED
    BY <1>10, <2>1, StoreStepKeeps DEF vars
<1> QED
  BY <1>1, <1>2, <1>3, <1>4, <1>5, <1>6, <1>7, <1>8, <1>9, <1>10 DEF Next

\* The bookkeeping of endSession is consistent in every reachable state, for any number of
\* attempts: the counters count what they stand for, one attempt finishes the session, the
\* lease is released only once nothing is under way under it, and the usage that is owed to
\* the announcement is held, by a write, a retry or the finisher.
THEOREM EndInvariant == Spec => []EndInv
<1>1. Init => EndInv
  BY EndInit
<1>2. EndInv /\ [Next]_vars => EndInv'
  BY EndStep
<1> QED
  BY <1>1, <1>2, PTL DEF Spec

\* Types: every variable of endSession keeps its type.
THEOREM EndTypes == Spec => []TypeOK
<1>1. EndInv => TypeOK
  BY DEF EndInv
<1> QED
  BY <1>1, EndInvariant, PTL

\* The lease outlives every terminal write under it: #detach starts leases.release only
\* when no fenced transaction is running.
THEOREM WritesUnderTheLease == Spec => []LeaseOutlivesWrite
<1>1. EndInv => LeaseOutlivesWrite
  BY DEF EndInv, ReleasedAlone, LeaseOutlivesWrite
<1> QED
  BY <1>1, EndInvariant, PTL

\* The first announcement of the end carries the usage of the session, whatever writes
\* failed, timed out or were overtaken before, and whatever reads failed after the first
\* write; a read that failed in front of it leaves nothing owed.
THEOREM UsageDelivered == Spec => []UsageReachesTheHook
<1>1. EndInv => UsageReachesTheHook
  BY DEF EndInv
<1> QED
  BY <1>1, EndInvariant, PTL

\* When everything has settled no admission, closed flag, pending-write count, usage hold,
\* finisher or joinable operation is left behind.
THEOREM EverythingGivenBack == Spec => []NothingLeaks
<1>1. EndInv => NothingLeaks
  <2> SUFFICES ASSUME EndInv, Quiescent
               PROVE  /\ owners = 0 /\ ~closed /\ pendingLate = 0
                      /\ usage.pending = 0 /\ usage.late = 0
                      /\ ~beingFinished /\ endOp = None
    BY DEF NothingLeaks
  <2>1. LateOpen = {} /\ AdmittedOpen = {} /\ Timely = {} /\ Finishing = {}
    <3>1. \A a \in Attempt : attempt[a].late => attempt[a].pc # "new"
      BY DEF EndInv, PlaceOK
    <3>2. \A a \in Attempt : attempt[a].pc \in {"new", "done"}
      BY DEF Quiescent
    <3>3. LateOpen = {}
      BY <3>1, <3>2 DEF LateOpen
    <3>4. Timely = {} /\ Finishing = {}
      BY <3>2 DEF Timely, Finishing
    <3> QED
      BY <3>3, <3>4 DEF AdmittedOpen
  <2>2. Cardinality({}) = 0
    BY FS_EmptySet
  <2>3. releases = 0 /\ usage.late \in Nat
    BY DEF Quiescent, EndInv, TypeOK, Usage
  <2> QED
    BY <2>1, <2>2, <2>3 DEF EndInv, Counts, Exclusive
<1> QED
  BY <1>1, EndInvariant, PTL
=============================================================================
