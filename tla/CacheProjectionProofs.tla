----------------------- MODULE CacheProjectionProofs ------------------------
(***************************************************************************)
(* Proofs about CacheProjection, for any number of deliveries and          *)
(* retention jobs and for every value of its bounds.                       *)
(***************************************************************************)
EXTENDS CacheProjection, TLAPS

\* The version the database holds of the record an event is about.
Stored(e) == IF e.agg = "session" THEN row.ver ELSE row.child

\* An event is of an incarnation that was, and no later than what the database holds.
Known(e) ==
    /\ e.inc <= lastInc
    /\ e.inc = row.inc => e.ver <= Stored(e)

\* Incarnations: the id is used by the last one or by none; every one that is gone is
\* behind a tombstone, or behind a later one; the cache is not ahead of the database.
Incarnations ==
    /\ row.inc \in {0, lastInc}
    /\ meta.inc <= lastInc
    /\ \A i \in 1..lastInc : i # row.inc => meta.inc > i \/ (meta.inc = i /\ meta.retired)

Behind ==
    /\ child # NoChild => child.inc = row.inc /\ child.ver <= row.child
    /\ row # NoRow /\ meta.inc = row.inc =>
          /\ meta.ver <= row.ver
          /\ meta.retired => row.status = "terminal" /\ meta.ver = row.ver

\* An event that may still be applied: it is queued, or a delivery has it.
InFlight(e) == outbox[e].state = "queued" \/ \E a \in Actor : act[a].ev = e

EventsKnown == \A e \in Event : InFlight(e) => Known(e)

\* A purge that has not begun carries a token nobody has seen.
Tokens ==
    /\ meta.token <= lastToken
    /\ \A a \in Actor : act[a].token <= lastToken
    /\ \A a \in Actor : act[a].pc = "begin" =>
          /\ act[a].token >= 1 /\ act[a].token # meta.token
          /\ \A b \in Actor \ {a} : act[b].token # act[a].token

\* What the position of an actor says about it.
Place(a) ==
    LET t == act[a] IN
    /\ t.inc <= lastInc
    /\ t.conn => lock = a /\ t.inc = row.inc /\ t.inc >= 1
    /\ t.pc \in {"begin", "delete"} => t.retire
    /\ t.retire => a \in Job /\ t.pc \in {"begin", "purge", "complete", "delete"}
    /\ t.retire \/ t.pc \in {"begin", "purge", "complete", "delete", "resume", "snapshot"} =>
          t.inc >= 1
    /\ a \in Job /\ t.pc # "idle" => t.inc >= 1
    /\ t.pc \in {"apply", "mark", "unclaim", "token"} => a \in Worker
    /\ a \in Worker /\ t.pc # "idle" => t.ev \in Event
    /\ t.pc \in {"child", "session"} =>
          /\ t.inc >= 1 /\ t.snap.ver >= 1
          /\ Owns(a) => /\ row.inc = t.inc
                        /\ t.snap.ver = row.ver /\ t.snap.child = row.child

\* A purge about to begin knows the last version of the incarnation it is about.
Beginning(a) ==
    act[a].pc = "begin" =>
        /\ act[a].snap.ver >= 1
        /\ row.inc = act[a].inc => row.status = "terminal" /\ row.ver = act[a].snap.ver
        /\ meta.inc = act[a].inc => meta.ver <= act[a].snap.ver
        /\ \A e \in Event : InFlight(e) /\ e.agg = "session" /\ e.inc = act[a].inc =>
              e.ver <= act[a].snap.ver
        /\ \A b \in Actor : act[b].pc = "begin" /\ act[b].inc = act[a].inc =>
              act[b].snap.ver = act[a].snap.ver

\* While a job retires the session under the lock, its tombstone stands, nobody is about
\* to restore, and the children stay away once they are purged.
Retiring(a) ==
    act[a].retire /\ act[a].conn /\ act[a].pc # "begin" =>
        /\ meta.retired /\ meta.inc = act[a].inc
        /\ act[a].pc \in {"complete", "delete"} => child = NoChild
        /\ \A b \in Actor : act[b].pc \in {"child", "session"} => ~Owns(b)

ProjInv ==
    /\ ProjectionTypeOK /\ Incarnations /\ Behind /\ EventsKnown /\ Tokens
    /\ \A a \in Actor : Place(a) /\ Beginning(a) /\ Retiring(a)

-----------------------------------------------------------------------------

\* The positions of an actor that works under the lock.
AtWork ==
    {"begin", "token", "resume", "purge", "complete", "delete", "snapshot", "child", "session"}

\* As long as no connection was lost, whoever works under the lock has it, and the
\* tombstone it works under.
Undisturbed(a) ==
    LET t == act[a] IN
    /\ t.pc \in AtWork => t.conn
    /\ t.pc \in {"purge", "complete", "snapshot", "child", "session"} => Owns(a)
    /\ t.pc \in {"snapshot", "child", "session"} => meta.complete
    /\ t.pc = "session" /\ row.child > 0 => child.inc = row.inc /\ child.ver = row.child

\* The cache has what the event says.
InCache(e) ==
    \/ e.agg = "session" /\ meta.inc = e.inc /\ meta.ver >= e.ver
    \/ e.agg = "child" /\ child.inc = e.inc /\ child.ver >= e.ver
    \/ e.agg = "child" /\ meta.inc = e.inc /\ meta.retired

\* An event of the present incarnation that is settled, or about to be, is in the cache.
Settled ==
    /\ \A e \in Event : /\ row # NoRow /\ e.inc = row.inc /\ e.ver = Stored(e)
                        /\ outbox[e].state # "queued"
                        => InCache(e)
    /\ \A w \in Worker : act[w].pc = "mark" /\ act[w].ev.inc = row.inc => InCache(act[w].ev)

Full == (\A a \in Actor : Undisturbed(a)) /\ Settled

FullInv == drops = 0 => Full

-----------------------------------------------------------------------------
(***************************************************************************)
(* Shapes of the records.                                                  *)
(***************************************************************************)

LEMMA BoundsNat ==
    /\ MaxInc \in Nat /\ MaxVer \in Nat /\ MaxVer >= 1 /\ MaxChild \in Nat /\ MaxPurge \in Nat
    /\ MaxDrops \in Nat
BY ProjectionBounds

LEMMA RowShape ==
    ASSUME NEW r \in Row \cup {NoRow}
    PROVE  /\ r.inc \in 0..MaxInc /\ r.ver \in 0..MaxVer /\ r.child \in 0..MaxChild
           /\ r = NoRow <=> r.inc = 0
           /\ r.inc # 0 => r \in Row /\ r.status \in {"active", "terminal"} /\ r.ver >= 1
           /\ r.status \in {"active", "terminal"} => r.inc # 0
<1>1. CASE r \in Row
  BY <1>1, BoundsNat DEF Row, NoRow
<1>2. CASE r = NoRow
  BY <1>2, BoundsNat DEF NoRow
<1> QED
  BY <1>1, <1>2

LEMMA MetaShape ==
    ASSUME NEW m \in OpenMeta \cup Tombstone \cup {NoMeta}
    PROVE  /\ m.inc \in 0..MaxInc /\ m.ver \in 0..MaxVer /\ m.token \in 0..MaxPurge
           /\ m.retired \in BOOLEAN /\ m.complete \in BOOLEAN
           /\ m = NoMeta <=> m.inc = 0
           /\ m.retired => m \in Tombstone /\ m.inc >= 1 /\ m.ver >= 1 /\ m.token >= 1
<1>1. CASE m \in OpenMeta
  <2>1. /\ m.inc \in 1..MaxInc /\ m.ver \in 1..MaxVer /\ m.token = 0
        /\ ~m.retired /\ m.retired \in BOOLEAN /\ m.complete \in BOOLEAN
    BY <1>1 DEF OpenMeta
  <2>2. m # NoMeta /\ 0 \in 0..MaxPurge
    BY <2>1, BoundsNat DEF NoMeta
  <2> QED
    BY <2>1, <2>2, BoundsNat
<1>2. CASE m \in Tombstone
  <2>1. /\ m.inc \in 1..MaxInc /\ m.ver \in 1..MaxVer /\ m.token \in 1..MaxPurge
        /\ m.retired /\ m.retired \in BOOLEAN /\ m.complete \in BOOLEAN
    BY <1>2 DEF Tombstone
  <2>2. m # NoMeta
    BY <2>1 DEF NoMeta
  <2> QED
    BY <1>2, <2>1, <2>2, BoundsNat
<1>3. CASE m = NoMeta
  BY <1>3, BoundsNat DEF NoMeta
<1> QED
  BY <1>1, <1>2, <1>3

LEMMA ChildShape ==
    ASSUME NEW c \in [inc : 1..MaxInc, ver : 1..MaxChild] \cup {NoChild}
    PROVE  /\ c.inc \in 0..MaxInc /\ c.ver \in 0..MaxChild
           /\ c = NoChild <=> c.inc = 0
<1>1. CASE c \in [inc : 1..MaxInc, ver : 1..MaxChild]
  BY <1>1, BoundsNat DEF NoChild
<1>2. CASE c = NoChild
  BY <1>2, BoundsNat DEF NoChild
<1> QED
  BY <1>1, <1>2

LEMMA EventShape ==
    ASSUME NEW e \in Event
    PROVE  /\ e.agg \in {"session", "child"} /\ e.inc \in 1..MaxInc /\ e.ver \in Nat
           /\ e.ver >= 1 /\ (e.agg = "session" => e.ver \in 1..MaxVer)
           /\ (e.agg = "child" => e.ver \in 1..MaxChild)
<1>1. CASE e \in [agg : {"session"}, inc : 1..MaxInc, ver : 1..MaxVer]
  BY <1>1, BoundsNat
<1>2. CASE e \in [agg : {"child"}, inc : 1..MaxInc, ver : 1..MaxChild]
  BY <1>2, BoundsNat
<1> QED
  BY <1>1, <1>2 DEF Event

LEMMA NoEventIsNone == NoEvent \notin Event
<1>1. NoEvent.agg \notin {"session", "child"}
  BY DEF NoEvent, None
<1> QED
  BY <1>1, EventShape

LEMMA ActivityShape ==
    ASSUME NEW t \in Activity
    PROVE  /\ t.inc \in 0..MaxInc /\ t.token \in 0..MaxPurge
           /\ t.retire \in BOOLEAN /\ t.conn \in BOOLEAN /\ t.again \in BOOLEAN
           /\ t.ev \in Event \cup {NoEvent}
           /\ t.snap.ver \in 0..MaxVer /\ t.snap.child \in 0..MaxChild
BY DEF Activity, Snapshot

LEMMA IdleShape ==
    /\ Idle \in Activity
    /\ Idle.pc = "idle" /\ Idle.ev = NoEvent /\ Idle.inc = 0 /\ Idle.token = 0
    /\ ~Idle.retire /\ ~Idle.conn
BY BoundsNat DEF Idle, Activity, Snapshot

\* The shapes of everything there is.
LEMMA Shapes ==
    ASSUME ProjInv
    PROVE  /\ row \in Row \cup {NoRow} /\ meta \in OpenMeta \cup Tombstone \cup {NoMeta}
           /\ child \in [inc : 1..MaxInc, ver : 1..MaxChild] \cup {NoChild}
           /\ act \in [Actor -> Activity] /\ outbox \in [Event -> OutboxRow]
           /\ lastInc \in 0..MaxInc /\ lastToken \in 0..MaxPurge /\ drops \in 0..MaxDrops
           /\ lock \in Actor \cup {None} /\ None \notin Actor
BY ProjectionBounds DEF ProjInv, ProjectionTypeOK, Actor

-----------------------------------------------------------------------------
(***************************************************************************)
(* Steps that concern one actor only.                                      *)
(***************************************************************************)

\* An actor goes on, or stops, and neither the session nor Redis changes (a tombstone may
\* be completed).
LEMMA DeliveryStep ==
    ASSUME ProjInv, NEW a \in Actor, NEW r \in Activity,
           act' = [act EXCEPT ![a] = r],
           UNCHANGED <<row, lastInc, child, lastToken>>, drops' \in 0..MaxDrops,
           meta' \in OpenMeta \cup Tombstone \cup {NoMeta}, meta'.inc = meta.inc,
           meta'.ver = meta.ver, meta'.retired = meta.retired, meta'.token = meta.token,
           outbox' \in [Event -> OutboxRow], \A e \in Event : InFlight(e)' => InFlight(e),
           lock' = lock \/ (lock = a /\ lock' = None) \/ (lock = None /\ lock' = a),
           r.pc = "begin" => /\ act[a].pc = "begin" /\ r.token = act[a].token
                             /\ r.inc = act[a].inc /\ r.snap = act[a].snap,
           r.token = 0 \/ r.token = act[a].token \/ r.token = meta.token,
           Place(a)', Retiring(a)',
           r.pc \in {"child", "session"} =>
               \/ act[a].conn
               \/ /\ act[a].pc \in {"child", "session"}
                  /\ r.inc = act[a].inc /\ r.token = act[a].token
    PROVE  ProjInv'
<1>1. act'[a] = r /\ \A b \in Actor \ {a} : act'[b] = act[b]
  BY Shapes
<1>2. ProjectionTypeOK'
  <2>1. act' \in [Actor -> Activity]
    BY Shapes
  <2>2. lock' \in Actor \cup {None}
    BY Shapes
  <2> QED
    BY <2>1, <2>2 DEF ProjInv, ProjectionTypeOK
<1>3. Incarnations' /\ Behind'
  BY DEF ProjInv, Incarnations, Behind
<1>4. EventsKnown'
  <2>1. \A e \in Event : Known(e)' <=> Known(e)
    BY DEF Known, Stored
  <2> QED
    BY <2>1 DEF ProjInv, EventsKnown
<1>5. Tokens'
  <2>1. meta'.token <= lastToken' /\ \A b \in Actor : act'[b].token <= lastToken'
    BY <1>1, Shapes DEF ProjInv, Tokens
  <2>2. ASSUME NEW b \in Actor, act'[b].pc = "begin"
        PROVE  /\ act'[b].token >= 1 /\ act'[b].token # meta'.token
               /\ \A c \in Actor \ {b} : act'[c].token # act'[b].token
    BY <1>1, <2>2 DEF ProjInv, Tokens
  <2> QED
    BY <2>1, <2>2 DEF Tokens
<1>6. ASSUME NEW b \in Actor PROVE Place(b)'
  <2>1. CASE b = a
    BY <2>1
  <2>2. CASE b # a
    <3>1. Place(b) /\ act'[b] = act[b]
      BY <1>1, <2>2 DEF ProjInv
    <3>2. Owns(b)' <=> Owns(b)
      BY <3>1 DEF Owns
    <3>3. act[b].conn => lock' = b
      BY <2>2, <3>1, Shapes DEF Place
    <3> QED
      BY <3>1, <3>2, <3>3 DEF Place
  <2> QED
    BY <2>1, <2>2
<1>7. ASSUME NEW b \in Actor PROVE Beginning(b)'
  <2>1. SUFFICES ASSUME act'[b].pc = "begin" PROVE Beginning(b)'
    BY DEF Beginning
  <2>2. /\ act'[b].inc = act[b].inc /\ act'[b].snap = act[b].snap /\ act[b].pc = "begin"
        /\ Beginning(b)
    BY <1>1, <2>1 DEF ProjInv
  <2>4. \A c \in Actor : act'[c].pc = "begin" =>
           act[c].pc = "begin" /\ act'[c].inc = act[c].inc /\ act'[c].snap = act[c].snap
    BY <1>1
  <2> QED
    BY <2>1, <2>2, <2>4 DEF Beginning
<1>8. ASSUME NEW b \in Actor PROVE Retiring(b)'
  <2>1. CASE b = a
    BY <2>1
  <2>2. CASE b # a
    <3>1. SUFFICES ASSUME act[b].retire, act[b].conn, act[b].pc # "begin" PROVE Retiring(b)'
      BY <1>1, <2>2 DEF Retiring
    <3>2. /\ meta.retired /\ meta.inc = act[b].inc
          /\ act[b].pc \in {"complete", "delete"} => child = NoChild
          /\ \A c \in Actor : act[c].pc \in {"child", "session"} => ~Owns(c)
      BY <3>1 DEF ProjInv, Retiring
    <3>3. ~act[a].conn
      BY <2>2, <3>1 DEF ProjInv, Place
    <3>4. ASSUME NEW c \in Actor, act'[c].pc \in {"child", "session"} PROVE ~Owns(c)'
      <4>1. CASE c = a
        BY <1>1, <3>2, <3>3, <3>4, <4>1 DEF Owns
      <4>2. CASE c # a
        BY <1>1, <3>2, <3>4, <4>2 DEF Owns
      <4> QED
        BY <4>1, <4>2
    <3> QED
      BY <1>1, <2>2, <3>2, <3>4 DEF Retiring
  <2> QED
    BY <2>1, <2>2
<1> QED
  BY <1>2, <1>3, <1>4, <1>5, <1>6, <1>7, <1>8 DEF ProjInv

\* The same, when the outbox does not change either.
LEMMA ActorStep ==
    ASSUME ProjInv, NEW a \in Actor, NEW r \in Activity,
           act' = [act EXCEPT ![a] = r],
           UNCHANGED <<row, lastInc, outbox, meta, child, lastToken>>, drops' \in 0..MaxDrops,
           lock' = lock \/ (lock = a /\ lock' = None) \/ (lock = None /\ lock' = a),
           r.pc = "begin" => /\ act[a].pc = "begin" /\ r.token = act[a].token
                             /\ r.inc = act[a].inc /\ r.snap = act[a].snap,
           r.ev = act[a].ev \/ r.ev = NoEvent,
           r.token = 0 \/ r.token = act[a].token \/ r.token = meta.token,
           Place(a)', Retiring(a)',
           r.pc \in {"child", "session"} =>
               \/ act[a].conn
               \/ /\ act[a].pc \in {"child", "session"}
                  /\ r.inc = act[a].inc /\ r.token = act[a].token
    PROVE  ProjInv'
<1>1. act'[a] = r /\ \A b \in Actor \ {a} : act'[b] = act[b]
  BY Shapes
<1>2. \A e \in Event : InFlight(e)' => InFlight(e)
  BY <1>1, NoEventIsNone DEF InFlight
<1>3. outbox' \in [Event -> OutboxRow]
  BY Shapes
<1>4. /\ meta' \in OpenMeta \cup Tombstone \cup {NoMeta} /\ meta'.inc = meta.inc /\ meta'.ver = meta.ver
      /\ meta'.retired = meta.retired /\ meta'.token = meta.token
  BY Shapes
<1> QED
  BY <1>2, <1>3, <1>4, DeliveryStep

\* An actor is done, or only its event is left to be applied or settled.
Leaves(a, r) ==
    /\ r \in Activity /\ r.pc \in {"idle", "apply", "mark", "unclaim"}
    /\ ~r.retire /\ ~r.conn /\ r.inc = 0 /\ r.token = 0
    /\ r.ev = act[a].ev \/ r.ev = NoEvent
    /\ r.pc # "idle" => a \in Worker /\ act[a].pc # "idle" /\ r.ev = act[a].ev
    /\ a \in Worker /\ r.pc # "idle" => r.ev \in Event

LEMMA LeavesKeeps ==
    ASSUME ProjInv, NEW a \in Actor, NEW r, Leaves(a, r), act' = [act EXCEPT ![a] = r],
           UNCHANGED <<row, lastInc, outbox, meta, child, lastToken>>, drops' \in 0..MaxDrops,
           lock' = lock \/ (lock = a /\ lock' = None)
    PROVE  ProjInv'
<1>1. /\ r \in Activity /\ r.pc \in {"idle", "apply", "mark", "unclaim"} /\ r.token = 0
      /\ r.inc = 0 /\ ~r.retire /\ ~r.conn /\ (r.ev = act[a].ev \/ r.ev = NoEvent)
      /\ (r.pc # "idle" => a \in Worker /\ r.ev \in Event)
  BY DEF Leaves
<1>2. act'[a] = r
  BY Shapes
<1>3. Place(a)'
  <2>1. a \in Worker => a \notin Job
    BY ProjectionBounds
  <2> QED
    BY <1>1, <1>2, <2>1, Shapes DEF Place
<1>4. Retiring(a)'
  BY <1>1, <1>2 DEF Retiring
<1> QED
  BY <1>1, <1>3, <1>4, ActorStep

LEMMA RestoredLeaves ==
    ASSUME ProjInv, NEW a \in Actor, NEW stale \in BOOLEAN, act[a].pc # "idle"
    PROVE  Leaves(a, Restored(a, stale)) /\ Leaves(a, RestoreFailed(a))
<1>1. CASE a \in Job
  BY <1>1, IdleShape DEF Restored, RestoreFailed, Leaves
<1>2. CASE a \notin Job
  <2>1. a \in Worker /\ act[a].ev \in Event
    BY <1>2 DEF Actor, ProjInv, Place
  <2>2. Restored(a, stale) =
           [Idle EXCEPT !.ev = act[a].ev, !.again = TRUE, !.pc = IF stale THEN "mark" ELSE "apply"]
    BY <1>2 DEF Restored
  <2>3. RestoreFailed(a) = [Idle EXCEPT !.ev = act[a].ev, !.pc = "unclaim"]
    BY <1>2 DEF RestoreFailed
  <2>4. Leaves(a, RestoreFailed(a))
    <3>1. RestoreFailed(a) \in Activity
      <4>1. RestoreFailed(a) =
               [pc |-> "unclaim", ev |-> act[a].ev, inc |-> 0, token |-> 0, retire |-> FALSE,
                again |-> FALSE, conn |-> FALSE, snap |-> [ver |-> 0, child |-> 0]]
        BY <2>3 DEF Idle
      <4> QED
        BY <2>1, <4>1, BoundsNat DEF Activity, Snapshot
    <3>2. /\ RestoreFailed(a).pc = "unclaim" /\ RestoreFailed(a).ev = act[a].ev
          /\ ~RestoreFailed(a).retire /\ ~RestoreFailed(a).conn
          /\ RestoreFailed(a).inc = 0 /\ RestoreFailed(a).token = 0
      BY <2>3 DEF Idle
    <3> QED
      BY <2>1, <3>1, <3>2 DEF Leaves
  <2>5. Leaves(a, Restored(a, stale))
    <3>1. Restored(a, stale) \in Activity
      <4>1. Restored(a, stale) =
               [pc |-> IF stale THEN "mark" ELSE "apply", ev |-> act[a].ev, inc |-> 0,
                token |-> 0, retire |-> FALSE, again |-> TRUE, conn |-> FALSE,
                snap |-> [ver |-> 0, child |-> 0]]
        BY <2>2 DEF Idle
      <4> QED
        BY <2>1, <4>1, BoundsNat DEF Activity, Snapshot
    <3>2. /\ Restored(a, stale).pc \in {"mark", "apply"} /\ Restored(a, stale).ev = act[a].ev
          /\ ~Restored(a, stale).retire /\ ~Restored(a, stale).conn
          /\ Restored(a, stale).inc = 0 /\ Restored(a, stale).token = 0
      BY <2>2 DEF Idle
    <3> QED
      BY <2>1, <3>1, <3>2 DEF Leaves
  <2> QED
    BY <2>4, <2>5
<1> QED
  BY <1>1, <1>2

\* Redis or PostgreSQL fails during a restore.
LEMMA RestoreFailsKeeps ==
    ASSUME ProjInv, NEW a \in Actor, RestoreFails(a)
    PROVE  ProjInv'
<1>1. /\ act[a].pc # "idle" /\ act' = [act EXCEPT ![a] = RestoreFailed(a)]
      /\ UNCHANGED <<row, lastInc, outbox, meta, child, lastToken, drops>>
      /\ lock' = lock \/ (lock = a /\ lock' = None)
  BY DEF RestoreFails, Become, StoreUnchanged, RedisUnchanged
<1>2. drops' \in 0..MaxDrops
  BY <1>1, Shapes
<1> QED
  BY <1>1, <1>2, RestoredLeaves, LeavesKeeps

\* The restore is committed, or turns out to have lost its connection.
LEMMA CommitRestoreKeeps ==
    ASSUME ProjInv, NEW a \in Actor, CommitRestore(a)
    PROVE  ProjInv'
<1>1. /\ act[a].pc # "idle"
      /\ \/ act' = [act EXCEPT ![a] = RestoreFailed(a)]
         \/ act' = [act EXCEPT ![a] = Restored(a, FALSE)]
      /\ UNCHANGED <<row, lastInc, outbox, meta, child, lastToken, drops>>
      /\ lock' = lock \/ (lock = a /\ lock' = None)
  BY DEF CommitRestore, Become, StoreUnchanged, RedisUnchanged
<1>2. drops' \in 0..MaxDrops
  BY <1>1, Shapes
<1> QED
  BY <1>1, <1>2, RestoredLeaves, LeavesKeeps

\* A process dies.
LEMMA CrashKeeps ==
    ASSUME ProjInv, NEW a \in Actor, Crash(a)
    PROVE  ProjInv'
<1>1. /\ act' = [act EXCEPT ![a] = Idle]
      /\ UNCHANGED <<row, lastInc, outbox, meta, child, lastToken, drops>>
      /\ lock' = lock \/ (lock = a /\ lock' = None)
  BY DEF Crash, Become, StoreUnchanged, RedisUnchanged
<1>2. drops' \in 0..MaxDrops /\ Leaves(a, Idle)
  BY <1>1, Shapes, IdleShape DEF Leaves
<1> QED
  BY <1>1, <1>2, LeavesKeeps

\* Redis fails before the script of apply ran.
LEMMA ApplyFailsKeeps ==
    ASSUME ProjInv, NEW a \in Actor, ApplyFails(a)
    PROVE  ProjInv'
<1> DEFINE r == [act[a] EXCEPT !.pc = "unclaim"]
<1>1. /\ act[a].pc = "apply"
      /\ act[a] \in Activity /\ Place(a) /\ act' = [act EXCEPT ![a] = r]
      /\ UNCHANGED <<row, lastInc, outbox, meta, child, lastToken>> /\ drops' \in 0..MaxDrops
      /\ lock' = lock
  BY Shapes DEF ApplyFails, Become, GoTo, StoreUnchanged, RedisUnchanged, ProjInv
<1>2. act'[a] = r /\ r \in Activity
  BY <1>1, Shapes, BoundsNat DEF Activity
<1> HIDE DEF r
<1>3. /\ r.pc = "unclaim" /\ r.ev = act[a].ev /\ r.inc = act[a].inc
      /\ r.token = act[a].token /\ r.retire = act[a].retire
      /\ r.again = act[a].again /\ r.conn = act[a].conn
      /\ r.snap = act[a].snap
  BY <1>1 DEF r, Activity
<1>4. Place(a)'
  <2>1. Owns(a)' <=> meta.inc = r.inc /\ meta.retired /\ meta.token = r.token
    BY <1>1, <1>2 DEF Owns
  <2> QED
    BY <1>1, <1>2, <1>3, <2>1, Shapes DEF Place, Owns
<1>5. Retiring(a)'
  BY <1>1, <1>2, <1>3 DEF Retiring, Place
<1> QED
  BY <1>1, <1>2, <1>3, <1>4, <1>5, ActorStep

\* An event of a lifetime that is being retired: it is recovered, or given up.
LEMMA ApplyPendingKeeps ==
    ASSUME ProjInv, NEW a \in Actor, Apply(a), Pending(act[a].ev)
    PROVE  ProjInv'
<1> DEFINE r == [act[a] EXCEPT !.pc = IF act[a].again THEN "unclaim" ELSE "restore"]
<1>1. /\ act[a].pc = "apply"
      /\ act[a] \in Activity /\ Place(a) /\ act' = [act EXCEPT ![a] = r]
      /\ UNCHANGED <<row, lastInc, outbox, meta, child, lastToken>> /\ drops' \in 0..MaxDrops
      /\ lock' = lock
  BY Shapes DEF Apply, Become, GoTo, StoreUnchanged, RedisUnchanged, ProjInv
<1>2. act'[a] = r /\ r \in Activity
  BY <1>1, Shapes, BoundsNat DEF Activity
<1> HIDE DEF r
<1>3. /\ r.pc = (IF act[a].again THEN "unclaim" ELSE "restore")
      /\ r.ev = act[a].ev /\ r.inc = act[a].inc
      /\ r.token = act[a].token /\ r.retire = act[a].retire
      /\ r.again = act[a].again /\ r.conn = act[a].conn
      /\ r.snap = act[a].snap
  BY <1>1 DEF r, Activity
<1>4. Place(a)'
  <2>1. Owns(a)' <=> meta.inc = r.inc /\ meta.retired /\ meta.token = r.token
    BY <1>1, <1>2 DEF Owns
  <2> QED
    BY <1>1, <1>2, <1>3, <2>1, Shapes DEF Place, Owns
<1>5. Retiring(a)'
  BY <1>1, <1>2, <1>3 DEF Retiring, Place
<1> QED
  BY <1>1, <1>2, <1>3, <1>4, <1>5, ActorStep

\* The purge failed: the job goes to restore.
LEMMA RetentionFailsKeeps ==
    ASSUME ProjInv, NEW a \in Actor, RetentionFails(a)
    PROVE  ProjInv'
<1> DEFINE r == [act[a] EXCEPT !.pc = "restore", !.retire = FALSE, !.conn = FALSE]
<1>1. /\ act[a].pc \in {"begin", "purge", "complete", "delete"} /\ act[a].retire
      /\ act[a] \in Activity /\ Place(a) /\ act' = [act EXCEPT ![a] = r]
      /\ UNCHANGED <<row, lastInc, outbox, meta, child, lastToken>> /\ drops' \in 0..MaxDrops
      /\ lock' = lock \/ (lock = a /\ lock' = None)
  BY Shapes DEF RetentionFails, Become, GoTo, StoreUnchanged, RedisUnchanged, ProjInv
<1>2. act'[a] = r /\ r \in Activity
  BY <1>1, Shapes, BoundsNat DEF Activity
<1> HIDE DEF r
<1>3. /\ r.pc = "restore" /\ r.ev = act[a].ev /\ r.inc = act[a].inc
      /\ r.token = act[a].token /\ r.retire = FALSE
      /\ r.again = act[a].again /\ r.conn = FALSE
      /\ r.snap = act[a].snap
  BY <1>1 DEF r, Activity
<1>4. Place(a)'
  <2>1. Owns(a)' <=> meta.inc = r.inc /\ meta.retired /\ meta.token = r.token
    BY <1>1, <1>2 DEF Owns
  <2> QED
    BY <1>1, <1>2, <1>3, <2>1, Shapes DEF Place, Owns
<1>5. Retiring(a)'
  BY <1>1, <1>2, <1>3 DEF Retiring, Place
<1> QED
  BY <1>1, <1>2, <1>3, <1>4, <1>5, ActorStep

\* A connection is lost.
LEMMA ConnectionLostKeeps ==
    ASSUME ProjInv, NEW a \in Actor, ConnectionLost(a)
    PROVE  ProjInv'
<1> DEFINE r == [act[a] EXCEPT !.conn = FALSE]
<1>1. /\ lock = a
      /\ act[a] \in Activity /\ Place(a) /\ act' = [act EXCEPT ![a] = r]
      /\ UNCHANGED <<row, lastInc, outbox, meta, child, lastToken>> /\ drops' \in 0..MaxDrops
      /\ lock = a /\ lock' = None
  <2>1. drops < MaxDrops /\ drops' = drops + 1
    BY DEF ConnectionLost
  <2>2. drops' \in 0..MaxDrops
    BY <2>1, Shapes, BoundsNat
  <2> QED
    BY <2>2, Shapes DEF ConnectionLost, Become, GoTo, StoreUnchanged, RedisUnchanged, ProjInv
<1>2. act'[a] = r /\ r \in Activity
  BY <1>1, Shapes, BoundsNat DEF Activity
<1> HIDE DEF r
<1>3. /\ r.pc = act[a].pc /\ r.ev = act[a].ev /\ r.inc = act[a].inc
      /\ r.token = act[a].token /\ r.retire = act[a].retire
      /\ r.again = act[a].again /\ r.conn = FALSE
      /\ r.snap = act[a].snap
  BY <1>1 DEF r, Activity
<1>4. Place(a)'
  <2>1. Owns(a)' <=> meta.inc = r.inc /\ meta.retired /\ meta.token = r.token
    BY <1>1, <1>2 DEF Owns
  <2> QED
    BY <1>1, <1>2, <1>3, <2>1, Shapes DEF Place, Owns
<1>5. Retiring(a)'
  BY <1>1, <1>2, <1>3 DEF Retiring, Place
<1> QED
  BY <1>1, <1>2, <1>3, <1>4, <1>5, ActorStep

\* The tombstone is found to be one's own, or not.
LEMMA ResumePurgeKeeps ==
    ASSUME ProjInv, NEW a \in Actor, ResumePurge(a)
    PROVE  ProjInv'
<1> DEFINE r == [act[a] EXCEPT !.pc = IF Owns(a) THEN "purge" ELSE "commit"]
<1>1. /\ act[a].pc = "resume"
      /\ act[a] \in Activity /\ Place(a) /\ act' = [act EXCEPT ![a] = r]
      /\ UNCHANGED <<row, lastInc, outbox, meta, child, lastToken>> /\ drops' \in 0..MaxDrops
      /\ lock' = lock
  BY Shapes DEF ResumePurge, Become, GoTo, StoreUnchanged, RedisUnchanged, ProjInv
<1>2. act'[a] = r /\ r \in Activity
  BY <1>1, Shapes, BoundsNat DEF Activity
<1> HIDE DEF r
<1>3. /\ r.pc = (IF Owns(a) THEN "purge" ELSE "commit") /\ r.ev = act[a].ev
      /\ r.inc = act[a].inc /\ r.token = act[a].token
      /\ r.retire = act[a].retire /\ r.again = act[a].again
      /\ r.conn = act[a].conn /\ r.snap = act[a].snap
  BY <1>1 DEF r, Activity
<1>4. Place(a)'
  <2>1. Owns(a)' <=> meta.inc = r.inc /\ meta.retired /\ meta.token = r.token
    BY <1>1, <1>2 DEF Owns
  <2> QED
    BY <1>1, <1>2, <1>3, <2>1, Shapes DEF Place, Owns
<1>5. Retiring(a)'
  BY <1>1, <1>2, <1>3 DEF Retiring, Place
<1> QED
  BY <1>1, <1>2, <1>3, <1>4, <1>5, ActorStep

\* The records are read over the connection that holds the lock.
LEMMA ReadSnapshotKeeps ==
    ASSUME ProjInv, NEW a \in Actor, ReadSnapshot(a)
    PROVE  ProjInv'
<1> DEFINE r == [act[a] EXCEPT !.pc = "child", !.snap = [ver |-> row.ver, child |-> row.child]]
<1>1. /\ act[a].pc = "snapshot" /\ act[a].conn
      /\ act[a] \in Activity /\ Place(a) /\ act' = [act EXCEPT ![a] = r]
      /\ UNCHANGED <<row, lastInc, outbox, meta, child, lastToken>> /\ drops' \in 0..MaxDrops
      /\ lock' = lock
  BY Shapes DEF ReadSnapshot, Become, GoTo, StoreUnchanged, RedisUnchanged, ProjInv
<1>2. act'[a] = r /\ r \in Activity
  <2>1. [ver |-> row.ver, child |-> row.child] \in Snapshot
    BY Shapes, RowShape DEF Snapshot
  <2> QED
    BY <1>1, <2>1, Shapes DEF Activity
<1> HIDE DEF r
<1>3. /\ r.pc = "child" /\ r.ev = act[a].ev /\ r.inc = act[a].inc
      /\ r.token = act[a].token /\ r.retire = act[a].retire
      /\ r.again = act[a].again /\ r.conn = act[a].conn
      /\ r.snap = [ver |-> row.ver, child |-> row.child]
  BY <1>1 DEF r, Activity
<1>4. Place(a)'
  <2>1. Owns(a)' <=> meta.inc = r.inc /\ meta.retired /\ meta.token = r.token
    BY <1>1, <1>2 DEF Owns
  <2>2. r.snap.ver = row.ver /\ r.snap.child = row.child /\ row.ver >= 1
    BY <1>1, <1>3, Shapes, RowShape DEF Place
  <2> QED
    BY <1>1, <1>2, <1>3, <2>1, <2>2, Shapes DEF Place, Owns
<1>5. Retiring(a)'
  BY <1>1, <1>2, <1>3 DEF Retiring, Place
<1> QED
  BY <1>1, <1>2, <1>3, <1>4, <1>5, ActorStep

\* The row is locked for a restore, or is not the incarnation expected.
LEMMA LockForRestoreKeeps ==
    ASSUME ProjInv, NEW a \in Actor, LockForRestore(a)
    PROVE  ProjInv'
<1> DEFINE expected == IF a \in Job THEN act[a].inc ELSE act[a].ev.inc
           r == [act[a] EXCEPT !.pc = IF a \in Job THEN "resume" ELSE "token",
                               !.inc = expected, !.conn = TRUE]
<1>1. /\ act[a].pc = "restore" /\ lock = None /\ act[a] \in Activity /\ Place(a)
      /\ UNCHANGED <<row, lastInc, outbox, meta, child, lastToken, drops>>
  BY Shapes DEF LockForRestore, StoreUnchanged, RedisUnchanged, ProjInv
<1>2. drops' \in 0..MaxDrops
  BY <1>1, Shapes
<1>3. CASE row.inc # expected
  <2>1. act' = [act EXCEPT ![a] = Restored(a, TRUE)] /\ lock' = lock
    BY <1>3 DEF LockForRestore, Become
  <2> QED
    BY <1>1, <1>2, <2>1, RestoredLeaves, LeavesKeeps
<1>4. CASE row.inc = expected
  <2>1. act' = [act EXCEPT ![a] = r] /\ lock' = a
    BY <1>4 DEF LockForRestore, Become
  <2>2. expected >= 1 /\ expected \in 0..MaxInc
    <3>1. CASE a \in Job
      BY <1>1, <3>1, ActivityShape DEF Place
    <3>2. CASE a \notin Job
      <4>1. act[a].ev \in Event
        BY <1>1, <3>2 DEF Place, Actor
      <4> QED
        BY <3>2, <4>1, EventShape, BoundsNat
    <3> QED
      BY <3>1, <3>2
  <2> HIDE DEF expected
  <2>3. /\ r.pc = (IF a \in Job THEN "resume" ELSE "token") /\ r.ev = act[a].ev
        /\ r.inc = expected /\ r.token = act[a].token /\ r.retire = act[a].retire
        /\ r.conn = TRUE /\ r.snap = act[a].snap
    BY <1>1 DEF Activity
  <2>4. r \in Activity /\ act'[a] = r
    BY <1>1, <2>1, <2>2, Shapes DEF Activity
  <2> HIDE DEF r
  <2>5. Place(a)'
    BY <1>1, <1>4, <2>1, <2>2, <2>3, <2>4, Shapes DEF Place, Actor, ProjInv, Incarnations
  <2>6. Retiring(a)'
    BY <1>1, <2>3, <2>4 DEF Place, Retiring
  <2> QED
    BY <1>1, <1>2, <2>1, <2>3, <2>4, <2>5, <2>6, ActorStep
<1> QED
  BY <1>3, <1>4

\* The worker learns whose purge is pending.
LEMMA ReadTokenKeeps ==
    ASSUME ProjInv, NEW a \in Actor, ReadToken(a)
    PROVE  ProjInv'
<1>1. /\ act[a].pc = "token" /\ act[a] \in Activity /\ Place(a)
      /\ UNCHANGED <<row, lastInc, outbox, meta, child, lastToken, drops>>
  BY Shapes DEF ReadToken, StoreUnchanged, RedisUnchanged, ProjInv
<1>2. drops' \in 0..MaxDrops
  BY <1>1, Shapes
<1>3. CASE meta # NoMeta /\ ~meta.retired /\ ~meta.complete
  <2>1. /\ act' = [act EXCEPT ![a] = RestoreFailed(a)]
        /\ lock' = lock \/ (lock = a /\ lock' = None)
    BY <1>3 DEF ReadToken, Become
  <2> QED
    BY <1>1, <1>2, <2>1, RestoredLeaves, LeavesKeeps
<1>4. CASE ~(meta # NoMeta /\ ~meta.retired /\ ~meta.complete) /\ meta.inc = act[a].inc /\ meta.retired
  <2> DEFINE r == [act[a] EXCEPT !.pc = "resume", !.token = meta.token]
  <2>1. act' = [act EXCEPT ![a] = r] /\ lock' = lock
    BY <1>4 DEF ReadToken, Become
  <2>2. /\ r.pc = "resume" /\ r.ev = act[a].ev /\ r.inc = act[a].inc /\ r.token = meta.token
        /\ r.retire = act[a].retire /\ r.conn = act[a].conn /\ r.snap = act[a].snap
    BY <1>1 DEF Activity
  <2>3. r \in Activity /\ act'[a] = r
    BY <1>1, <2>1, Shapes, MetaShape DEF Activity
  <2>4. r.inc >= 1
    BY <1>4, <2>2, Shapes, MetaShape
  <2> HIDE DEF r
  <2>5. Place(a)'
    BY <1>1, <2>1, <2>2, <2>3, <2>4 DEF Place
  <2>6. Retiring(a)'
    BY <1>1, <2>2, <2>3 DEF Place, Retiring
  <2> QED
    BY <1>1, <1>2, <2>1, <2>2, <2>3, <2>5, <2>6, ActorStep
<1>5. CASE /\ ~(meta # NoMeta /\ ~meta.retired /\ ~meta.complete)
           /\ ~(meta.inc = act[a].inc /\ meta.retired)
  <2> DEFINE r == [act[a] EXCEPT !.pc = "commit"]
  <2>1. act' = [act EXCEPT ![a] = r] /\ lock' = lock
    BY <1>5 DEF ReadToken, GoTo, Become
  <2>2. /\ r.pc = "commit" /\ r.ev = act[a].ev /\ r.inc = act[a].inc /\ r.token = act[a].token
        /\ r.retire = act[a].retire /\ r.conn = act[a].conn /\ r.snap = act[a].snap
    BY <1>1 DEF Activity
  <2>3. r \in Activity /\ act'[a] = r
    BY <1>1, <2>1, Shapes DEF Activity
  <2> HIDE DEF r
  <2>5. Place(a)'
    BY <1>1, <2>1, <2>2, <2>3 DEF Place
  <2>6. Retiring(a)'
    BY <1>1, <2>2, <2>3 DEF Place, Retiring
  <2> QED
    BY <1>1, <1>2, <2>1, <2>2, <2>3, <2>5, <2>6, ActorStep
<1> QED
  BY <1>3, <1>4, <1>5

\* A worker claims an event.
LEMMA ClaimEventKeeps ==
    ASSUME ProjInv, NEW a \in Worker, NEW e \in Event, ClaimEvent(a, e)
    PROVE  ProjInv'
<1> DEFINE r == [Idle EXCEPT !.pc = "apply", !.ev = e]
<1>1. /\ a \in Actor /\ outbox[e].state = "queued" /\ act' = [act EXCEPT ![a] = r]
      /\ outbox' = [outbox EXCEPT ![e].by = a, ![e].fresh = TRUE]
      /\ UNCHANGED <<row, lastInc, meta, child, lastToken, lock, drops>>
  BY DEF ClaimEvent, Become, RedisUnchanged, Actor
<1>2. drops' \in 0..MaxDrops /\ act \in [Actor -> Activity] /\ outbox \in [Event -> OutboxRow]
  BY <1>1, Shapes
<1>3. outbox' \in [Event -> OutboxRow] /\ \A d \in Event : outbox'[d].state = outbox[d].state
  <2>1. outbox'[e] = [outbox[e] EXCEPT !.by = a, !.fresh = TRUE]
    BY <1>1, <1>2
  <2>2. outbox'[e] \in OutboxRow /\ outbox'[e].state = outbox[e].state
    BY <1>2, <2>1 DEF OutboxRow
  <2>3. \A d \in Event \ {e} : outbox'[d] = outbox[d]
    BY <1>1, <1>2
  <2>4. outbox' \in [Event -> OutboxRow]
    BY <1>1, <1>2, <2>2
  <2> QED
    BY <2>2, <2>3, <2>4
<1>4. /\ r.pc = "apply" /\ r.ev = e /\ r.inc = 0 /\ r.token = 0 /\ ~r.retire /\ ~r.conn
  BY DEF Idle
<1>5. r \in Activity
  <2>1. r = [Idle EXCEPT !.pc = "apply", !.ev = e]
    OBVIOUS
  <2> HIDE DEF r
  <2>2. r = [pc |-> "apply", ev |-> e, inc |-> 0, token |-> 0, retire |-> FALSE,
             again |-> FALSE, conn |-> FALSE, snap |-> [ver |-> 0, child |-> 0]]
    BY <2>1 DEF Idle
  <2> QED
    BY <2>2, BoundsNat DEF Activity, Snapshot
<1> HIDE DEF r
<1>6. act'[a] = r /\ \A b \in Actor \ {a} : act'[b] = act[b]
  BY <1>1, <1>2
<1>7. \A d \in Event : InFlight(d)' => InFlight(d)
  BY <1>1, <1>3, <1>4, <1>6 DEF InFlight
<1>8. Place(a)'
  <2>1. a \notin Job
    BY ProjectionBounds
  <2> QED
    BY <1>1, <1>4, <1>6, <2>1, Shapes DEF Place
<1>9. Retiring(a)'
  BY <1>4, <1>6 DEF Retiring
<1>10. /\ meta' \in OpenMeta \cup Tombstone \cup {NoMeta} /\ meta'.inc = meta.inc /\ meta'.ver = meta.ver
      /\ meta'.retired = meta.retired /\ meta'.token = meta.token
  BY <1>1, Shapes
<1> QED
  BY <1>1, <1>2, <1>3, <1>4, <1>5, <1>7, <1>8, <1>9, <1>10, DeliveryStep

\* A delivery is marked, or its claim given up.
LEMMA MarkEventKeeps ==
    ASSUME ProjInv, NEW a \in Worker, MarkEvent(a)
    PROVE  ProjInv'
<1> DEFINE e == act[a].ev
<1>1. /\ a \in Actor /\ act[a].pc \in {"mark", "unclaim"} /\ act' = [act EXCEPT ![a] = Idle]
      /\ outbox' = IF outbox[e].by # a THEN outbox
                   ELSE [outbox EXCEPT ![e] =
                            [state |-> IF act[a].pc = "mark" THEN "done" ELSE outbox[e].state,
                             by |-> None, fresh |-> FALSE]]
      /\ UNCHANGED <<row, lastInc, meta, child, lastToken, lock, drops>>
  BY DEF MarkEvent, Become, RedisUnchanged, Actor
<1>2. drops' \in 0..MaxDrops /\ act \in [Actor -> Activity] /\ outbox \in [Event -> OutboxRow]
  BY <1>1, Shapes
<1>3. e \in Event
  BY <1>1 DEF ProjInv, Place
<1>4. /\ outbox' \in [Event -> OutboxRow]
      /\ \A d \in Event : outbox'[d].state = "queued" => outbox[d].state = "queued"
  <2>1. CASE outbox[e].by # a
    BY <1>1, <1>2, <2>1
  <2>2. CASE outbox[e].by = a
    <3>1. outbox[e].state \in {"none", "queued", "done"}
      BY <1>2, <1>3 DEF OutboxRow
    <3>2. /\ outbox'[e].state = (IF act[a].pc = "mark" THEN "done" ELSE outbox[e].state)
          /\ \A d \in Event \ {e} : outbox'[d] = outbox[d]
      BY <1>1, <1>2, <1>3, <2>2
    <3>3. outbox' \in [Event -> OutboxRow]
      BY <1>1, <1>2, <1>3, <2>2, <3>1 DEF OutboxRow
    <3> QED
      BY <3>2, <3>3
  <2> QED
    BY <2>1, <2>2
<1> HIDE DEF e
<1>5. act'[a] = Idle /\ \A b \in Actor \ {a} : act'[b] = act[b]
  BY <1>1, <1>2
<1>6. \A d \in Event : InFlight(d)' => InFlight(d)
  BY <1>1, <1>4, <1>5, IdleShape, NoEventIsNone DEF InFlight
<1>7. Place(a)' /\ Retiring(a)'
  BY <1>5, IdleShape, Shapes, <1>1 DEF Place, Retiring
<1>8. /\ meta' \in OpenMeta \cup Tombstone \cup {NoMeta} /\ meta'.inc = meta.inc /\ meta'.ver = meta.ver
      /\ meta'.retired = meta.retired /\ meta'.token = meta.token
  BY <1>1, Shapes
<1> QED
  BY <1>1, <1>2, <1>4, <1>6, <1>7, <1>8, IdleShape, DeliveryStep

\* A claim expires, or a delivered event is deleted.
LEMMA OutboxKeeps ==
    ASSUME ProjInv, NEW e \in Event, ClaimExpires(e) \/ AgeOut(e)
    PROVE  ProjInv'
<1>1. /\ UNCHANGED <<row, lastInc, lock, meta, child, lastToken, act, drops>>
      /\ \/ outbox' = [outbox EXCEPT ![e].fresh = FALSE]
         \/ outbox' = [outbox EXCEPT ![e] = NotQueued]
  BY DEF ClaimExpires, AgeOut
<1>2. /\ outbox' \in [Event -> OutboxRow]
      /\ \A d \in Event : outbox'[d].state = "queued" => outbox[d].state = "queued"
  <2>1. outbox \in [Event -> OutboxRow] /\ NotQueued \in OutboxRow /\ NotQueued.state = "none"
    BY Shapes DEF OutboxRow, NotQueued
  <2>2. CASE outbox' = [outbox EXCEPT ![e] = NotQueued]
    BY <2>1, <2>2
  <2>3. CASE outbox' = [outbox EXCEPT ![e].fresh = FALSE]
    BY <2>1, <2>3 DEF OutboxRow
  <2> QED
    BY <1>1, <2>2, <2>3
<1>3. \A d \in Event : InFlight(d)' => InFlight(d)
  BY <1>1, <1>2 DEF InFlight
<1>4. \A d \in Event : Known(d)' <=> Known(d)
  BY <1>1 DEF Known, Stored
<1>5. \A b \in Actor : Owns(b)' <=> Owns(b)
  BY <1>1 DEF Owns
<1>6. ProjectionTypeOK' /\ Incarnations' /\ Behind' /\ EventsKnown' /\ Tokens'
  BY <1>1, <1>2, <1>3, <1>4
     DEF ProjInv, ProjectionTypeOK, Incarnations, Behind, EventsKnown, Tokens
<1>7. ASSUME NEW b \in Actor PROVE Place(b)' /\ Beginning(b)' /\ Retiring(b)'
  <2>1. Place(b) /\ Beginning(b) /\ Retiring(b)
    BY DEF ProjInv
  <2>2. Place(b)'
    BY <1>1, <1>5, <2>1 DEF Place
  <2>3. Beginning(b)'
    BY <1>1, <1>3, <2>1 DEF Beginning
  <2>4. Retiring(b)'
    BY <1>1, <1>5, <2>1 DEF Retiring
  <2> QED
    BY <2>2, <2>3, <2>4
<1> QED
  BY <1>6, <1>7 DEF ProjInv

-----------------------------------------------------------------------------
(***************************************************************************)
(* Steps of the database.                                                  *)
(***************************************************************************)

\* What appendOutbox does to the outbox.
LEMMA EnqueuedFacts ==
    ASSUME ProjInv, NEW d \in Event, outbox' = Enqueued({d}), act' = act
    PROVE  /\ outbox' \in [Event -> OutboxRow]
           /\ outbox'[d].state = "queued" /\ \A e \in Event \ {d} : outbox'[e] = outbox[e]
           /\ \A e \in Event : InFlight(e)' => InFlight(e) \/ e = d
<1>1. outbox \in [Event -> OutboxRow] /\ Queued \in OutboxRow /\ Queued.state = "queued"
  BY Shapes DEF Queued, OutboxRow
<1>2. /\ outbox' \in [Event -> OutboxRow]
      /\ outbox'[d] = Queued /\ \A e \in Event \ {d} : outbox'[e] = outbox[e]
  BY <1>1 DEF Enqueued
<1> QED
  BY <1>1, <1>2 DEF InFlight

\* The session id is used again.  Nobody is connected, and nothing is cached but a
\* tombstone of an earlier incarnation.
LEMMA CreateSessionKeeps ==
    ASSUME ProjInv, CreateSession
    PROVE  ProjInv'
<1> DEFINE d == [agg |-> "session", inc |-> lastInc + 1, ver |-> 1]
<1>1. /\ row.inc = 0 /\ lastInc < MaxInc /\ lastInc' = lastInc + 1 /\ lastInc \in Nat
      /\ row' = [inc |-> lastInc + 1, status |-> "active", ver |-> 1, child |-> 0]
      /\ outbox' = Enqueued({d}) /\ UNCHANGED <<lock, meta, child, lastToken, act, drops>>
  BY Shapes DEF CreateSession, NoRow
<1>2. d \in Event /\ d.inc = lastInc + 1 /\ d.ver = 1 /\ d.agg = "session"
  BY <1>1, BoundsNat DEF Event
<1> HIDE DEF d
<1>3. /\ row'.inc = lastInc + 1 /\ row'.ver = 1 /\ row'.child = 0 /\ row' \in Row
  BY <1>1, BoundsNat DEF Row
<1>4. /\ outbox' \in [Event -> OutboxRow]
      /\ \A e \in Event : InFlight(e)' => InFlight(e) \/ e = d
  BY <1>1, <1>2, EnqueuedFacts
<1>5. ProjectionTypeOK'
  <2>1. lastInc' \in 0..MaxInc
    BY <1>1, BoundsNat
  <2> QED
    BY <1>1, <1>3, <1>4, <2>1 DEF ProjInv, ProjectionTypeOK
<1>6. Incarnations'
  BY <1>1, <1>3, Shapes, MetaShape DEF ProjInv, Incarnations
<1>7. Behind'
  BY <1>1, <1>3, Shapes, MetaShape, ChildShape DEF ProjInv, Incarnations, Behind
<1>8. EventsKnown'
  <2>1. ASSUME NEW e \in Event, InFlight(e)' PROVE Known(e)'
    <3>1. CASE e = d
      BY <1>1, <1>2, <1>3, <3>1 DEF Known, Stored
    <3>2. CASE InFlight(e)
      <4>1. e.inc <= lastInc /\ e.inc \in Nat
        BY <3>2, EventShape, BoundsNat DEF ProjInv, EventsKnown, Known
      <4> QED
        BY <1>1, <1>3, <4>1 DEF Known
    <3> QED
      BY <1>4, <2>1, <3>1, <3>2
  <2> QED
    BY <2>1 DEF EventsKnown
<1>9. Tokens'
  BY <1>1 DEF ProjInv, Tokens
<1>10. ASSUME NEW b \in Actor PROVE Place(b)' /\ Beginning(b)' /\ Retiring(b)'
  <2>1. Place(b) /\ Beginning(b) /\ act[b] \in Activity /\ act[b].inc \in Nat
    BY Shapes, ActivityShape, BoundsNat DEF ProjInv
  <2>2. ~act[b].conn /\ act[b].inc <= lastInc
    BY <1>1, <2>1 DEF Place
  <2>3. act[b].pc \in {"child", "session"} => ~Owns(b)
    BY <1>1, <2>1 DEF Place
  <2>4. Owns(b)' <=> Owns(b)
    BY <1>1 DEF Owns
  <2>5. Place(b)'
    BY <1>1, <2>1, <2>2, <2>3, <2>4 DEF Place
  <2>6. Beginning(b)'
    BY <1>1, <1>2, <1>3, <1>4, <2>1, <2>2 DEF Beginning
  <2>7. Retiring(b)'
    BY <1>1, <2>2 DEF Retiring
  <2> QED
    BY <2>5, <2>6, <2>7
<1> QED
  BY <1>5, <1>6, <1>7, <1>8, <1>9, <1>10 DEF ProjInv

\* The owner writes a record of an open session: no purge is about to begin, no tombstone
\* stands, and nobody is connected.
LEMMA WriteKeeps ==
    ASSUME ProjInv, lock = None, row.status = "active", row' \in Row, row'.inc = row.inc,
           row'.ver >= row.ver, row'.child >= row.child, NEW d \in Event, d.inc = row.inc,
           d.ver <= (IF d.agg = "session" THEN row'.ver ELSE row'.child),
           outbox' = Enqueued({d}),
           UNCHANGED <<lastInc, lock, meta, child, lastToken, act, drops>>
    PROVE  ProjInv'
<1>1. row # NoRow /\ row.inc # 0 /\ row' # NoRow
  BY Shapes, RowShape
<1>2. /\ row.ver \in Nat /\ row'.ver \in Nat /\ row.child \in Nat /\ row'.child \in Nat
      /\ meta.ver \in Nat /\ child.ver \in Nat
  BY Shapes, RowShape, MetaShape, ChildShape, BoundsNat
<1>3. /\ outbox' \in [Event -> OutboxRow]
      /\ \A e \in Event : InFlight(e)' => InFlight(e) \/ e = d
  BY EnqueuedFacts
<1>4. ~(meta.inc = row.inc /\ meta.retired)
  BY <1>1 DEF ProjInv, Behind
<1>5. ProjectionTypeOK' /\ Incarnations' /\ Tokens'
  BY <1>3 DEF ProjInv, ProjectionTypeOK, Incarnations, Tokens
<1>6. Behind'
  BY <1>1, <1>2, <1>4 DEF ProjInv, Behind
<1>7. EventsKnown'
  <2>1. ASSUME NEW e \in Event, InFlight(e)' PROVE Known(e)'
    <3>1. CASE e = d
      <4>1. d.inc = lastInc /\ lastInc \in Nat
        BY <1>1, Shapes, BoundsNat DEF ProjInv, Incarnations
      <4> QED
        BY <3>1, <4>1 DEF Known, Stored
    <3>2. CASE InFlight(e)
      <4>1. Known(e) /\ e.ver \in Nat
        BY <3>2, EventShape DEF ProjInv, EventsKnown
      <4> QED
        BY <1>2, <4>1 DEF Known, Stored
    <3> QED
      BY <1>3, <2>1, <3>1, <3>2
  <2> QED
    BY <2>1 DEF EventsKnown
<1>8. ASSUME NEW b \in Actor PROVE Place(b)' /\ Beginning(b)' /\ Retiring(b)'
  <2>1. Place(b) /\ Beginning(b)
    BY DEF ProjInv
  <2>2. ~act[b].conn
    BY <2>1, Shapes DEF Place
  <2>3. act[b].pc \in {"child", "session"} => ~Owns(b)
    BY <1>4, <2>1 DEF Place, Owns
  <2>4. Owns(b)' <=> Owns(b)
    BY DEF Owns
  <2>5. Place(b)'
    BY <2>1, <2>2, <2>3, <2>4 DEF Place
  <2>6. Beginning(b)'
    BY <1>3, <2>1 DEF Beginning
  <2>7. Retiring(b)'
    BY <2>2 DEF Retiring
  <2> QED
    BY <2>5, <2>6, <2>7
<1> QED
  BY <1>5, <1>6, <1>7, <1>8 DEF ProjInv

LEMMA WriteSessionKeeps ==
    ASSUME ProjInv, NEW status \in {"active", "terminal"}, WriteSession(status)
    PROVE  ProjInv'
<1> DEFINE d == [agg |-> "session", inc |-> row.inc, ver |-> row.ver + 1]
<1>1. /\ lock = None /\ row.status = "active" /\ row.ver < MaxVer
      /\ row' = [row EXCEPT !.status = status, !.ver = @ + 1] /\ outbox' = Enqueued({d})
      /\ UNCHANGED <<lastInc, lock, meta, child, lastToken, act, drops>>
  BY DEF WriteSession
<1>2. row \in Row /\ row.ver \in Nat /\ row.ver + 1 \in 1..MaxVer /\ row.inc \in 1..MaxInc
  BY <1>1, Shapes, RowShape, BoundsNat DEF Row
<1>3. d \in Event /\ d.inc = row.inc /\ d.ver = row.ver + 1 /\ d.agg = "session"
  BY <1>2 DEF Event
<1> HIDE DEF d
<1>4. row'.inc = row.inc /\ row'.ver = row.ver + 1 /\ row'.child = row.child
  BY <1>1, <1>2 DEF Row
<1>5. row' \in Row
  BY <1>1, <1>2 DEF Row
<1>6. row'.ver >= row.ver /\ row'.child >= row.child
  BY <1>2, <1>4, Shapes, RowShape, BoundsNat
<1>7. d.ver <= (IF d.agg = "session" THEN row'.ver ELSE row'.child)
  BY <1>2, <1>3, <1>4
<1> QED
  BY <1>1, <1>3, <1>4, <1>5, <1>6, <1>7, WriteKeeps

LEMMA WriteChildKeeps ==
    ASSUME ProjInv, WriteChild
    PROVE  ProjInv'
<1> DEFINE d == [agg |-> "child", inc |-> row.inc, ver |-> row.child + 1]
<1>1. /\ lock = None /\ row.status = "active" /\ row.child < MaxChild
      /\ row' = [row EXCEPT !.child = @ + 1] /\ outbox' = Enqueued({d})
      /\ UNCHANGED <<lastInc, lock, meta, child, lastToken, act, drops>>
  BY DEF WriteChild
<1>2. row \in Row /\ row.child \in Nat /\ row.child + 1 \in 1..MaxChild /\ row.inc \in 1..MaxInc
  BY <1>1, Shapes, RowShape, BoundsNat DEF Row
<1>3. d \in Event /\ d.inc = row.inc /\ d.ver = row.child + 1 /\ d.agg = "child"
  BY <1>2 DEF Event
<1> HIDE DEF d
<1>4. row'.inc = row.inc /\ row'.ver = row.ver /\ row'.child = row.child + 1
  BY <1>1, <1>2 DEF Row
<1>5. row' \in Row
  BY <1>1, <1>2 DEF Row
<1>6. row'.ver >= row.ver /\ row'.child >= row.child
  BY <1>2, <1>4, Shapes, RowShape, BoundsNat
<1>7. d.ver <= (IF d.agg = "session" THEN row'.ver ELSE row'.child)
  BY <1>2, <1>3, <1>4
<1> QED
  BY <1>1, <1>3, <1>4, <1>5, <1>6, <1>7, WriteKeeps

\* A terminal session is locked for its deletion: nobody else is connected, and the purge
\* gets a token that nobody has seen.
LEMMA BeginRetentionKeeps ==
    ASSUME ProjInv, NEW j \in Job, BeginRetention(j)
    PROVE  ProjInv'
<1> DEFINE r == [Idle EXCEPT !.pc = "begin", !.inc = row.inc, !.token = lastToken + 1,
                             !.retire = TRUE, !.conn = TRUE,
                             !.snap = [ver |-> row.ver, child |-> row.child]]
<1>1. /\ j \in Actor /\ act[j].pc = "idle" /\ lock = None /\ row.status = "terminal"
      /\ lastToken < MaxPurge /\ lastToken' = lastToken + 1 /\ lock' = j
      /\ act' = [act EXCEPT ![j] = r] /\ UNCHANGED <<row, lastInc, outbox, meta, child, drops>>
  BY DEF BeginRetention, Become, RedisUnchanged, Actor
<1>2. /\ row # NoRow /\ row.inc \in 1..MaxInc /\ row.ver \in 1..MaxVer /\ row.child \in 0..MaxChild
      /\ lastToken \in Nat /\ lastToken + 1 \in 1..MaxPurge /\ lastInc \in Nat /\ row.inc = lastInc
  <2>1. row \in Row /\ row # NoRow
    BY <1>1, Shapes, RowShape
  <2>2. row.inc = lastInc
    BY <2>1, Shapes, RowShape DEF ProjInv, Incarnations
  <2> QED
    BY <1>1, <2>1, <2>2, Shapes, BoundsNat DEF Row
<1>3. r = [pc |-> "begin", ev |-> NoEvent, inc |-> row.inc, token |-> lastToken + 1,
           retire |-> TRUE, again |-> FALSE, conn |-> TRUE,
           snap |-> [ver |-> row.ver, child |-> row.child]]
  <2>1. r = [Idle EXCEPT !.pc = "begin", !.inc = row.inc, !.token = lastToken + 1,
                         !.retire = TRUE, !.conn = TRUE,
                         !.snap = [ver |-> row.ver, child |-> row.child]]
    OBVIOUS
  <2> HIDE DEF r
  <2> QED
    BY <2>1 DEF Idle
<1> HIDE DEF r
<1>4. /\ r.pc = "begin" /\ r.ev = NoEvent /\ r.inc = row.inc /\ r.token = lastToken + 1
      /\ r.retire /\ r.conn /\ r.snap.ver = row.ver /\ r.snap.child = row.child
  BY <1>3
<1>5. r \in Activity
  BY <1>2, <1>3, BoundsNat DEF Activity, Snapshot
<1>6. act'[j] = r /\ (\A b \in Actor \ {j} : act'[b] = act[b]) /\ act' \in [Actor -> Activity]
  BY <1>1, <1>5, Shapes
<1>7. ProjectionTypeOK'
  BY <1>1, <1>2, <1>6, BoundsNat DEF ProjInv, ProjectionTypeOK
<1>8. Incarnations' /\ Behind'
  BY <1>1 DEF ProjInv, Incarnations, Behind
<1>9. \A e \in Event : InFlight(e)' => InFlight(e) /\ Known(e)
  <2>1. \A e \in Event : InFlight(e)' => InFlight(e)
    BY <1>1, <1>4, <1>6, NoEventIsNone DEF InFlight
  <2> QED
    BY <2>1 DEF ProjInv, EventsKnown
<1>10. EventsKnown'
  BY <1>1, <1>9 DEF EventsKnown, Known, Stored
<1>11. \A b \in Actor : Place(b) /\ Beginning(b) /\ ~act[b].conn /\ act[b].token \in Nat
                        /\ act[b].token <= lastToken
  <2>1. \A b \in Actor : Place(b) /\ Beginning(b) /\ act[b].token <= lastToken
    BY DEF ProjInv, Tokens
  <2>2. \A b \in Actor : ~act[b].conn
    BY <1>1, <2>1, Shapes DEF Place
  <2>3. \A b \in Actor : act[b].token \in Nat
    BY Shapes, ActivityShape, BoundsNat
  <2> QED
    BY <2>1, <2>2, <2>3
<1>12. Tokens'
  <2>1. meta.token <= lastToken /\ meta.token \in Nat
    BY Shapes, MetaShape, BoundsNat DEF ProjInv, Tokens
  <2>2. \A b \in Actor : act'[b].token <= lastToken'
    BY <1>1, <1>2, <1>4, <1>6, <1>11
  <2>3. ASSUME NEW b \in Actor, act'[b].pc = "begin"
        PROVE  /\ act'[b].token >= 1 /\ act'[b].token # meta'.token
               /\ \A c \in Actor \ {b} : act'[c].token # act'[b].token
    <3>1. CASE b = j
      BY <1>1, <1>2, <1>4, <1>6, <1>11, <2>1, <3>1
    <3>2. CASE b # j
      <4>1. /\ act'[b] = act[b] /\ act[b].token >= 1 /\ act[b].token # meta.token
            /\ \A c \in Actor \ {b} : act[c].token # act[b].token
        BY <1>6, <2>3, <3>2 DEF ProjInv, Tokens
      <4>2. act'[j].token # act[b].token
        BY <1>2, <1>4, <1>6, <1>11
      <4> QED
        BY <1>1, <1>6, <3>2, <4>1, <4>2
    <3> QED
      BY <3>1, <3>2
  <2> QED
    BY <1>1, <1>2, <2>1, <2>2, <2>3 DEF Tokens
<1>13. ASSUME NEW b \in Actor PROVE Place(b)' /\ Beginning(b)' /\ Retiring(b)'
  <2>1. CASE b = j
    <3>1. Place(b)'
      <4>1. j \notin Worker
        BY ProjectionBounds
      <4> QED
        BY <1>1, <1>2, <1>4, <1>6, <2>1, <4>1 DEF Place
    <3>2. Beginning(b)'
      <4>1. meta.inc = row.inc => meta.ver <= row.ver
        BY <1>2 DEF ProjInv, Behind
      <4>2. \A e \in Event : InFlight(e)' /\ e.agg = "session" /\ e.inc = row.inc =>
               e.ver <= row.ver
        BY <1>9 DEF Known, Stored
      <4>3. \A c \in Actor : act'[c].pc = "begin" /\ act'[c].inc = row.inc =>
               act'[c].snap.ver = row.ver
        BY <1>4, <1>6, <1>11 DEF Beginning
      <4> QED
        BY <1>1, <1>2, <1>4, <1>6, <2>1, <4>1, <4>2, <4>3 DEF Beginning
    <3>3. Retiring(b)'
      BY <1>4, <1>6, <2>1 DEF Retiring
    <3> QED
      BY <3>1, <3>2, <3>3
  <2>2. CASE b # j
    <3>1. act'[b] = act[b] /\ Place(b) /\ Beginning(b) /\ ~act[b].conn
      BY <1>6, <1>11, <2>2
    <3>2. Owns(b)' <=> Owns(b)
      BY <1>1, <3>1 DEF Owns
    <3>3. Place(b)'
      BY <1>1, <3>1, <3>2 DEF Place
    <3>4. Beginning(b)'
      <4>1. SUFFICES ASSUME act[b].pc = "begin" PROVE Beginning(b)'
        BY <3>1 DEF Beginning
      <4>2. \A c \in Actor : act'[c].pc = "begin" /\ act'[c].inc = act[b].inc =>
               act'[c].snap.ver = act[b].snap.ver
        <5>1. row.inc = act[b].inc => row.ver = act[b].snap.ver
          BY <3>1, <4>1 DEF Beginning
        <5> QED
          BY <1>4, <1>6, <3>1, <4>1, <5>1 DEF Beginning
      <4> QED
        BY <1>1, <1>9, <3>1, <4>1, <4>2 DEF Beginning
    <3>5. Retiring(b)'
      BY <3>1 DEF Retiring
    <3> QED
      BY <3>3, <3>4, <3>5
  <2> QED
    BY <2>1, <2>2
<1> QED
  BY <1>7, <1>8, <1>10, <1>12, <1>13 DEF ProjInv

\* The session is deleted: its tombstone stands, its children are gone and nobody is about
\* to restore them.
LEMMA DeleteSessionKeeps ==
    ASSUME ProjInv, NEW j \in Job, NEW reported \in BOOLEAN, DeleteSession(j, reported)
    PROVE  ProjInv'
<1> DEFINE s == [act[j] EXCEPT !.pc = "restore", !.retire = FALSE, !.conn = FALSE]
<1>1. /\ j \in Actor /\ act[j].pc = "delete" /\ act[j].conn /\ row' = NoRow /\ lock' = None
      /\ UNCHANGED <<lastInc, outbox, meta, child, lastToken, drops>>
      /\ act' = [act EXCEPT ![j] = IF reported THEN Idle ELSE s]
  BY DEF DeleteSession, Become, RedisUnchanged, Actor
<1>2. /\ lock = j /\ act[j].retire /\ act[j].inc = row.inc /\ act[j].inc >= 1
      /\ meta.retired /\ meta.inc = row.inc /\ child = NoChild
      /\ \A b \in Actor : act[b].pc \in {"child", "session"} => ~Owns(b)
  BY <1>1 DEF ProjInv, Place, Retiring
<1>3. s = [act[j] EXCEPT !.pc = "restore", !.retire = FALSE, !.conn = FALSE]
  OBVIOUS
<1> HIDE DEF s
<1>4. act[j] \in Activity
  BY <1>1, Shapes
<1>5. /\ s.pc = "restore" /\ s.ev = act[j].ev /\ s.inc = act[j].inc /\ s.token = act[j].token
      /\ ~s.retire /\ ~s.conn /\ s \in Activity
  BY <1>3, <1>4 DEF Activity
<1>6. PICK r \in Activity : /\ act' = [act EXCEPT ![j] = r] /\ r.pc \in {"idle", "restore"}
                            /\ r.ev = act[j].ev \/ r.ev = NoEvent
                            /\ r.token = 0 \/ r.token = act[j].token
                            /\ ~r.retire /\ ~r.conn
                            /\ r.inc = 0 \/ r.inc = act[j].inc
                            /\ r.pc = "restore" => r.inc = act[j].inc
  <2>1. CASE reported
    BY <1>1, <2>1, IdleShape
  <2>2. CASE ~reported
    BY <1>1, <1>5, <2>2
  <2> QED
    BY <2>1, <2>2
<1>7. act'[j] = r /\ (\A b \in Actor \ {j} : act'[b] = act[b]) /\ act' \in [Actor -> Activity]
  BY <1>1, <1>6, Shapes
<1>8. NoRow.inc = 0 /\ lastInc \in Nat /\ act[j].inc \in Nat
  BY <1>4, Shapes, ActivityShape, BoundsNat DEF NoRow
<1>9. ProjectionTypeOK'
  BY <1>1, <1>7 DEF ProjInv, ProjectionTypeOK
<1>10. Incarnations' /\ Behind'
  BY <1>1, <1>2, <1>8 DEF ProjInv, Incarnations, Behind
<1>11. \A e \in Event : InFlight(e)' => InFlight(e)
  BY <1>1, <1>6, <1>7, NoEventIsNone DEF InFlight
<1>12. EventsKnown'
  <2>1. ASSUME NEW e \in Event, InFlight(e)' PROVE Known(e)'
    <3>1. e.inc <= lastInc /\ e.inc # 0
      BY <1>11, <2>1, EventShape DEF ProjInv, EventsKnown, Known
    <3> QED
      BY <1>1, <1>8, <3>1 DEF Known
  <2> QED
    BY <2>1 DEF EventsKnown
<1>13. Tokens'
  <2>1. \A b \in Actor : act'[b].token <= lastToken'
    BY <1>1, <1>6, <1>7, Shapes DEF ProjInv, Tokens
  <2>2. ASSUME NEW b \in Actor, act'[b].pc = "begin"
        PROVE  /\ act'[b].token >= 1 /\ act'[b].token # meta'.token
               /\ \A c \in Actor \ {b} : act'[c].token # act'[b].token
    <3>1. b # j /\ act'[b] = act[b]
      BY <1>6, <1>7, <2>2
    <3> QED
      BY <1>1, <1>6, <1>7, <2>2, <3>1 DEF ProjInv, Tokens
  <2> QED
    BY <1>1, <2>1, <2>2 DEF ProjInv, Tokens
<1>14. ASSUME NEW b \in Actor PROVE Place(b)' /\ Beginning(b)' /\ Retiring(b)'
  <2>1. CASE b = j
    <3>1. j \notin Worker
      BY ProjectionBounds
    <3>2. Place(b)'
      BY <1>1, <1>2, <1>6, <1>7, <1>8, <2>1, <3>1 DEF Place, ProjInv
    <3> QED
      BY <1>6, <1>7, <2>1, <3>2 DEF Beginning, Retiring
  <2>2. CASE b # j
    <3>1. act'[b] = act[b] /\ Place(b) /\ Beginning(b)
      BY <1>7, <2>2 DEF ProjInv
    <3>2. ~act[b].conn
      BY <1>2, <2>2, <3>1 DEF Place
    <3>3. Owns(b)' <=> Owns(b)
      BY <1>1, <3>1 DEF Owns
    <3>4. Place(b)'
      BY <1>1, <1>2, <3>1, <3>2, <3>3 DEF Place
    <3>5. Beginning(b)'
      <4>1. SUFFICES ASSUME act[b].pc = "begin" PROVE Beginning(b)'
        BY <3>1 DEF Beginning
      <4>2. \A c \in Actor : act'[c].pc = "begin" => act'[c] = act[c]
        BY <1>6, <1>7
      <4>3. act[b].inc # 0
        BY <3>1, <4>1 DEF Place
      <4> QED
        BY <1>1, <1>8, <1>11, <3>1, <4>1, <4>2, <4>3 DEF Beginning
    <3> QED
      BY <3>1, <3>2, <3>4, <3>5 DEF Retiring
  <2> QED
    BY <2>1, <2>2
<1> QED
  BY <1>9, <1>10, <1>12, <1>13, <1>14 DEF ProjInv

-----------------------------------------------------------------------------
(***************************************************************************)
(* Steps that change Redis.                                                *)
(***************************************************************************)

\* A script runs for an actor.  Nobody comes to own the tombstone by it, and a retirement
\* under way keeps its tombstone and gets no children.
LEMMA RedisStep ==
    ASSUME ProjInv, NEW a \in Actor, NEW r \in Activity,
           act' = [act EXCEPT ![a] = r],
           UNCHANGED <<row, lastInc, outbox, lastToken, lock, drops>>,
           r.ev = act[a].ev, r.token = act[a].token, r.pc # "begin",
           meta' \in OpenMeta \cup Tombstone \cup {NoMeta},
           child' \in [inc : 1..MaxInc, ver : 1..MaxChild] \cup {NoChild},
           Incarnations', Behind', Place(a)', Retiring(a)',
           meta'.token = 0 \/ meta'.token = meta.token \/ meta'.token = act[a].token,
           \A b \in Actor \ {a} : act[b].pc = "begin" /\ meta'.inc = act[b].inc =>
               meta'.ver <= act[b].snap.ver,
           \A b \in Actor : act'[b].pc \in {"child", "session"} /\ Owns(b)' =>
               act[b].pc \in {"child", "session"} /\ Owns(b),
           \A b \in Actor \ {a} : act[b].retire /\ act[b].conn /\ act[b].pc # "begin" =>
               meta'.retired /\ meta'.inc = meta.inc /\ (child' = child \/ child' = NoChild)
    PROVE  ProjInv'
<1>1. /\ act'[a] = r /\ (\A b \in Actor \ {a} : act'[b] = act[b]) /\ act' \in [Actor -> Activity]
  BY Shapes
<1>2. ProjectionTypeOK'
  BY <1>1 DEF ProjInv, ProjectionTypeOK
<1>3. \A e \in Event : InFlight(e)' => InFlight(e)
  BY <1>1 DEF InFlight
<1>4. EventsKnown'
  <2>1. \A e \in Event : Known(e)' <=> Known(e)
    BY DEF Known, Stored
  <2> QED
    BY <1>3, <2>1 DEF ProjInv, EventsKnown
<1>5. Tokens'
  <2>1. meta'.token <= lastToken' /\ \A b \in Actor : act'[b].token <= lastToken'
    BY <1>1, Shapes, BoundsNat DEF ProjInv, Tokens
  <2>2. ASSUME NEW b \in Actor, act'[b].pc = "begin"
        PROVE  /\ act'[b].token >= 1 /\ act'[b].token # meta'.token
               /\ \A c \in Actor \ {b} : act'[c].token # act'[b].token
    <3>1. b # a /\ act'[b] = act[b]
      BY <1>1, <2>2
    <3>2. /\ act[b].token >= 1 /\ act[b].token # meta.token
          /\ \A c \in Actor \ {b} : act[c].token # act[b].token
      BY <2>2, <3>1 DEF ProjInv, Tokens
    <3>3. act[b].token # 0
      BY <3>2
    <3> QED
      BY <1>1, <3>1, <3>2, <3>3
  <2> QED
    BY <2>1, <2>2 DEF Tokens
<1>6. ASSUME NEW b \in Actor PROVE Place(b)' /\ Beginning(b)' /\ Retiring(b)'
  <2>1. CASE b = a
    BY <1>1, <2>1 DEF Beginning
  <2>2. CASE b # a
    <3>1. act'[b] = act[b] /\ Place(b) /\ Beginning(b) /\ Retiring(b)
      BY <1>1, <2>2 DEF ProjInv
    <3>2. Place(b)'
      BY <3>1 DEF Place
    <3>3. Beginning(b)'
      <4>1. SUFFICES ASSUME act[b].pc = "begin" PROVE Beginning(b)'
        BY <3>1 DEF Beginning
      <4>2. \A c \in Actor : act'[c].pc = "begin" => act'[c] = act[c]
        BY <1>1
      <4> QED
        BY <1>3, <2>2, <3>1, <4>1, <4>2 DEF Beginning
    <3>4. Retiring(b)'
      <4>1. SUFFICES ASSUME act[b].retire, act[b].conn, act[b].pc # "begin" PROVE Retiring(b)'
        BY <3>1 DEF Retiring
      <4>2. /\ meta.retired /\ meta.inc = act[b].inc
            /\ act[b].pc \in {"complete", "delete"} => child = NoChild
            /\ \A c \in Actor : act[c].pc \in {"child", "session"} => ~Owns(c)
        BY <3>1, <4>1 DEF Retiring
      <4>3. meta'.retired /\ meta'.inc = meta.inc /\ (child' = child \/ child' = NoChild)
        BY <2>2, <4>1
      <4> QED
        BY <3>1, <4>1, <4>2, <4>3 DEF Retiring
    <3> QED
      BY <3>2, <3>3, <3>4
  <2> QED
    BY <2>1, <2>2
<1> QED
  BY <1>2, <1>4, <1>5, <1>6 DEF ProjInv

\* What going on to another position does to an actor's record.
LEMMA GoToShape ==
    ASSUME NEW t \in Activity, NEW pc, NEW r, r = [t EXCEPT !.pc = pc]
    PROVE  /\ r.pc = pc /\ r.ev = t.ev /\ r.inc = t.inc /\ r.token = t.token
           /\ r.retire = t.retire /\ r.conn = t.conn /\ r.snap = t.snap
           /\ pc \in {"idle", "apply", "restore", "token", "resume", "begin", "purge", "complete",
                      "delete", "snapshot", "child", "session", "commit", "mark", "unclaim"}
              => r \in Activity
BY DEF Activity

\* An event that applies is of the present incarnation, which has no tombstone; so nobody
\* is retiring it and nobody is about to restore it.
LEMMA AppliesToPresent ==
    ASSUME ProjInv, NEW w \in Worker, act[w].pc = "apply", ~Pending(act[w].ev),
           ~Superseded(act[w].ev)
    PROVE  /\ act[w].ev \in Event /\ Known(act[w].ev) /\ InFlight(act[w].ev)
           /\ act[w].ev.inc = row.inc /\ row.inc = lastInc /\ row # NoRow
           /\ \A b \in Actor : ~(act[b].retire /\ act[b].conn /\ act[b].pc # "begin")
           /\ \A b \in Actor : act[b].pc \in {"child", "session"} => ~Owns(b)
<1> DEFINE e == act[w].ev
<1>1. w \in Actor /\ e \in Event
  BY DEF Actor, ProjInv, Place
<1>2. InFlight(e) /\ Known(e)
  BY <1>1 DEF InFlight, ProjInv, EventsKnown
<1>3. e.inc \in 1..lastInc
  BY <1>1, <1>2, EventShape, Shapes, BoundsNat DEF Known
<1>4. e.inc = row.inc
  BY <1>3 DEF ProjInv, Incarnations, Pending, Superseded
<1>5. row.inc = lastInc /\ row # NoRow
  BY <1>3, <1>4, Shapes, RowShape DEF ProjInv, Incarnations
<1>6. ASSUME NEW b \in Actor PROVE ~(act[b].retire /\ act[b].conn /\ act[b].pc # "begin")
  BY <1>4 DEF ProjInv, Place, Retiring, Pending
<1>7. ASSUME NEW b \in Actor, act[b].pc \in {"child", "session"} PROVE ~Owns(b)
  BY <1>4, <1>7 DEF ProjInv, Place, Owns, Pending
<1> QED
  BY <1>1, <1>2, <1>4, <1>5, <1>6, <1>7

\* An event is applied, or superseded by what is cached.
LEMMA ApplyKeeps ==
    ASSUME ProjInv, NEW w \in Worker, Apply(w), ~Pending(act[w].ev)
    PROVE  ProjInv'
<1> DEFINE e == act[w].ev
<1> DEFINE r == [act[w] EXCEPT !.pc = "mark"]
<1>1. /\ w \in Actor /\ act[w].pc = "apply" /\ act' = [act EXCEPT ![w] = r]
      /\ meta' = IF e.agg = "session" /\ ~Superseded(e)
                 THEN [NoMeta EXCEPT !.inc = e.inc, !.ver = e.ver] ELSE meta
      /\ child' = IF e.agg = "child" /\ ~Superseded(e)
                  THEN [inc |-> e.inc, ver |-> e.ver] ELSE child
      /\ UNCHANGED <<row, lastInc, outbox, lastToken, lock, drops>>
  BY DEF Apply, GoTo, Become, StoreUnchanged, Actor
<1>2. act[w] \in Activity /\ Place(w) /\ w \notin Job /\ e \in Event
  BY <1>1, Shapes, ProjectionBounds DEF ProjInv, Place
<1>3. /\ r.pc = "mark" /\ r.ev = act[w].ev /\ r.inc = act[w].inc /\ r.token = act[w].token
      /\ r.retire = act[w].retire /\ r.conn = act[w].conn /\ r.snap = act[w].snap
      /\ r \in Activity
  BY <1>2, GoToShape
<1> HIDE DEF r
<1>4. act'[w] = r /\ \A b \in Actor \ {w} : act'[b] = act[b]
  BY <1>1, Shapes
<1>5. Place(w)' /\ Retiring(w)'
  BY <1>1, <1>2, <1>3, <1>4 DEF Place, Retiring
<1>6. CASE Superseded(e)
  <2>1. UNCHANGED <<row, lastInc, outbox, meta, child, lastToken>> /\ drops' \in 0..MaxDrops
    BY <1>1, <1>6, Shapes
  <2> QED
    BY <1>1, <1>3, <1>5, <2>1, ActorStep
<1>7. CASE ~Superseded(e)
  <2>1. /\ Known(e) /\ InFlight(e) /\ e.inc = row.inc /\ row.inc = lastInc /\ row # NoRow
        /\ \A b \in Actor : ~(act[b].retire /\ act[b].conn /\ act[b].pc # "begin")
        /\ \A b \in Actor : act[b].pc \in {"child", "session"} => ~Owns(b)
    BY <1>1, <1>7, AppliesToPresent
  <2>2. e.inc \in 1..MaxInc /\ e.inc \in Nat /\ lastInc \in Nat
    BY <1>2, EventShape, Shapes, BoundsNat
  <2>3. CASE e.agg = "session"
    <3>1. meta' = [inc |-> e.inc, ver |-> e.ver, retired |-> FALSE, token |-> 0,
                   complete |-> FALSE] /\ child' = child
      BY <1>1, <1>7, <2>3 DEF NoMeta
    <3>2. e.ver \in 1..MaxVer /\ e.ver <= row.ver
      BY <1>2, <2>1, <2>3, EventShape DEF Known, Stored
    <3> HIDE DEF e
    <3>3. /\ meta'.inc = e.inc /\ meta'.ver = e.ver /\ ~meta'.retired /\ meta'.token = 0
          /\ meta' \in OpenMeta
      BY <2>2, <3>1, <3>2 DEF OpenMeta
    <3>4. Incarnations'
      BY <1>1, <2>1, <2>2, <3>3 DEF Incarnations
    <3>5. Behind'
      BY <1>1, <2>1, <3>1, <3>2, <3>3 DEF ProjInv, Behind
    <3>6. \A b \in Actor : act[b].pc = "begin" /\ meta'.inc = act[b].inc =>
             meta'.ver <= act[b].snap.ver
      BY <1>2, <2>1, <2>3, <3>3 DEF ProjInv, Beginning
    <3>7. \A b \in Actor : ~Owns(b)'
      BY <3>3 DEF Owns
    <3>8. child' \in [inc : 1..MaxInc, ver : 1..MaxChild] \cup {NoChild}
      BY <3>1, Shapes
    <3> QED
      BY <1>1, <1>3, <1>5, <2>1, <3>3, <3>4, <3>5, <3>6, <3>7, <3>8, RedisStep
  <2>4. CASE e.agg # "session"
    <3>1. e.agg = "child"
      BY <1>2, <2>4, EventShape
    <3>2. child' = [inc |-> e.inc, ver |-> e.ver] /\ meta' = meta
      BY <1>1, <1>7, <3>1
    <3>3. e.ver \in 1..MaxChild /\ e.ver <= row.child
      BY <1>2, <2>1, <3>1, EventShape DEF Known, Stored
    <3> HIDE DEF e
    <3>4. /\ child'.inc = e.inc /\ child'.ver = e.ver
          /\ child' \in [inc : 1..MaxInc, ver : 1..MaxChild]
      BY <2>2, <3>2, <3>3
    <3>5. Incarnations' /\ Behind'
      BY <1>1, <2>1, <3>2, <3>3, <3>4 DEF ProjInv, Incarnations, Behind
    <3>6. \A b \in Actor : act[b].pc = "begin" /\ meta'.inc = act[b].inc =>
             meta'.ver <= act[b].snap.ver
      BY <3>2 DEF ProjInv, Beginning
    <3>7. \A b \in Actor : act'[b].pc \in {"child", "session"} =>
             act[b].pc \in {"child", "session"} /\ (Owns(b)' => Owns(b))
      BY <1>3, <1>4, <3>2 DEF Owns
    <3>8. meta' \in OpenMeta \cup Tombstone \cup {NoMeta} /\ meta'.token = meta.token
      BY <3>2, Shapes
    <3> QED
      BY <1>1, <1>3, <1>5, <2>1, <3>4, <3>5, <3>6, <3>7, <3>8, RedisStep
  <2> QED
    BY <2>3, <2>4
<1> QED
  BY <1>6, <1>7

\* A purge begins: its token is new to everybody.
LEMMA BeginPurgeKeeps ==
    ASSUME ProjInv, NEW j \in Job, BeginPurge(j)
    PROVE  ProjInv'
<1>1. /\ j \in Actor /\ act[j].pc = "begin" /\ act[j] \in Activity /\ Place(j) /\ Beginning(j)
      /\ UNCHANGED <<row, lastInc, outbox, lastToken, lock, child, drops>>
      /\ act[j].retire /\ act[j].inc >= 1 /\ j \notin Worker
  BY Shapes, ProjectionBounds DEF BeginPurge, StoreUnchanged, Actor, ProjInv, Place
<1>2. /\ act[j].inc \in Nat /\ act[j].inc \in 1..MaxInc /\ act[j].inc <= lastInc
      /\ meta.inc \in Nat /\ meta.inc <= lastInc /\ lastInc \in Nat
      /\ act[j].snap.ver \in 1..MaxVer
  BY <1>1, Shapes, ActivityShape, MetaShape, BoundsNat DEF ProjInv, Place, Incarnations, Beginning
<1>3. CASE meta.inc > act[j].inc
  <2> DEFINE r == [act[j] EXCEPT !.pc = "delete"]
  <2>1. act' = [act EXCEPT ![j] = r] /\ meta' = meta
    BY <1>3 DEF BeginPurge, GoTo, Become
  <2>2. /\ r.pc = "delete" /\ r.ev = act[j].ev /\ r.inc = act[j].inc /\ r.token = act[j].token
        /\ r.retire = act[j].retire /\ r.conn = act[j].conn /\ r.snap = act[j].snap
        /\ r \in Activity
    BY <1>1, Shapes DEF Activity
  <2> HIDE DEF r
  <2>3. act'[j] = r
    BY <1>1, <2>1, Shapes
  <2>4. ~act[j].conn
    BY <1>1, <1>2, <1>3, Shapes, RowShape DEF ProjInv, Place, Incarnations
  <2>5. Place(j)' /\ Retiring(j)'
    BY <1>1, <2>1, <2>2, <2>3, <2>4 DEF Place, Retiring
  <2>6. drops' \in 0..MaxDrops
    BY <1>1, Shapes
  <2> QED
    BY <1>1, <2>1, <2>2, <2>5, <2>6, ActorStep
<1>4. CASE ~(meta.inc > act[j].inc)
  <2> DEFINE r == [act[j] EXCEPT !.pc = "purge"]
  <2>1. /\ act' = [act EXCEPT ![j] = r]
        /\ meta' = [inc |-> act[j].inc, ver |-> act[j].snap.ver, retired |-> TRUE,
                    token |-> act[j].token, complete |-> FALSE]
    BY <1>4 DEF BeginPurge, GoTo, Become
  <2>2. /\ r.pc = "purge" /\ r.ev = act[j].ev /\ r.inc = act[j].inc /\ r.token = act[j].token
        /\ r.retire = act[j].retire /\ r.conn = act[j].conn /\ r.snap = act[j].snap
        /\ r \in Activity
    BY <1>1, Shapes DEF Activity
  <2> HIDE DEF r
  <2>3. act'[j] = r /\ \A b \in Actor \ {j} : act'[b] = act[b]
    BY <1>1, <2>1, Shapes
  <2>4. /\ meta'.inc = act[j].inc /\ meta'.ver = act[j].snap.ver /\ meta'.retired
        /\ meta'.token = act[j].token
    BY <2>1
  <2>5. \A b \in Actor \ {j} : act[b].token # act[j].token
    BY <1>1 DEF ProjInv, Tokens
  <2>6. meta' \in Tombstone
    <3>1. act[j].token \in 1..MaxPurge
      BY <1>1, Shapes, ActivityShape, BoundsNat DEF ProjInv, Tokens
    <3> QED
      BY <1>2, <2>1, <3>1 DEF Tombstone
  <2>7. \A b \in Actor : act'[b].pc \in {"child", "session"} => ~Owns(b)'
    BY <2>2, <2>3, <2>4, <2>5 DEF Owns
  <2>8. Incarnations'
    <3>1. ASSUME NEW i \in 1..lastInc, i # row.inc
          PROVE  meta'.inc > i \/ (meta'.inc = i /\ meta'.retired)
      <4>1. meta.inc > i \/ meta.inc = i
        BY <3>1 DEF ProjInv, Incarnations
      <4> QED
        BY <1>2, <1>4, <2>4, <4>1
    <3> QED
      BY <1>1, <1>2, <2>4, <3>1 DEF ProjInv, Incarnations
  <2>9. Behind'
    <3>1. row.inc = act[j].inc => row.status = "terminal" /\ row.ver = act[j].snap.ver
      BY <1>1 DEF Beginning
    <3>2. row.ver \in Nat
      BY Shapes, RowShape, BoundsNat
    <3> QED
      BY <1>1, <2>4, <3>1, <3>2 DEF ProjInv, Behind
  <2>10. Place(j)' /\ Retiring(j)'
    BY <1>1, <2>2, <2>3, <2>4, <2>7 DEF Place, Retiring
  <2>11. \A b \in Actor : act[b].pc = "begin" /\ meta'.inc = act[b].inc =>
            meta'.ver <= act[b].snap.ver
    <3>1. \A b \in Actor : act[b].pc = "begin" /\ act[b].inc = act[j].inc =>
             act[b].snap.ver = act[j].snap.ver
      BY <1>1 DEF Beginning
    <3> QED
      BY <1>2, <2>4, <3>1
  <2>12. ASSUME NEW b \in Actor, act[b].retire, act[b].conn, act[b].pc # "begin"
         PROVE  meta'.inc = meta.inc
    <3>1. meta.inc = act[b].inc /\ act[b].inc = row.inc /\ act[b].inc >= 1
      BY <2>12 DEF ProjInv, Place, Retiring
    <3>2. row.inc = lastInc
      BY <3>1 DEF ProjInv, Incarnations
    <3> QED
      BY <1>2, <1>4, <2>4, <3>1, <3>2
  <2>13. child' \in [inc : 1..MaxInc, ver : 1..MaxChild] \cup {NoChild}
    BY <1>1, Shapes
  <2> QED
    BY <1>1, <2>1, <2>2, <2>4, <2>6, <2>7, <2>8, <2>9, <2>10, <2>11, <2>12, <2>13, RedisStep
<1> QED
  BY <1>3, <1>4

\* A pass over the children deletes them, or finds none that is the purge's business.
LEMMA PurgeChildrenKeeps ==
    ASSUME ProjInv, NEW a \in Actor, PurgeChildren(a)
    PROVE  ProjInv'
<1>1. /\ act[a].pc = "purge" /\ act[a] \in Activity /\ Place(a) /\ Retiring(a)
      /\ UNCHANGED <<row, lastInc, outbox, lastToken, lock, meta, drops>>
  BY Shapes DEF PurgeChildren, StoreUnchanged, ProjInv
<1>2. CASE child # NoChild /\ child.inc <= act[a].inc
  <2>1. child' = NoChild /\ act' = act
    BY <1>2 DEF PurgeChildren
  <2>2. act' = [act EXCEPT ![a] = act[a]]
    BY <2>1, Shapes
  <2>3. \A b \in Actor : Owns(b)' <=> Owns(b)
    BY <1>1, <2>1 DEF Owns
  <2>4. Incarnations' /\ Behind'
    BY <1>1, <2>1 DEF ProjInv, Incarnations, Behind
  <2>5. Place(a)'
    BY <1>1, <2>1, <2>3 DEF Place
  <2>6. Retiring(a)'
    BY <1>1, <2>1, <2>3 DEF Retiring
  <2>7. /\ meta' \in OpenMeta \cup Tombstone \cup {NoMeta}
        /\ child' \in [inc : 1..MaxInc, ver : 1..MaxChild] \cup {NoChild}
    BY <1>1, <2>1, Shapes
  <2>8. \A b \in Actor : act[b].pc = "begin" /\ meta'.inc = act[b].inc =>
            meta'.ver <= act[b].snap.ver
    BY <1>1 DEF ProjInv, Beginning
  <2>9. \A b \in Actor : act[b].retire /\ act[b].conn /\ act[b].pc # "begin" => meta.retired
    BY DEF ProjInv, Retiring
  <2> QED
    BY <1>1, <2>1, <2>2, <2>3, <2>4, <2>5, <2>6, <2>7, <2>8, <2>9, RedisStep
<1>3. CASE ~(child # NoChild /\ child.inc <= act[a].inc)
  <2> DEFINE r == [act[a] EXCEPT !.pc = "complete"]
  <2>1. act' = [act EXCEPT ![a] = r] /\ child' = child
    BY <1>3 DEF PurgeChildren, GoTo, Become
  <2>2. /\ r.pc = "complete" /\ r.ev = act[a].ev /\ r.inc = act[a].inc /\ r.token = act[a].token
        /\ r.retire = act[a].retire /\ r.conn = act[a].conn /\ r.snap = act[a].snap
        /\ r \in Activity
    BY <1>1, GoToShape
  <2> HIDE DEF r
  <2>3. act'[a] = r /\ \A b \in Actor \ {a} : act'[b] = act[b]
    BY <1>1, <2>1, Shapes
  <2>4. Place(a)'
    BY <1>1, <2>1, <2>2, <2>3 DEF Place
  <2>5. Retiring(a)'
    <3>1. SUFFICES ASSUME act[a].retire, act[a].conn PROVE Retiring(a)'
      BY <2>2, <2>3 DEF Retiring
    <3>2. /\ meta.retired /\ meta.inc = act[a].inc
          /\ \A b \in Actor : act[b].pc \in {"child", "session"} => ~Owns(b)
      BY <1>1, <3>1 DEF Retiring
    <3>3. child = NoChild
      <4>1. act[a].inc = row.inc
        BY <1>1, <3>1 DEF Place
      <4>2. child # NoChild => child.inc = row.inc
        BY DEF ProjInv, Behind
      <4>3. act[a].inc \in Nat
        BY <1>1, ActivityShape, BoundsNat
      <4> QED
        BY <1>3, <4>1, <4>2, <4>3
    <3>4. \A b \in Actor : act'[b].pc \in {"child", "session"} => ~Owns(b)'
      BY <1>1, <2>2, <2>3, <3>2 DEF Owns
    <3> QED
      BY <1>1, <2>1, <2>2, <2>3, <3>2, <3>3, <3>4 DEF Retiring
  <2>6. drops' \in 0..MaxDrops
    BY <1>1, Shapes
  <2> QED
    BY <1>1, <2>1, <2>2, <2>4, <2>5, <2>6, ActorStep
<1> QED
  BY <1>2, <1>3

\* The purge is complete.
LEMMA CompletePurgeKeeps ==
    ASSUME ProjInv, NEW a \in Actor, CompletePurge(a)
    PROVE  ProjInv'
<1> DEFINE pc == IF act[a].retire THEN "delete" ELSE IF Owns(a) THEN "snapshot" ELSE "commit"
<1> DEFINE r == [act[a] EXCEPT !.pc = pc]
<1>1. /\ act[a].pc = "complete" /\ act[a] \in Activity /\ Place(a) /\ Retiring(a)
      /\ UNCHANGED <<row, lastInc, outbox, lastToken, lock, child, drops>>
      /\ act' = [act EXCEPT ![a] = r]
      /\ meta' = IF Owns(a) THEN [meta EXCEPT !.complete = TRUE] ELSE meta
  BY Shapes DEF CompletePurge, StoreUnchanged, ProjInv, GoTo, Become
<1>2. /\ pc \in {"delete", "snapshot", "commit"} /\ (act[a].retire <=> pc = "delete")
  BY <1>1, ActivityShape
<1> HIDE DEF pc
<1>3. /\ r.pc = pc /\ r.ev = act[a].ev /\ r.inc = act[a].inc /\ r.token = act[a].token
      /\ r.retire = act[a].retire /\ r.conn = act[a].conn /\ r.snap = act[a].snap
      /\ r \in Activity
  BY <1>1, <1>2, GoToShape
<1> HIDE DEF r
<1>4. act'[a] = r /\ \A b \in Actor \ {a} : act'[b] = act[b]
  BY <1>1, Shapes
<1>5. /\ meta' \in OpenMeta \cup Tombstone \cup {NoMeta} /\ meta'.inc = meta.inc
      /\ meta'.ver = meta.ver /\ meta'.retired = meta.retired /\ meta'.token = meta.token
  <2>1. CASE Owns(a)
    <3>1. meta \in Tombstone
      BY <2>1, Shapes, MetaShape DEF Owns
    <3>2. meta' = [meta EXCEPT !.complete = TRUE]
      BY <1>1, <2>1
    <3> QED
      BY <3>1, <3>2 DEF Tombstone
  <2>2. CASE ~Owns(a)
    BY <1>1, <2>2, Shapes
  <2> QED
    BY <2>1, <2>2
<1>6. Place(a)'
  BY <1>1, <1>2, <1>3, <1>4 DEF Place
<1>7. Retiring(a)'
  <2>1. \A b \in Actor : act'[b].pc \in {"child", "session"} =>
           act[b].pc \in {"child", "session"} /\ (Owns(b)' => Owns(b))
    BY <1>2, <1>3, <1>4, <1>5 DEF Owns
  <2> QED
    BY <1>1, <1>2, <1>3, <1>4, <1>5, <2>1 DEF Retiring
<1>8. drops' \in 0..MaxDrops /\ outbox' \in [Event -> OutboxRow]
      /\ \A e \in Event : InFlight(e)' => InFlight(e)
  BY <1>1, <1>3, <1>4, Shapes DEF InFlight
<1> QED
  BY <1>1, <1>2, <1>3, <1>5, <1>6, <1>7, <1>8, DeliveryStep

\* The children are written back, while the tombstone is still the restorer's own.
LEMMA RestoreChildKeeps ==
    ASSUME ProjInv, NEW a \in Actor, RestoreChild(a)
    PROVE  ProjInv'
<1> DEFINE r == [act[a] EXCEPT !.pc = "session"]
<1>1. /\ act[a].pc = "child" /\ act[a] \in Activity /\ Place(a)
      /\ UNCHANGED <<row, lastInc, outbox, lastToken, lock, meta, drops>>
      /\ act' = [act EXCEPT ![a] = r]
  BY Shapes DEF RestoreChild, StoreUnchanged, ProjInv, GoTo, Become
<1>2. \/ child' = child
      \/ /\ child' = [inc |-> act[a].inc, ver |-> act[a].snap.child] /\ act[a].snap.child > 0
         /\ Owns(a)
  BY DEF RestoreChild
<1>3. /\ r.pc = "session" /\ r.ev = act[a].ev /\ r.inc = act[a].inc /\ r.token = act[a].token
      /\ r.retire = act[a].retire /\ r.conn = act[a].conn /\ r.snap = act[a].snap
      /\ r \in Activity
  BY <1>1, GoToShape
<1> HIDE DEF r
<1>4. act'[a] = r /\ \A b \in Actor \ {a} : act'[b] = act[b]
  BY <1>1, Shapes
<1>5. \A b \in Actor : Owns(b)' <=> Owns(b)
  BY <1>1, <1>3, <1>4 DEF Owns
<1>6. Place(a)'
  BY <1>1, <1>3, <1>4, <1>5 DEF Place
<1>7. ~act[a].retire
  BY <1>1 DEF Place
<1>8. /\ meta' \in OpenMeta \cup Tombstone \cup {NoMeta}
      /\ child' \in [inc : 1..MaxInc, ver : 1..MaxChild] \cup {NoChild} /\ Behind'
  <2>1. CASE child' = child
    BY <1>1, <2>1, Shapes DEF ProjInv, Behind
  <2>2. CASE /\ child' = [inc |-> act[a].inc, ver |-> act[a].snap.child]
             /\ act[a].snap.child > 0 /\ Owns(a)
    <3>1. /\ act[a].inc \in 1..MaxInc /\ act[a].snap.child \in 1..MaxChild
          /\ act[a].inc = row.inc /\ act[a].snap.child = row.child /\ row.child \in Nat
      BY <1>1, <2>2, ActivityShape, BoundsNat DEF Place
    <3>2. child'.inc = row.inc /\ child'.ver = row.child
      BY <2>2, <3>1
    <3> QED
      BY <1>1, <2>2, <3>1, <3>2, Shapes DEF ProjInv, Behind
  <2> QED
    BY <1>2, <2>1, <2>2
<1>9. Incarnations'
  BY <1>1 DEF ProjInv, Incarnations
<1>10. \A b \in Actor : act[b].retire /\ act[b].conn /\ act[b].pc # "begin" =>
          meta'.retired /\ meta'.inc = meta.inc /\ (child' = child \/ child' = NoChild)
  BY <1>1, <1>2 DEF ProjInv, Retiring
<1>11. \A b \in Actor : act[b].pc = "begin" /\ meta'.inc = act[b].inc =>
          meta'.ver <= act[b].snap.ver
  BY <1>1 DEF ProjInv, Beginning
<1>12. Retiring(a)'
  BY <1>3, <1>4, <1>7 DEF Retiring
<1>13. \A b \in Actor : act'[b].pc \in {"child", "session"} /\ Owns(b)' =>
          act[b].pc \in {"child", "session"} /\ Owns(b)
  BY <1>1, <1>4, <1>5
<1> QED
  BY <1>1, <1>3, <1>6, <1>8, <1>9, <1>10, <1>11, <1>12, <1>13, RedisStep

\* The session is written back and its lifetime reopened.
LEMMA RestoreSessionKeeps ==
    ASSUME ProjInv, NEW a \in Actor, RestoreSession(a)
    PROVE  ProjInv'
<1> DEFINE r == [act[a] EXCEPT !.pc = "commit"]
<1>1. /\ act[a].pc = "session" /\ act[a] \in Activity /\ Place(a)
      /\ UNCHANGED <<row, lastInc, outbox, lastToken, lock, child, drops>>
      /\ act' = [act EXCEPT ![a] = r]
      /\ meta' = IF Owns(a) /\ meta.complete
                 THEN [meta EXCEPT !.ver = act[a].snap.ver, !.retired = FALSE, !.token = 0]
                 ELSE meta
  BY Shapes DEF RestoreSession, StoreUnchanged, ProjInv, GoTo, Become
<1>2. /\ r.pc = "commit" /\ r.ev = act[a].ev /\ r.inc = act[a].inc /\ r.token = act[a].token
      /\ r.retire = act[a].retire /\ r.conn = act[a].conn /\ r.snap = act[a].snap
      /\ r \in Activity
  BY <1>1, GoToShape
<1> HIDE DEF r
<1>3. act'[a] = r /\ (\A b \in Actor \ {a} : act'[b] = act[b]) /\ ~act[a].retire
  BY <1>1, Shapes DEF Place
<1>4. Place(a)' /\ Retiring(a)'
  BY <1>1, <1>2, <1>3 DEF Place, Retiring
<1>5. CASE ~(Owns(a) /\ meta.complete)
  <2>1. UNCHANGED <<row, lastInc, outbox, meta, child, lastToken>> /\ drops' \in 0..MaxDrops
    BY <1>1, <1>5, Shapes
  <2> QED
    BY <1>1, <1>2, <1>4, <2>1, ActorStep
<1>6. CASE Owns(a) /\ meta.complete
  <2>1. meta' = [meta EXCEPT !.ver = act[a].snap.ver, !.retired = FALSE, !.token = 0]
    BY <1>1, <1>6
  <2>2. /\ meta \in Tombstone /\ meta.inc = row.inc /\ act[a].snap.ver = row.ver
        /\ act[a].snap.ver \in 1..MaxVer /\ row.ver \in Nat
    BY <1>1, <1>6, Shapes, MetaShape, RowShape, ActivityShape, BoundsNat DEF Owns, Place
  <2>3. /\ meta'.inc = meta.inc /\ meta'.ver = row.ver /\ ~meta'.retired /\ meta'.token = 0
        /\ meta' \in OpenMeta
    BY <2>1, <2>2, BoundsNat DEF Tombstone, OpenMeta
  <2>4. meta.inc >= 1 /\ lastInc \in Nat /\ row.inc = lastInc
    BY <2>2, Shapes, BoundsNat DEF Tombstone, ProjInv, Incarnations
  <2>5. Incarnations'
    BY <1>1, <2>2, <2>3, <2>4 DEF Incarnations
  <2>6. Behind'
    BY <1>1, <2>2, <2>3 DEF ProjInv, Behind
  <2>7. \A b \in Actor : ~Owns(b)'
    BY <2>3 DEF Owns
  <2>8. \A b \in Actor : act[b].pc = "begin" /\ meta'.inc = act[b].inc =>
           meta'.ver <= act[b].snap.ver
    BY <2>2, <2>3 DEF ProjInv, Beginning
  <2>9. \A b \in Actor : ~(act[b].retire /\ act[b].conn /\ act[b].pc # "begin")
    BY <1>1, <1>6 DEF ProjInv, Retiring
  <2>10. child' \in [inc : 1..MaxInc, ver : 1..MaxChild] \cup {NoChild}
    BY <1>1, Shapes
  <2> QED
    BY <1>1, <1>2, <1>4, <2>3, <2>5, <2>6, <2>7, <2>8, <2>9, <2>10, RedisStep
<1> QED
  BY <1>5, <1>6

-----------------------------------------------------------------------------
(***************************************************************************)
(* The theorems.                                                           *)
(***************************************************************************)

LEMMA ProjInit == Init => ProjInv
<1> SUFFICES ASSUME Init PROVE ProjInv
  OBVIOUS
<1>1. /\ row = NoRow /\ lastInc = 0 /\ lock = None /\ outbox = [e \in Event |-> NotQueued]
      /\ meta = NoMeta /\ child = NoChild /\ lastToken = 0 /\ drops = 0
      /\ act = [a \in Actor |-> Idle]
  BY DEF Init
<1>2. NoRow.inc = 0 /\ NoMeta.inc = 0 /\ NoMeta.token = 0 /\ ~NoMeta.retired
  BY DEF NoRow, NoMeta
<1>3. \A a \in Actor : act[a] = Idle
  BY <1>1
<1>4. NotQueued \in OutboxRow /\ NotQueued.state = "none"
  BY DEF NotQueued, OutboxRow
<1>5. ProjectionTypeOK
  BY <1>1, <1>4, IdleShape, BoundsNat DEF ProjectionTypeOK
<1>6. Incarnations /\ Behind
  BY <1>1, <1>2 DEF Incarnations, Behind
<1>7. \A e \in Event : ~InFlight(e)
  BY <1>1, <1>3, <1>4, IdleShape, NoEventIsNone DEF InFlight
<1>8. EventsKnown
  BY <1>7 DEF EventsKnown
<1>9. Tokens
  BY <1>1, <1>2, <1>3, IdleShape DEF Tokens
<1>10. ASSUME NEW a \in Actor PROVE Place(a) /\ Beginning(a) /\ Retiring(a)
  BY <1>1, <1>2, <1>3, IdleShape DEF Place, Beginning, Retiring
<1> QED
  BY <1>5, <1>6, <1>8, <1>9, <1>10 DEF ProjInv

LEMMA ProjStep ==
    ASSUME ProjInv, [Next]_vars
    PROVE  ProjInv'
<1>1. CASE DatabaseStep
  BY <1>1, CreateSessionKeeps, WriteChildKeeps, WriteSessionKeeps, OutboxKeeps DEF DatabaseStep
<1>2. ASSUME NEW w \in Worker, WorkerStep(w) PROVE ProjInv'
  <2>1. w \in Actor
    BY DEF Actor
  <2> QED
    BY <1>2, <2>1, ClaimEventKeeps, ApplyPendingKeeps, ApplyKeeps, ApplyFailsKeeps,
       MarkEventKeeps, ReadTokenKeeps DEF WorkerStep
<1>3. ASSUME NEW j \in Job, JobStep(j) PROVE ProjInv'
  <2>1. j \in Actor
    BY DEF Actor
  <2> QED
    BY <1>3, <2>1, BeginRetentionKeeps, BeginPurgeKeeps, RetentionFailsKeeps, DeleteSessionKeeps
       DEF JobStep
<1>4. ASSUME NEW a \in Actor, RestoreStep(a) \/ ConnectionLost(a) \/ Crash(a) PROVE ProjInv'
  BY <1>4, LockForRestoreKeeps, ResumePurgeKeeps, PurgeChildrenKeeps, CompletePurgeKeeps,
     ReadSnapshotKeeps, RestoreChildKeeps, RestoreSessionKeeps, CommitRestoreKeeps,
     RestoreFailsKeeps, ConnectionLostKeeps, CrashKeeps DEF RestoreStep
<1>5. CASE UNCHANGED vars
  <2>1. \A b \in Actor : Owns(b)' <=> Owns(b)
    BY <1>5 DEF vars, Owns
  <2>2. \A e \in Event : (InFlight(e)' <=> InFlight(e)) /\ (Known(e)' <=> Known(e))
    BY <1>5 DEF vars, InFlight, Known, Stored
  <2>3. ProjectionTypeOK' /\ Incarnations' /\ Behind' /\ EventsKnown' /\ Tokens'
    BY <1>5, <2>2
       DEF vars, ProjInv, ProjectionTypeOK, Incarnations, Behind, EventsKnown, Tokens
  <2>4. ASSUME NEW b \in Actor PROVE Place(b)' /\ Beginning(b)' /\ Retiring(b)'
    <3>1. Place(b) /\ Beginning(b) /\ Retiring(b)
      BY DEF ProjInv
    <3>2. Place(b)'
      BY <1>5, <2>1, <3>1 DEF vars, Place
    <3>3. Beginning(b)'
      BY <1>5, <2>2, <3>1 DEF vars, Beginning
    <3>4. Retiring(b)'
      BY <1>5, <2>1, <3>1 DEF vars, Retiring
    <3> QED
      BY <3>2, <3>3, <3>4
  <2> QED
    BY <2>3, <2>4 DEF ProjInv
<1> QED
  BY <1>1, <1>2, <1>3, <1>4, <1>5 DEF Next

\* The invariant of the projection: incarnations, events, tokens and what every delivery
\* and job may assume at its position.
THEOREM ProjectionInvariant == Spec => []ProjInv
<1>1. ProjInv /\ [Next]_vars => ProjInv'
  BY ProjStep
<1> QED
  BY <1>1, ProjInit, PTL DEF Spec

\* The session row, the outbox, the Redis records, the deliveries and the jobs stay within
\* their types.
THEOREM ProjectionTypes == Spec => []ProjectionTypeOK
<1>1. ProjInv => ProjectionTypeOK
  BY DEF ProjInv
<1> QED
  BY <1>1, ProjectionInvariant, PTL

\* Redis holds the session or its child only while PostgreSQL holds that incarnation,
\* whatever applies, purges and restores were under way when it was deleted.
THEOREM DeletedIsPurged == Spec => []DeletedStaysPurged
<1>1. ASSUME ProjInv PROVE DeletedStaysPurged
  <2>1. ASSUME meta # NoMeta, ~meta.retired PROVE row.inc = meta.inc
    <3>1. meta.inc \in 1..lastInc
      BY <1>1, <2>1, Shapes, MetaShape, BoundsNat DEF ProjInv, Incarnations
    <3> QED
      BY <1>1, <2>1, <3>1 DEF ProjInv, Incarnations
  <2>2. child # NoChild => row.inc = child.inc
    BY <1>1 DEF ProjInv, Behind
  <2> QED
    BY <2>1, <2>2 DEF DeletedStaysPurged
<1> QED
  BY <1>1, ProjectionInvariant, PTL

\* What NeverGoesBack says of one step.
NotBack ==
    /\ meta'.inc > meta.inc \/ (meta'.inc = meta.inc /\ meta'.ver >= meta.ver)
    /\ child # NoChild /\ child' # NoChild =>
          child'.inc > child.inc \/ (child'.inc = child.inc /\ child'.ver >= child.ver)

LEMMA ScriptNotBack ==
    ASSUME ProjInv, NEW a \in Actor,
           \/ a \in Worker /\ Apply(a)
           \/ a \in Job /\ BeginPurge(a)
           \/ PurgeChildren(a) \/ CompletePurge(a) \/ RestoreChild(a) \/ RestoreSession(a)
    PROVE  NotBack
<1>1. /\ meta.inc \in Nat /\ meta.ver \in Nat /\ child.inc \in Nat /\ child.ver \in Nat
      /\ act[a] \in Activity /\ Place(a) /\ Beginning(a)
      /\ meta \in OpenMeta \cup Tombstone \cup {NoMeta}
  BY Shapes, MetaShape, ChildShape, BoundsNat DEF ProjInv
<1>2. CASE a \in Worker /\ Apply(a)
  <2> DEFINE e == act[a].ev
  <2>1. e \in Event /\ e.inc \in Nat /\ e.ver \in Nat
    <3>1. act[a].pc = "apply"
      BY <1>2 DEF Apply
    <3>2. e \in Event
      BY <1>1, <1>2, <3>1 DEF Place
    <3> QED
      BY <3>2, EventShape, BoundsNat
  <2>2. \/ meta' = meta
        \/ /\ meta' = [NoMeta EXCEPT !.inc = e.inc, !.ver = e.ver]
           /\ e.agg = "session" /\ ~Superseded(e)
    BY <1>2 DEF Apply, RedisUnchanged
  <2>3. \/ child' = child
        \/ /\ child' = [inc |-> e.inc, ver |-> e.ver] /\ e.agg = "child" /\ ~Superseded(e)
    BY <1>2 DEF Apply, RedisUnchanged
  <2> HIDE DEF e
  <2>4. meta'.inc > meta.inc \/ (meta'.inc = meta.inc /\ meta'.ver >= meta.ver)
    <3>1. CASE meta' = meta
      BY <1>1, <3>1
    <3>2. CASE /\ meta' = [NoMeta EXCEPT !.inc = e.inc, !.ver = e.ver]
               /\ e.agg = "session" /\ ~Superseded(e)
      <4>1. meta'.inc = e.inc /\ meta'.ver = e.ver
        BY <3>2 DEF NoMeta
      <4>2. ~(meta.inc > e.inc) /\ ~(meta.inc = e.inc /\ meta.ver >= e.ver)
        BY <3>2 DEF Superseded
      <4> QED
        BY <1>1, <2>1, <4>1, <4>2
    <3> QED
      BY <2>2, <3>1, <3>2
  <2>5. child'.inc > child.inc \/ (child'.inc = child.inc /\ child'.ver >= child.ver)
    <3>1. CASE child' = child
      BY <1>1, <3>1
    <3>2. CASE child' = [inc |-> e.inc, ver |-> e.ver] /\ e.agg = "child" /\ ~Superseded(e)
      <4>1. child'.inc = e.inc /\ child'.ver = e.ver
        BY <3>2
      <4>2. ~(child.inc > e.inc) /\ ~(child.inc = e.inc /\ child.ver >= e.ver)
        BY <3>2 DEF Superseded
      <4> QED
        BY <1>1, <2>1, <4>1, <4>2
    <3> QED
      BY <2>3, <3>1, <3>2
  <2> QED
    BY <2>4, <2>5 DEF NotBack
<1>3. CASE a \in Job /\ BeginPurge(a)
  <2>1. act[a].pc = "begin" /\ child' = child
    BY <1>3 DEF BeginPurge
  <2>2. CASE meta' = meta
    BY <1>1, <2>1, <2>2 DEF NotBack
  <2>3. CASE meta' # meta
    <3>1. ~(meta.inc > act[a].inc) /\ meta'.inc = act[a].inc /\ meta'.ver = act[a].snap.ver
      BY <1>3, <2>3 DEF BeginPurge
    <3>2. meta.inc = act[a].inc => meta.ver <= act[a].snap.ver
      BY <1>1, <2>1 DEF Beginning
    <3>3. act[a].inc \in Nat /\ act[a].snap.ver \in Nat
      BY <1>1, ActivityShape, BoundsNat
    <3> QED
      BY <1>1, <2>1, <3>1, <3>2, <3>3 DEF NotBack
  <2> QED
    BY <2>2, <2>3
<1>4. CASE PurgeChildren(a)
  BY <1>1, <1>4 DEF PurgeChildren, NotBack
<1>5. CASE CompletePurge(a)
  <2>1. child' = child /\ (meta' = meta \/ (Owns(a) /\ meta' = [meta EXCEPT !.complete = TRUE]))
    BY <1>5 DEF CompletePurge
  <2>2. Owns(a) => meta \in Tombstone
    BY <1>1, MetaShape DEF Owns
  <2>3. meta'.inc = meta.inc /\ meta'.ver = meta.ver
    BY <2>1, <2>2 DEF Tombstone
  <2> QED
    BY <1>1, <2>1, <2>3 DEF NotBack
<1>6. CASE RestoreChild(a)
  <2>1. /\ meta' = meta
        /\ \/ child' = child
           \/ /\ child' = [inc |-> act[a].inc, ver |-> act[a].snap.child]
              /\ ~(\/ child.inc > act[a].inc
                   \/ child.inc = act[a].inc /\ child.ver >= act[a].snap.child)
    BY <1>6 DEF RestoreChild
  <2>2. act[a].inc \in Nat /\ act[a].snap.child \in Nat
    BY <1>1, ActivityShape, BoundsNat
  <2> QED
    BY <1>1, <2>1, <2>2 DEF NotBack
<1>7. CASE RestoreSession(a)
  <2>1. /\ child' = child /\ act[a].pc = "session"
        /\ \/ meta' = meta
           \/ /\ meta' = [meta EXCEPT !.ver = act[a].snap.ver, !.retired = FALSE, !.token = 0]
              /\ Owns(a)
    BY <1>7 DEF RestoreSession
  <2>2. CASE meta' = meta
    BY <1>1, <2>1, <2>2 DEF NotBack
  <2>3. CASE /\ meta' = [meta EXCEPT !.ver = act[a].snap.ver, !.retired = FALSE, !.token = 0]
             /\ Owns(a)
    <3>1. meta \in Tombstone /\ meta.inc = row.inc /\ act[a].snap.ver = row.ver /\ row.inc # 0
      BY <1>1, <2>1, <2>3, MetaShape DEF Owns, Place
    <3>2. meta.ver <= row.ver /\ row.ver \in Nat
      BY <3>1, Shapes, RowShape, BoundsNat DEF ProjInv, Behind
    <3>3. meta'.inc = meta.inc /\ meta'.ver = row.ver
      BY <2>3, <3>1 DEF Tombstone
    <3> QED
      BY <1>1, <2>1, <3>2, <3>3 DEF NotBack
  <2> QED
    BY <2>1, <2>2, <2>3
<1> QED
  BY <1>2, <1>3, <1>4, <1>5, <1>6, <1>7

LEMMA StepNotBack ==
    ASSUME ProjInv, [Next]_vars
    PROVE  NotBack
<1>1. ASSUME meta' = meta, child' = child PROVE NotBack
  <2>1. meta.inc \in Nat /\ meta.ver \in Nat /\ child.inc \in Nat /\ child.ver \in Nat
    BY Shapes, MetaShape, ChildShape, BoundsNat
  <2> QED
    BY <1>1, <2>1 DEF NotBack
<1>2. CASE DatabaseStep
  BY <1>1, <1>2 DEF DatabaseStep, CreateSession, WriteChild, WriteSession, ClaimExpires, AgeOut
<1>3. ASSUME NEW w \in Worker, WorkerStep(w) PROVE NotBack
  <2>1. w \in Actor
    BY DEF Actor
  <2>2. CASE Apply(w)
    BY <2>1, <2>2, ScriptNotBack
  <2>3. CASE ~Apply(w)
    BY <1>1, <1>3, <2>3
       DEF WorkerStep, ClaimEvent, ApplyFails, MarkEvent, ReadToken, RedisUnchanged
  <2> QED
    BY <2>2, <2>3
<1>4. ASSUME NEW j \in Job, JobStep(j) PROVE NotBack
  <2>1. j \in Actor
    BY DEF Actor
  <2>2. CASE BeginPurge(j)
    BY <2>1, <2>2, ScriptNotBack
  <2>3. CASE ~BeginPurge(j)
    BY <1>1, <1>4, <2>3
       DEF JobStep, BeginRetention, RetentionFails, DeleteSession, RedisUnchanged
  <2> QED
    BY <2>2, <2>3
<1>5. ASSUME NEW a \in Actor, RestoreStep(a) \/ ConnectionLost(a) \/ Crash(a) PROVE NotBack
  <2>1. CASE PurgeChildren(a) \/ CompletePurge(a) \/ RestoreChild(a) \/ RestoreSession(a)
    BY <2>1, ScriptNotBack
  <2>2. CASE ~(PurgeChildren(a) \/ CompletePurge(a) \/ RestoreChild(a) \/ RestoreSession(a))
    BY <1>1, <1>5, <2>2
       DEF RestoreStep, LockForRestore, ResumePurge, ReadSnapshot, CommitRestore, RestoreFails,
           ConnectionLost, Crash, RedisUnchanged
  <2> QED
    BY <2>1, <2>2
<1>6. CASE UNCHANGED vars
  BY <1>1, <1>6 DEF vars
<1> QED
  BY <1>2, <1>3, <1>4, <1>5, <1>6 DEF Next

\* The cached session and the cached child never go back to an earlier version or
\* incarnation, in whatever order events, purges and restores reach Redis.
THEOREM CacheNeverGoesBack == Spec => NeverGoesBack
<1>1. ProjInv /\ [Next]_vars => [NotBack]_vars
  BY StepNotBack
<1>2. NeverGoesBack <=> [][NotBack]_vars
  BY DEF NeverGoesBack, NotBack
<1> QED
  BY <1>1, <1>2, ProjectionInvariant, PTL DEF Spec

-----------------------------------------------------------------------------
(***************************************************************************)
(* As long as no connection is lost, what is delivered is in the cache.    *)
(***************************************************************************)

\* Whoever works under the lock is alone, and works on the incarnation that is there.
LEMMA WorksAlone ==
    ASSUME ProjInv, Full, NEW a \in Actor, act[a].pc \in AtWork
    PROVE  /\ lock = a /\ act[a].conn /\ act[a].inc = row.inc /\ row.inc = lastInc /\ row # NoRow
           /\ row.inc >= 1 /\ \A b \in Actor : act[b].pc \in AtWork => b = a
<1>1. \A b \in Actor : act[b].pc \in AtWork => act[b].conn /\ lock = b
  BY DEF Full, Undisturbed, ProjInv, Place
<1>2. act[a].inc = row.inc /\ row.inc >= 1
  BY <1>1 DEF ProjInv, Place
<1>3. row # NoRow /\ row.inc = lastInc
  BY <1>2, Shapes, RowShape DEF ProjInv, Incarnations
<1> QED
  BY <1>1, <1>2, <1>3

\* So the others are not disturbed by its steps, nor by steps that leave Redis alone.
LEMMA OthersUndisturbed ==
    ASSUME ProjInv, Full, NEW a \in Actor, \A b \in Actor \ {a} : act'[b] = act[b],
           lock = a \/ lock = None \/ UNCHANGED <<row, meta, child>>
    PROVE  \A b \in Actor \ {a} : Undisturbed(b)'
<1> SUFFICES ASSUME NEW b \in Actor \ {a} PROVE Undisturbed(b)'
  OBVIOUS
<1>1. Undisturbed(b) /\ act'[b] = act[b]
  BY DEF Full
<1>2. CASE lock = a \/ lock = None
  <2>1. act[b].pc \notin AtWork
    BY <1>2, WorksAlone, Shapes
  <2> QED
    BY <1>1, <2>1 DEF Undisturbed, AtWork
<1>3. CASE UNCHANGED <<row, meta, child>>
  <2>1. Owns(b)' <=> Owns(b)
    BY <1>1, <1>3 DEF Owns
  <2> QED
    BY <1>1, <1>3, <2>1 DEF Undisturbed
<1> QED
  BY <1>2, <1>3

\* A step of one actor keeps what is settled in the cache.
LEMMA FullStep ==
    ASSUME ProjInv, Full, NEW a \in Actor, NEW r, act' = [act EXCEPT ![a] = r], row' = row,
           Undisturbed(a)', \A b \in Actor \ {a} : Undisturbed(b)',
           \A e \in Event : e.inc = row.inc /\ outbox'[e].state # "queued" =>
               outbox[e].state # "queued" \/ InCache(e),
           \A e \in Event : e.inc = row.inc /\ e.ver <= Stored(e) /\ InCache(e) => InCache(e)',
           r.pc = "mark" => \E e \in Event : e = r.ev /\ (e.inc = row.inc => InCache(e)')
    PROVE  Full'
<1>1. act'[a] = r /\ \A b \in Actor \ {a} : act'[b] = act[b]
  BY Shapes
<1>2. ASSUME NEW e \in Event, row' # NoRow, e.inc = row'.inc, e.ver = Stored(e)',
             outbox'[e].state # "queued"
      PROVE  InCache(e)'
  <2>1. e.ver = Stored(e) /\ e.ver \in Nat
    BY <1>2, EventShape DEF Stored
  <2>2. InCache(e)
    BY <1>2, <2>1 DEF Full, Settled
  <2> QED
    BY <1>2, <2>1, <2>2
<1>3. ASSUME NEW w \in Worker, act'[w].pc = "mark", act'[w].ev.inc = row'.inc
      PROVE  InCache(act[w].ev)'
  <2>1. w \in Actor
    BY DEF Actor
  <2>2. CASE w = a
    <3>1. PICK e \in Event : e = act'[w].ev /\ (e.inc = row.inc => InCache(e)')
      BY <1>1, <1>3, <2>2
    <3> QED
      BY <1>3, <3>1 DEF InCache
  <2>3. CASE w # a
    <3>1. act'[w] = act[w]
      BY <1>1, <2>1, <2>3
    <3>2. act[w].ev \in Event /\ Known(act[w].ev) /\ InCache(act[w].ev)
      BY <1>3, <2>1, <3>1 DEF ProjInv, Place, EventsKnown, InFlight, Full, Settled
    <3>3. PICK e \in Event : e = act[w].ev
      BY <3>2
    <3>4. InCache(e)'
      BY <1>3, <3>1, <3>2, <3>3 DEF Known
    <3> QED
      BY <3>1, <3>3, <3>4 DEF InCache
  <2> QED
    BY <2>2, <2>3
<1>4. Settled'
  BY <1>2, <1>3 DEF Settled
<1> QED
  BY <1>1, <1>4 DEF Full

\* The same for a step that changes neither the database nor Redis, of an actor that does
\* not come to mark its event.
LEMMA QuietFull ==
    ASSUME ProjInv, Full, NEW a \in Actor, NEW r, act' = [act EXCEPT ![a] = r],
           UNCHANGED <<row, outbox, meta, child>>, Undisturbed(a)',
           r.pc = "mark" => r.ev \in Event /\ (r.ev.inc = row.inc => InCache(r.ev))
    PROVE  Full'
<1>1. \A b \in Actor \ {a} : Undisturbed(b)'
  <2>1. \A b \in Actor \ {a} : act'[b] = act[b]
    BY Shapes
  <2> QED
    BY <2>1, OthersUndisturbed
<1>2. \A e \in Event : InCache(e)' <=> InCache(e)
  BY DEF InCache
<1>3. r.pc = "mark" => \E e \in Event : e = r.ev /\ (e.inc = row.inc => InCache(e)')
  BY <1>2
<1> QED
  BY <1>1, <1>2, <1>3, FullStep

\* An actor that stops working is undisturbed.
LEMMA LeavesFull ==
    ASSUME ProjInv, Full, NEW a \in Actor, NEW r, act' = [act EXCEPT ![a] = r],
           UNCHANGED <<row, outbox, meta, child>>, r.pc \notin AtWork,
           r.pc = "mark" => r.ev \in Event /\ r.ev.inc # row.inc
    PROVE  Full'
<1>1. act'[a] = r
  BY Shapes
<1>2. Undisturbed(a)'
  BY <1>1 DEF Undisturbed, AtWork
<1> QED
  BY <1>2, QuietFull

LEMMA LeavingShape ==
    ASSUME ProjInv, NEW a \in Actor, act[a].pc # "idle"
    PROVE  /\ Restored(a, FALSE).pc \in {"idle", "apply"}
           /\ Restored(a, TRUE).pc \in {"idle", "mark"}
           /\ Restored(a, TRUE).pc = "mark" =>
                 a \notin Job /\ Restored(a, TRUE).ev = act[a].ev /\ act[a].ev \in Event
           /\ RestoreFailed(a).pc \in {"idle", "unclaim"}
<1>1. CASE a \in Job
  BY <1>1, IdleShape DEF Restored, RestoreFailed
<1>2. CASE a \notin Job
  <2>1. a \in Worker /\ act[a].ev \in Event
    BY <1>2 DEF Actor, ProjInv, Place
  <2>2. /\ Restored(a, FALSE) = [Idle EXCEPT !.ev = act[a].ev, !.again = TRUE, !.pc = "apply"]
        /\ Restored(a, TRUE) = [Idle EXCEPT !.ev = act[a].ev, !.again = TRUE, !.pc = "mark"]
        /\ RestoreFailed(a) = [Idle EXCEPT !.ev = act[a].ev, !.pc = "unclaim"]
    BY <1>2 DEF Restored, RestoreFailed
  <2>3. /\ Restored(a, FALSE).pc = "apply" /\ Restored(a, TRUE).pc = "mark"
        /\ Restored(a, TRUE).ev = act[a].ev /\ RestoreFailed(a).pc = "unclaim"
    BY <2>2 DEF Idle
  <2> QED
    BY <1>2, <2>1, <2>3
<1> QED
  BY <1>1, <1>2

\* The steps that only move an actor.
LEMMA QuietStepsFull ==
    ASSUME ProjInv, Full, NEW a \in Actor,
           \/ RestoreFails(a) \/ CommitRestore(a) \/ Crash(a) \/ ApplyFails(a)
           \/ RetentionFails(a) \/ ReadSnapshot(a) \/ LockForRestore(a) \/ ReadToken(a)
           \/ ResumePurge(a) \/ BeginRetention(a)
    PROVE  Full'
<1>1. act[a] \in Activity /\ act \in [Actor -> Activity]
  BY Shapes
<1>2. CASE RestoreFails(a)
  <2>1. /\ act' = [act EXCEPT ![a] = RestoreFailed(a)] /\ act[a].pc # "idle"
        /\ UNCHANGED <<row, outbox, meta, child>>
    BY <1>2 DEF RestoreFails, Become, StoreUnchanged, RedisUnchanged
  <2> QED
    BY <2>1, LeavingShape, LeavesFull DEF AtWork
<1>3. CASE CommitRestore(a)
  <2>1. /\ \/ act' = [act EXCEPT ![a] = RestoreFailed(a)]
           \/ act' = [act EXCEPT ![a] = Restored(a, FALSE)]
        /\ act[a].pc # "idle" /\ UNCHANGED <<row, outbox, meta, child>>
    BY <1>3 DEF CommitRestore, Become, StoreUnchanged, RedisUnchanged
  <2> QED
    BY <2>1, LeavingShape, LeavesFull DEF AtWork
<1>4. CASE Crash(a)
  <2>1. act' = [act EXCEPT ![a] = Idle] /\ UNCHANGED <<row, outbox, meta, child>>
    BY <1>4 DEF Crash, Become, StoreUnchanged, RedisUnchanged
  <2> QED
    BY <2>1, IdleShape, LeavesFull DEF AtWork
<1>5. CASE ApplyFails(a)
  <2> DEFINE r == [act[a] EXCEPT !.pc = "unclaim"]
  <2>1. act' = [act EXCEPT ![a] = r] /\ UNCHANGED <<row, outbox, meta, child>>
    BY <1>5 DEF ApplyFails, GoTo, Become, StoreUnchanged, RedisUnchanged
  <2>2. r.pc = "unclaim"
    BY <1>1 DEF Activity
  <2> HIDE DEF r
  <2> QED
    BY <2>1, <2>2, LeavesFull DEF AtWork
<1>6. CASE RetentionFails(a)
  <2> DEFINE r == [act[a] EXCEPT !.pc = "restore", !.retire = FALSE, !.conn = FALSE]
  <2>1. act' = [act EXCEPT ![a] = r] /\ UNCHANGED <<row, outbox, meta, child>>
    BY <1>6 DEF RetentionFails, Become, StoreUnchanged, RedisUnchanged
  <2>2. r.pc = "restore"
    BY <1>1 DEF Activity
  <2> HIDE DEF r
  <2> QED
    BY <2>1, <2>2, LeavesFull DEF AtWork
<1>7. CASE ReadSnapshot(a)
  <2> DEFINE r == [act[a] EXCEPT !.pc = "child",
                                 !.snap = [ver |-> row.ver, child |-> row.child]]
  <2>1. /\ act' = [act EXCEPT ![a] = r] /\ UNCHANGED <<row, outbox, meta, child>>
        /\ act[a].pc = "snapshot" /\ act[a].conn
    BY <1>7 DEF ReadSnapshot, Become, StoreUnchanged, RedisUnchanged
  <2>2. r.pc = "child" /\ r.inc = act[a].inc /\ r.token = act[a].token /\ r.conn = act[a].conn
    BY <1>1 DEF Activity
  <2> HIDE DEF r
  <2>3. act'[a] = r /\ Undisturbed(a)
    BY <1>1, <2>1 DEF Full
  <2>4. Undisturbed(a)'
    BY <2>1, <2>2, <2>3 DEF Undisturbed, Owns, AtWork
  <2> QED
    BY <2>1, <2>2, <2>4, QuietFull
<1>8. CASE LockForRestore(a)
  <2> DEFINE expected == IF a \in Job THEN act[a].inc ELSE act[a].ev.inc
  <2> DEFINE r == [act[a] EXCEPT !.pc = IF a \in Job THEN "resume" ELSE "token",
                                 !.inc = expected, !.conn = TRUE]
  <2>1. /\ UNCHANGED <<row, outbox, meta, child>> /\ act[a].pc = "restore"
        /\ \/ row.inc # expected /\ act' = [act EXCEPT ![a] = Restored(a, TRUE)]
           \/ act' = [act EXCEPT ![a] = r]
    BY <1>8 DEF LockForRestore, Become, StoreUnchanged, RedisUnchanged
  <2>2. CASE row.inc # expected /\ act' = [act EXCEPT ![a] = Restored(a, TRUE)]
    <3>1. /\ Restored(a, TRUE).pc \in {"idle", "mark"}
          /\ Restored(a, TRUE).pc = "mark" =>
                a \notin Job /\ Restored(a, TRUE).ev = act[a].ev /\ act[a].ev \in Event
      BY <2>1, LeavingShape
    <3>2. Restored(a, TRUE).pc = "mark" =>
             Restored(a, TRUE).ev \in Event /\ Restored(a, TRUE).ev.inc # row.inc
      BY <2>2, <3>1
    <3> QED
      BY <2>1, <2>2, <3>1, <3>2, LeavesFull DEF AtWork
  <2>3. CASE act' = [act EXCEPT ![a] = r]
    <3>1. r.pc \in {"resume", "token"} /\ r.conn
      <4>1. r = [act[a] EXCEPT !.pc = IF a \in Job THEN "resume" ELSE "token",
                               !.inc = expected, !.conn = TRUE]
        OBVIOUS
      <4> HIDE DEF r, expected
      <4> QED
        BY <1>1, <4>1 DEF Activity
    <3> HIDE DEF r, expected
    <3>2. act'[a] = r
      BY <1>1, <2>3
    <3>3. Undisturbed(a)'
      BY <3>1, <3>2 DEF Undisturbed
    <3> QED
      BY <2>1, <2>3, <3>1, <3>3, QuietFull
  <2> QED
    BY <2>1, <2>2, <2>3
<1>9. CASE ReadToken(a)
  <2> DEFINE r == [act[a] EXCEPT !.pc = "resume", !.token = meta.token]
  <2> DEFINE s == [act[a] EXCEPT !.pc = "commit"]
  <2>1. /\ UNCHANGED <<row, outbox, meta, child>> /\ act[a].pc = "token"
        /\ \/ act' = [act EXCEPT ![a] = RestoreFailed(a)]
           \/ act' = [act EXCEPT ![a] = r]
           \/ act' = [act EXCEPT ![a] = s]
    BY <1>9 DEF ReadToken, GoTo, Become, StoreUnchanged, RedisUnchanged
  <2>2. r.pc = "resume" /\ r.conn = act[a].conn /\ s.pc = "commit"
    BY <1>1 DEF Activity
  <2> HIDE DEF r, s
  <2>3. CASE act' = [act EXCEPT ![a] = RestoreFailed(a)]
    BY <2>1, <2>3, LeavingShape, LeavesFull DEF AtWork
  <2>4. CASE act' = [act EXCEPT ![a] = s]
    BY <2>1, <2>2, <2>4, LeavesFull DEF AtWork
  <2>5. CASE act' = [act EXCEPT ![a] = r]
    <3>1. act'[a] = r /\ act[a].conn
      BY <1>1, <2>1, <2>5 DEF Full, Undisturbed, AtWork
    <3>2. Undisturbed(a)'
      BY <2>2, <3>1 DEF Undisturbed
    <3> QED
      BY <2>1, <2>2, <2>5, <3>2, QuietFull
  <2> QED
    BY <2>1, <2>3, <2>4, <2>5
<1>10. CASE ResumePurge(a)
  <2> DEFINE pc == IF Owns(a) THEN "purge" ELSE "commit"
  <2> DEFINE r == [act[a] EXCEPT !.pc = pc]
  <2>1. /\ act' = [act EXCEPT ![a] = r] /\ UNCHANGED <<row, outbox, meta, child>>
        /\ act[a].pc = "resume"
    BY <1>10 DEF ResumePurge, GoTo, Become, StoreUnchanged, RedisUnchanged
  <2>2. r.pc = pc /\ r.inc = act[a].inc /\ r.token = act[a].token /\ r.conn = act[a].conn
    BY <1>1 DEF Activity
  <2> HIDE DEF r
  <2>3. pc \in {"purge", "commit"} /\ (pc = "purge" => Owns(a))
    OBVIOUS
  <2> HIDE DEF pc
  <2>4. act'[a] = r /\ act[a].conn
    BY <1>1, <2>1 DEF Full, Undisturbed, AtWork
  <2>5. Undisturbed(a)'
    BY <2>1, <2>2, <2>3, <2>4 DEF Undisturbed, Owns
  <2> QED
    BY <2>1, <2>2, <2>3, <2>5, QuietFull
<1>11. CASE BeginRetention(a)
  <2> DEFINE r == [Idle EXCEPT !.pc = "begin", !.inc = row.inc, !.token = lastToken',
                               !.retire = TRUE, !.conn = TRUE,
                               !.snap = [ver |-> row.ver, child |-> row.child]]
  <2>1. act' = [act EXCEPT ![a] = r] /\ UNCHANGED <<row, outbox, meta, child>>
    BY <1>11 DEF BeginRetention, Become, RedisUnchanged
  <2>2. r.pc = "begin" /\ r.conn
    BY DEF Idle
  <2> HIDE DEF r
  <2>3. act'[a] = r
    BY <1>1, <2>1
  <2>4. Undisturbed(a)'
    BY <2>2, <2>3 DEF Undisturbed
  <2> QED
    BY <2>1, <2>2, <2>4, QuietFull
<1> QED
  BY <1>2, <1>3, <1>4, <1>5, <1>6, <1>7, <1>8, <1>9, <1>10, <1>11

\* A claim, and the end of a delivery: what is marked is in the cache.
LEMMA ClaimEventFull ==
    ASSUME ProjInv, Full, NEW w \in Worker, NEW d \in Event, ClaimEvent(w, d)
    PROVE  Full'
<1> DEFINE r == [Idle EXCEPT !.pc = "apply", !.ev = d]
<1>1. /\ w \in Actor /\ act' = [act EXCEPT ![w] = r] /\ UNCHANGED <<row, meta, child>>
      /\ outbox' = [outbox EXCEPT ![d].by = w, ![d].fresh = TRUE]
  BY DEF ClaimEvent, Become, RedisUnchanged, Actor
<1>2. r.pc = "apply"
  BY DEF Idle
<1> HIDE DEF r
<1>3. act'[w] = r /\ \A b \in Actor \ {w} : act'[b] = act[b]
  BY <1>1, Shapes
<1>4. Undisturbed(w)' /\ \A b \in Actor \ {w} : Undisturbed(b)'
  <2>1. Undisturbed(w)'
    BY <1>2, <1>3 DEF Undisturbed, AtWork
  <2> QED
    BY <1>1, <1>3, <2>1, OthersUndisturbed
<1>5. \A e \in Event : outbox'[e].state = outbox[e].state
  <2>1. outbox \in [Event -> OutboxRow]
    BY Shapes
  <2>2. outbox'[d] = [outbox[d] EXCEPT !.by = w, !.fresh = TRUE]
    BY <1>1, <2>1
  <2>3. outbox'[d].state = outbox[d].state
    BY <2>1, <2>2 DEF OutboxRow
  <2> QED
    BY <1>1, <2>1, <2>3
<1>6. \A e \in Event : InCache(e)' <=> InCache(e)
  BY <1>1 DEF InCache
<1> QED
  BY <1>1, <1>2, <1>4, <1>5, <1>6, FullStep

LEMMA MarkEventFull ==
    ASSUME ProjInv, Full, NEW w \in Worker, MarkEvent(w)
    PROVE  Full'
<1> DEFINE d == act[w].ev
<1>1. /\ w \in Actor /\ act[w].pc \in {"mark", "unclaim"} /\ act' = [act EXCEPT ![w] = Idle]
      /\ outbox' = IF outbox[d].by # w THEN outbox
                   ELSE [outbox EXCEPT ![d] =
                            [state |-> IF act[w].pc = "mark" THEN "done" ELSE outbox[d].state,
                             by |-> None, fresh |-> FALSE]]
      /\ UNCHANGED <<row, meta, child>>
  BY DEF MarkEvent, Become, RedisUnchanged, Actor
<1>2. d \in Event /\ (act[w].pc = "mark" /\ d.inc = row.inc => InCache(d))
  BY <1>1 DEF ProjInv, Place, Full, Settled
<1> HIDE DEF d
<1>3. \A e \in Event : outbox'[e].state = outbox[e].state \/ (e = d /\ act[w].pc = "mark")
  <2>1. outbox \in [Event -> OutboxRow]
    BY Shapes
  <2> QED
    BY <1>1, <1>2, <2>1
<1>4. act'[w] = Idle /\ \A b \in Actor \ {w} : act'[b] = act[b]
  BY <1>1, Shapes
<1>5. Undisturbed(w)' /\ \A b \in Actor \ {w} : Undisturbed(b)'
  <2>1. Undisturbed(w)'
    BY <1>4, IdleShape DEF Undisturbed, AtWork
  <2> QED
    BY <1>1, <1>4, <2>1, OthersUndisturbed
<1>6. \A e \in Event : InCache(e)' <=> InCache(e)
  BY <1>1 DEF InCache
<1>7. \A e \in Event : e.inc = row.inc /\ outbox'[e].state # "queued" =>
         outbox[e].state # "queued" \/ InCache(e)
  BY <1>2, <1>3
<1> QED
  BY <1>1, <1>5, <1>6, <1>7, IdleShape, FullStep

\* The database changes while nobody works under the lock, and queues what it changed.
LEMMA DatabaseFull ==
    ASSUME ProjInv, Full, DatabaseStep
    PROVE  Full'
<1>1. UNCHANGED <<meta, child, act>>
  BY DEF DatabaseStep, CreateSession, WriteChild, WriteSession, ClaimExpires, AgeOut
<1>2. \A e \in Event : (InCache(e)' <=> InCache(e)) /\ e.ver \in Nat /\ e.ver # 0
  BY <1>1, EventShape DEF InCache
<1>3. \A w \in Worker : InCache(act[w].ev)' <=> InCache(act[w].ev)
  BY <1>1 DEF InCache
<1>4. \A b \in Actor : Owns(b)' <=> Owns(b)
  BY <1>1 DEF Owns
<1>5. ASSUME row' = row,
             \A e \in Event : outbox'[e].state = outbox[e].state \/ outbox[e].state = "done"
      PROVE  Full'
  <2>1. \A a \in Actor : Undisturbed(a)'
    BY <1>1, <1>4, <1>5 DEF Full, Undisturbed
  <2>2. Settled'
    BY <1>1, <1>2, <1>3, <1>5 DEF Full, Settled, Stored
  <2> QED
    BY <2>1, <2>2 DEF Full
<1>6. ASSUME lock = None \/ row = NoRow PROVE \A a \in Actor : Undisturbed(a)'
  <2>1. \A a \in Actor : act[a].pc \notin AtWork
    BY <1>6, WorksAlone, Shapes
  <2> QED
    BY <1>1, <2>1 DEF Undisturbed, AtWork
<1>7. CASE CreateSession
  <2> DEFINE d == [agg |-> "session", inc |-> lastInc + 1, ver |-> 1]
  <2>1. /\ row = NoRow /\ lastInc < MaxInc /\ lastInc \in Nat
        /\ row' = [inc |-> lastInc + 1, status |-> "active", ver |-> 1, child |-> 0]
        /\ outbox' = Enqueued({d})
    BY <1>7, Shapes, BoundsNat DEF CreateSession
  <2>2. d \in Event
    BY <2>1, BoundsNat DEF Event
  <2>3. row'.inc = lastInc + 1 /\ row'.ver = 1 /\ row'.child = 0
    BY <2>1
  <2>4. outbox'[d].state = "queued"
    BY <1>1, <2>1, <2>2, EnqueuedFacts
  <2>5. ASSUME NEW e \in Event, e.inc = row'.inc, e.ver = Stored(e)'
        PROVE  outbox'[e].state = "queued"
    <3>1. e.agg = "session"
      BY <1>2, <2>3, <2>5 DEF Stored
    <3>2. e.ver = 1 /\ e.inc = lastInc + 1
      BY <2>3, <2>5, <3>1 DEF Stored
    <3>3. e = d
      BY <3>1, <3>2 DEF Event
    <3> QED
      BY <2>4, <3>3
  <2>6. ASSUME NEW w \in Worker, act[w].pc = "mark" PROVE act[w].ev.inc # row'.inc
    <3>1. w \in Actor
      BY DEF Actor
    <3>2. act[w].ev \in Event /\ act[w].ev.inc <= lastInc
      BY <2>6, <3>1 DEF ProjInv, Place, EventsKnown, InFlight, Known
    <3>3. act[w].ev.inc \in Nat
      BY <3>2, EventShape, BoundsNat
    <3> QED
      BY <2>1, <2>3, <3>2, <3>3
  <2>7. Settled'
    BY <1>1, <2>5, <2>6 DEF Settled
  <2> QED
    BY <1>6, <2>1, <2>7 DEF Full
<1>8. ASSUME lock = None, row' \in Row, row'.inc = row.inc, NEW d \in Event, row.inc # 0,
             outbox' = Enqueued({d}),
             \A e \in Event : e.inc = row.inc
                 /\ e.ver = (IF e.agg = "session" THEN row'.ver ELSE row'.child) =>
                     e = d \/ e.ver = Stored(e)
      PROVE  Full'
  <2>1. outbox'[d].state = "queued" /\ \A e \in Event \ {d} : outbox'[e] = outbox[e]
    BY <1>1, <1>8, EnqueuedFacts
  <2>2. row # NoRow
    BY <1>8, Shapes, RowShape
  <2>3. ASSUME NEW e \in Event, e.inc = row'.inc, e.ver = Stored(e)',
               outbox'[e].state # "queued"
        PROVE  InCache(e)'
    <3>1. e # d
      BY <2>1, <2>3
    <3>2. e.ver = Stored(e) /\ outbox[e].state # "queued"
      BY <1>8, <2>1, <2>3, <3>1 DEF Stored
    <3> QED
      BY <1>2, <1>8, <2>2, <2>3, <3>2 DEF Full, Settled
  <2>4. Settled'
    BY <1>1, <1>3, <1>8, <2>3 DEF Full, Settled
  <2> QED
    BY <1>6, <1>8, <2>4 DEF Full
<1>9. CASE WriteChild
  <2> DEFINE d == [agg |-> "child", inc |-> row.inc, ver |-> row.child + 1]
  <2>1. /\ lock = None /\ row.status = "active" /\ row.child < MaxChild
        /\ row' = [row EXCEPT !.child = @ + 1] /\ outbox' = Enqueued({d})
    BY <1>9 DEF WriteChild
  <2>2. /\ row \in Row /\ row.child \in Nat /\ row.child + 1 \in 1..MaxChild
        /\ row.inc \in 1..MaxInc /\ row.inc # 0
    BY <2>1, Shapes, RowShape, BoundsNat DEF Row
  <2>3. d \in Event
    BY <2>2 DEF Event
  <2>4. row'.inc = row.inc /\ row'.ver = row.ver /\ row'.child = row.child + 1 /\ row' \in Row
    BY <2>1, <2>2 DEF Row
  <2>5. ASSUME NEW e \in Event, e.inc = row.inc,
               e.ver = (IF e.agg = "session" THEN row'.ver ELSE row'.child)
        PROVE  e = d \/ e.ver = Stored(e)
    <3>1. CASE e.agg = "session"
      BY <2>4, <2>5, <3>1 DEF Stored
    <3>2. CASE e.agg = "child"
      BY <2>4, <2>5, <3>2 DEF Event
    <3> QED
      BY <3>1, <3>2, EventShape
  <2> HIDE DEF d
  <2> QED
    BY <1>8, <2>1, <2>2, <2>3, <2>4, <2>5
<1>10. ASSUME NEW status \in {"active", "terminal"}, WriteSession(status) PROVE Full'
  <2> DEFINE d == [agg |-> "session", inc |-> row.inc, ver |-> row.ver + 1]
  <2>1. /\ lock = None /\ row.status = "active" /\ row.ver < MaxVer
        /\ row' = [row EXCEPT !.status = status, !.ver = @ + 1] /\ outbox' = Enqueued({d})
    BY <1>10 DEF WriteSession
  <2>2. /\ row \in Row /\ row.ver \in Nat /\ row.ver + 1 \in 1..MaxVer
        /\ row.inc \in 1..MaxInc /\ row.inc # 0
    BY <2>1, Shapes, RowShape, BoundsNat DEF Row
  <2>3. d \in Event
    BY <2>2 DEF Event
  <2>4. row'.inc = row.inc /\ row'.ver = row.ver + 1 /\ row'.child = row.child /\ row' \in Row
    BY <2>1, <2>2 DEF Row
  <2>5. ASSUME NEW e \in Event, e.inc = row.inc,
               e.ver = (IF e.agg = "session" THEN row'.ver ELSE row'.child)
        PROVE  e = d \/ e.ver = Stored(e)
    <3>1. CASE e.agg = "session"
      BY <2>4, <2>5, <3>1 DEF Event
    <3>2. CASE e.agg = "child"
      BY <2>4, <2>5, <3>2 DEF Stored
    <3> QED
      BY <3>1, <3>2, EventShape
  <2> HIDE DEF d
  <2> QED
    BY <1>8, <2>1, <2>2, <2>3, <2>4, <2>5
<1>11. ASSUME NEW d \in Event, ClaimExpires(d) \/ AgeOut(d) PROVE Full'
  <2>1. outbox \in [Event -> OutboxRow] /\ row' = row
    BY <1>11, Shapes DEF ClaimExpires, AgeOut
  <2>2. CASE ClaimExpires(d)
    <3>1. outbox'[d] = [outbox[d] EXCEPT !.fresh = FALSE]
          /\ \A e \in Event \ {d} : outbox'[e] = outbox[e]
      BY <2>1, <2>2 DEF ClaimExpires
    <3>2. outbox'[d].state = outbox[d].state
      BY <2>1, <3>1 DEF OutboxRow
    <3> QED
      BY <1>5, <2>1, <3>1, <3>2
  <2>3. CASE AgeOut(d)
    <3>1. outbox[d].state = "done" /\ \A e \in Event \ {d} : outbox'[e] = outbox[e]
      BY <2>1, <2>3 DEF AgeOut
    <3> QED
      BY <1>5, <2>1, <3>1
  <2> QED
    BY <1>11, <2>2, <2>3
<1> QED
  BY <1>7, <1>9, <1>10, <1>11 DEF DatabaseStep

\* An event is applied, or found superseded: either way it is in the cache.
LEMMA ApplyFull ==
    ASSUME ProjInv, Full, NEW w \in Worker, Apply(w)
    PROVE  Full'
<1> DEFINE d == act[w].ev
<1>1. /\ w \in Actor /\ act[w] \in Activity /\ act[w].pc = "apply" /\ d \in Event
      /\ UNCHANGED <<row, outbox>>
  BY Shapes DEF Apply, StoreUnchanged, Actor, ProjInv, Place
<1>2. Known(d) /\ d.inc \in Nat /\ d.ver \in Nat /\ d.inc >= 1
  BY <1>1, EventShape, BoundsNat DEF ProjInv, EventsKnown, InFlight
<1>3. CASE Pending(d)
  <2> DEFINE r == [act[w] EXCEPT !.pc = IF act[w].again THEN "unclaim" ELSE "restore"]
  <2>1. act' = [act EXCEPT ![w] = r] /\ UNCHANGED <<meta, child>>
    BY <1>3 DEF Apply, GoTo, Become, RedisUnchanged
  <2>2. r.pc \in {"unclaim", "restore"}
    BY <1>1 DEF Activity
  <2> HIDE DEF r
  <2> QED
    BY <1>1, <2>1, <2>2, LeavesFull DEF AtWork
<1>4. CASE ~Pending(d)
  <2> DEFINE r == [act[w] EXCEPT !.pc = "mark"]
  <2>1. /\ act' = [act EXCEPT ![w] = r]
        /\ meta' = IF d.agg = "session" /\ ~Superseded(d)
                   THEN [NoMeta EXCEPT !.inc = d.inc, !.ver = d.ver] ELSE meta
        /\ child' = IF d.agg = "child" /\ ~Superseded(d)
                    THEN [inc |-> d.inc, ver |-> d.ver] ELSE child
    BY <1>4 DEF Apply, GoTo, Become
  <2>2. r.pc = "mark" /\ r.ev = d
    BY <1>1 DEF Activity
  <2> HIDE DEF r
  <2>3. act'[w] = r /\ \A b \in Actor \ {w} : act'[b] = act[b]
    BY <1>1, <2>1, Shapes
  <2>4. Undisturbed(w)'
    BY <2>2, <2>3 DEF Undisturbed, AtWork
  <2>5. CASE Superseded(d)
    <3>1. meta' = meta /\ child' = child
      BY <2>1, <2>5
    <3>2. d.inc = row.inc => InCache(d)
      <4>1. SUFFICES ASSUME d.inc = row.inc PROVE InCache(d)
        OBVIOUS
      <4>2. row.inc = lastInc /\ meta.inc <= lastInc /\ meta.inc \in Nat /\ lastInc \in Nat
        BY <1>2, <4>1, Shapes, MetaShape, BoundsNat DEF ProjInv, Incarnations
      <4>3. child.inc \in Nat /\ (child.inc = 0 \/ child.inc = row.inc)
        BY Shapes, ChildShape, BoundsNat DEF ProjInv, Behind
      <4> HIDE DEF d
      <4> QED
        BY <1>2, <2>5, <4>1, <4>2, <4>3 DEF Superseded, InCache
    <3> QED
      BY <1>1, <2>1, <2>2, <2>4, <3>1, <3>2, QuietFull
  <2>6. CASE ~Superseded(d)
    <3>1. d.inc = row.inc /\ ~(meta.inc = row.inc /\ meta.retired)
      BY <1>1, <1>4, <2>6, AppliesToPresent DEF Pending
    <3> HIDE DEF d
    <3>2. /\ meta.inc \in Nat /\ meta.ver \in Nat /\ child.inc \in Nat /\ child.ver \in Nat
      BY Shapes, MetaShape, ChildShape, BoundsNat
    <3>3. \A b \in Actor \ {w} : Undisturbed(b)'
      <4>1. SUFFICES ASSUME NEW b \in Actor \ {w} PROVE Undisturbed(b)'
        OBVIOUS
      <4>2. act'[b] = act[b] /\ Undisturbed(b)
        BY <2>3 DEF Full
      <4>3. act[b].pc \notin {"purge", "complete", "snapshot", "child", "session"}
        <5>1. SUFFICES ASSUME act[b].pc \in {"purge", "complete", "snapshot", "child", "session"}
                       PROVE  FALSE
          OBVIOUS
        <5>2. Owns(b) /\ act[b].inc = row.inc
          BY <4>2, <5>1, WorksAlone DEF Undisturbed, AtWork
        <5> QED
          BY <3>1, <5>2 DEF Owns
      <4> QED
        BY <4>2, <4>3 DEF Undisturbed
    <3>4. \A e \in Event : e.inc = row.inc /\ InCache(e) => InCache(e)'
      <4>1. SUFFICES ASSUME NEW e \in Event, e.inc = row.inc, InCache(e) PROVE InCache(e)'
        OBVIOUS
      <4>2. e.ver \in Nat
        BY EventShape
      <4>3. CASE d.agg = "session"
        <5>1. meta'.inc = d.inc /\ meta'.ver = d.ver /\ child' = child
          BY <2>1, <2>6, <4>3 DEF NoMeta
        <5>2. ~(meta.inc = d.inc /\ meta.ver >= d.ver)
          BY <2>6, <4>3 DEF Superseded
        <5> QED
          BY <1>2, <3>1, <3>2, <4>1, <4>2, <5>1, <5>2 DEF InCache
      <4>4. CASE d.agg # "session"
        <5>1. child'.inc = d.inc /\ child'.ver = d.ver /\ meta' = meta
          BY <1>1, <2>1, <2>6, <4>4, EventShape
        <5>2. ~(child.inc = d.inc /\ child.ver >= d.ver)
          BY <1>1, <2>6, <4>4, EventShape DEF Superseded
        <5> QED
          BY <1>2, <3>1, <3>2, <4>1, <4>2, <5>1, <5>2 DEF InCache
      <4> QED
        BY <4>3, <4>4
    <3>5. \E e \in Event : e = r.ev /\ (e.inc = row.inc => InCache(e)')
      <4>1. PICK e \in Event : e = d
        BY <1>1
      <4>2. InCache(e)'
        <5>1. CASE d.agg = "session"
          <6>1. meta'.inc = d.inc /\ meta'.ver = d.ver
            BY <2>1, <2>6, <5>1 DEF NoMeta
          <6> QED
            BY <1>2, <4>1, <5>1, <6>1 DEF InCache
        <5>2. CASE d.agg # "session"
          <6>1. d.agg = "child" /\ child'.inc = d.inc /\ child'.ver = d.ver
            BY <1>1, <2>1, <2>6, <5>2, EventShape
          <6> QED
            BY <1>2, <4>1, <6>1 DEF InCache
        <5> QED
          BY <5>1, <5>2
      <4> QED
        BY <2>2, <4>1, <4>2
    <3> QED
      BY <1>1, <2>1, <2>4, <3>3, <3>4, <3>5, FullStep
  <2> QED
    BY <2>5, <2>6
<1> QED
  BY <1>3, <1>4

\* A purge begins: it stands for the children it is about to delete.
LEMMA BeginPurgeFull ==
    ASSUME ProjInv, Full, NEW j \in Job, BeginPurge(j)
    PROVE  Full'
<1> DEFINE r == [act[j] EXCEPT !.pc = "purge"]
<1>1. /\ j \in Actor /\ act[j].pc = "begin" /\ act[j] \in Activity /\ Beginning(j)
      /\ UNCHANGED <<row, outbox, child>>
  BY Shapes DEF BeginPurge, StoreUnchanged, Actor, ProjInv
<1>2. /\ lock = j /\ act[j].conn /\ act[j].inc = row.inc /\ row.inc = lastInc
  BY <1>1, WorksAlone DEF AtWork
<1>3. /\ meta.inc <= lastInc /\ meta.inc \in Nat /\ lastInc \in Nat /\ meta.ver \in Nat
      /\ act[j].snap.ver \in Nat
  BY <1>1, Shapes, MetaShape, ActivityShape, BoundsNat DEF ProjInv, Incarnations
<1>4. /\ act' = [act EXCEPT ![j] = r]
      /\ meta' = [inc |-> act[j].inc, ver |-> act[j].snap.ver, retired |-> TRUE,
                  token |-> act[j].token, complete |-> FALSE]
  BY <1>2, <1>3 DEF BeginPurge, GoTo, Become
<1>5. r.pc = "purge" /\ r.inc = act[j].inc /\ r.token = act[j].token /\ r.conn = act[j].conn
  BY <1>1 DEF Activity
<1> HIDE DEF r
<1>6. act'[j] = r /\ \A b \in Actor \ {j} : act'[b] = act[b]
  BY <1>1, <1>4, Shapes
<1>7. /\ meta'.inc = row.inc /\ meta'.ver = act[j].snap.ver /\ meta'.retired
      /\ meta'.token = act[j].token
  BY <1>2, <1>4
<1>8. Undisturbed(j)' /\ \A b \in Actor \ {j} : Undisturbed(b)'
  <2>1. Undisturbed(j)'
    BY <1>2, <1>5, <1>6, <1>7 DEF Undisturbed, Owns
  <2> QED
    BY <1>1, <1>2, <1>6, <2>1, OthersUndisturbed
<1>9. ASSUME NEW e \in Event, e.inc = row.inc, InCache(e) PROVE InCache(e)'
  <2>1. meta.inc = act[j].inc => meta.ver <= act[j].snap.ver
    BY <1>1 DEF Beginning
  <2>2. e.ver \in Nat
    BY EventShape
  <2> QED
    BY <1>2, <1>3, <1>7, <1>9, <2>1, <2>2 DEF InCache
<1> QED
  BY <1>1, <1>4, <1>5, <1>8, <1>9, FullStep

LEMMA PurgeChildrenFull ==
    ASSUME ProjInv, Full, NEW a \in Actor, PurgeChildren(a)
    PROVE  Full'
<1>1. /\ act[a].pc = "purge" /\ act[a] \in Activity /\ UNCHANGED <<row, outbox, meta>>
      /\ Undisturbed(a)
  BY Shapes DEF PurgeChildren, StoreUnchanged, Full
<1>2. lock = a /\ act[a].conn /\ act[a].inc = row.inc /\ Owns(a)
  BY <1>1, WorksAlone DEF AtWork, Undisturbed
<1>3. CASE child # NoChild /\ child.inc <= act[a].inc
  <2>1. act' = act /\ act' = [act EXCEPT ![a] = act[a]]
    BY <1>3, Shapes DEF PurgeChildren
  <2>2. Undisturbed(a)' /\ \A b \in Actor \ {a} : Undisturbed(b)'
    <3>1. Undisturbed(a)'
      BY <1>1, <1>2, <2>1 DEF Undisturbed, Owns
    <3> QED
      BY <1>2, <2>1, <3>1, OthersUndisturbed
  <2>3. \A e \in Event : e.inc = row.inc /\ InCache(e) => InCache(e)'
    BY <1>1, <1>2, EventShape DEF InCache, Owns
  <2> QED
    BY <1>1, <2>1, <2>2, <2>3, FullStep
<1>4. CASE ~(child # NoChild /\ child.inc <= act[a].inc)
  <2> DEFINE r == [act[a] EXCEPT !.pc = "complete"]
  <2>1. act' = [act EXCEPT ![a] = r] /\ child' = child
    BY <1>4 DEF PurgeChildren, GoTo, Become
  <2>2. r.pc = "complete" /\ r.inc = act[a].inc /\ r.token = act[a].token /\ r.conn = act[a].conn
    BY <1>1 DEF Activity
  <2> HIDE DEF r
  <2>3. act'[a] = r
    BY <2>1, Shapes
  <2>4. Undisturbed(a)'
    BY <1>1, <1>2, <2>2, <2>3 DEF Undisturbed, Owns
  <2> QED
    BY <1>1, <2>1, <2>2, <2>4, QuietFull
<1> QED
  BY <1>3, <1>4

LEMMA CompletePurgeFull ==
    ASSUME ProjInv, Full, NEW a \in Actor, CompletePurge(a)
    PROVE  Full'
<1> DEFINE pc == IF act[a].retire THEN "delete" ELSE IF Owns(a) THEN "snapshot" ELSE "commit"
<1> DEFINE r == [act[a] EXCEPT !.pc = pc]
<1>1. /\ act[a].pc = "complete" /\ act[a] \in Activity /\ UNCHANGED <<row, outbox, child>>
      /\ act' = [act EXCEPT ![a] = r] /\ Undisturbed(a)
      /\ meta' = IF Owns(a) THEN [meta EXCEPT !.complete = TRUE] ELSE meta
  BY Shapes DEF CompletePurge, StoreUnchanged, GoTo, Become, Full
<1>2. lock = a /\ act[a].conn /\ Owns(a)
  BY <1>1, WorksAlone DEF AtWork, Undisturbed
<1>3. pc \in {"delete", "snapshot"}
  BY <1>2
<1> HIDE DEF pc
<1>4. r.pc = pc /\ r.inc = act[a].inc /\ r.token = act[a].token /\ r.conn = act[a].conn
  BY <1>1 DEF Activity
<1> HIDE DEF r
<1>5. act'[a] = r /\ \A b \in Actor \ {a} : act'[b] = act[b]
  BY <1>1, Shapes
<1>6. /\ meta'.inc = meta.inc /\ meta'.ver = meta.ver /\ meta'.retired = meta.retired
      /\ meta'.token = meta.token /\ meta'.complete
  <2>1. meta \in Tombstone /\ meta' = [meta EXCEPT !.complete = TRUE]
    BY <1>1, <1>2, Shapes, MetaShape DEF Owns
  <2> QED
    BY <2>1 DEF Tombstone
<1>7. Undisturbed(a)' /\ \A b \in Actor \ {a} : Undisturbed(b)'
  <2>1. Undisturbed(a)'
    BY <1>2, <1>3, <1>4, <1>5, <1>6 DEF Undisturbed, Owns
  <2> QED
    BY <1>2, <1>5, <2>1, OthersUndisturbed
<1>8. \A e \in Event : InCache(e) => InCache(e)'
  BY <1>1, <1>6 DEF InCache
<1> QED
  BY <1>1, <1>3, <1>4, <1>7, <1>8, FullStep

\* The restored child is the database's.
LEMMA RestoreChildFull ==
    ASSUME ProjInv, Full, NEW a \in Actor, RestoreChild(a)
    PROVE  Full'
<1> DEFINE r == [act[a] EXCEPT !.pc = "session"]
<1>1. /\ act[a].pc = "child" /\ act[a] \in Activity /\ UNCHANGED <<row, outbox, meta>>
      /\ act' = [act EXCEPT ![a] = r] /\ Undisturbed(a) /\ Place(a)
  BY Shapes DEF RestoreChild, StoreUnchanged, GoTo, Become, Full, ProjInv
<1>2. /\ lock = a /\ act[a].conn /\ Owns(a) /\ meta.complete /\ act[a].inc = row.inc
      /\ act[a].snap.child = row.child /\ row.inc >= 1
  BY <1>1, WorksAlone DEF AtWork, Undisturbed, Place
<1>3. r.pc = "session" /\ r.inc = act[a].inc /\ r.token = act[a].token /\ r.conn = act[a].conn
  BY <1>1 DEF Activity
<1> HIDE DEF r
<1>4. act'[a] = r /\ \A b \in Actor \ {a} : act'[b] = act[b]
  BY <1>1, Shapes
<1>5. /\ row.child \in Nat /\ child.inc \in Nat /\ child.ver \in Nat
      /\ child.inc = 0 \/ (child.inc = row.inc /\ child.ver <= row.child)
      /\ row.inc \in Nat
  BY Shapes, ChildShape, RowShape, BoundsNat DEF ProjInv, Behind
<1>6. row.child > 0 => child'.inc = row.inc /\ child'.ver = row.child
  <2>1. SUFFICES ASSUME row.child > 0 PROVE child'.inc = row.inc /\ child'.ver = row.child
    OBVIOUS
  <2>2. \/ child' = [inc |-> row.inc, ver |-> row.child]
        \/ /\ child' = child
           /\ child.inc > row.inc \/ (child.inc = row.inc /\ child.ver >= row.child)
    BY <1>2, <2>1 DEF RestoreChild
  <2> QED
    BY <1>2, <1>5, <2>2
<1>7. row.child = 0 => child' = child
  BY <1>2 DEF RestoreChild
<1>8. Undisturbed(a)' /\ \A b \in Actor \ {a} : Undisturbed(b)'
  <2>1. Undisturbed(a)'
    BY <1>1, <1>2, <1>3, <1>4, <1>6 DEF Undisturbed, Owns
  <2> QED
    BY <1>2, <1>4, <2>1, OthersUndisturbed
<1>9. \A e \in Event : e.inc = row.inc /\ InCache(e) => InCache(e)'
  BY <1>1, <1>2, EventShape DEF InCache, Owns
<1> QED
  BY <1>1, <1>3, <1>8, <1>9, FullStep

\* The lifetime is reopened with everything in the cache.
LEMMA RestoreSessionFull ==
    ASSUME ProjInv, Full, NEW a \in Actor, RestoreSession(a)
    PROVE  Full'
<1> DEFINE r == [act[a] EXCEPT !.pc = "commit"]
<1>1. /\ act[a].pc = "session" /\ act[a] \in Activity /\ UNCHANGED <<row, outbox, child>>
      /\ act' = [act EXCEPT ![a] = r] /\ Undisturbed(a) /\ Place(a)
      /\ meta' = IF Owns(a) /\ meta.complete
                 THEN [meta EXCEPT !.ver = act[a].snap.ver, !.retired = FALSE, !.token = 0]
                 ELSE meta
  BY Shapes DEF RestoreSession, StoreUnchanged, GoTo, Become, Full, ProjInv
<1>2. /\ lock = a /\ act[a].conn /\ Owns(a) /\ meta.complete /\ act[a].inc = row.inc
      /\ act[a].snap.ver = row.ver /\ row.inc >= 1
      /\ row.child > 0 => child.inc = row.inc /\ child.ver = row.child
  BY <1>1, WorksAlone DEF AtWork, Undisturbed, Place
<1>3. r.pc = "commit"
  BY <1>1 DEF Activity
<1> HIDE DEF r
<1>4. act'[a] = r /\ \A b \in Actor \ {a} : act'[b] = act[b]
  BY <1>1, Shapes
<1>5. meta'.inc = row.inc /\ meta'.ver = row.ver
  <2>1. /\ meta \in Tombstone /\ meta.inc = row.inc
        /\ meta' = [meta EXCEPT !.ver = act[a].snap.ver, !.retired = FALSE, !.token = 0]
    BY <1>1, <1>2, Shapes, MetaShape DEF Owns
  <2> QED
    BY <1>2, <2>1 DEF Tombstone
<1>6. Undisturbed(a)' /\ \A b \in Actor \ {a} : Undisturbed(b)'
  <2>1. Undisturbed(a)'
    BY <1>3, <1>4 DEF Undisturbed, AtWork
  <2> QED
    BY <1>2, <1>4, <2>1, OthersUndisturbed
<1>7. ASSUME NEW e \in Event, e.inc = row.inc, e.ver <= Stored(e) PROVE InCache(e)'
  <2>1. /\ e.agg \in {"session", "child"} /\ e.ver \in Nat /\ e.ver >= 1
        /\ row.ver \in Nat /\ row.child \in Nat
    BY EventShape, Shapes, RowShape, BoundsNat
  <2>2. CASE e.agg = "session"
    BY <1>5, <1>7, <2>1, <2>2 DEF InCache, Stored
  <2>3. CASE e.agg = "child"
    BY <1>1, <1>2, <1>7, <2>1, <2>3 DEF InCache, Stored
  <2> QED
    BY <2>1, <2>2, <2>3
<1> QED
  BY <1>1, <1>3, <1>6, <1>7, FullStep

\* The session is deleted: there is nothing left that should be cached.
LEMMA DeleteSessionFull ==
    ASSUME ProjInv, Full, NEW j \in Job, NEW reported \in BOOLEAN, DeleteSession(j, reported)
    PROVE  Full'
<1> DEFINE s == [act[j] EXCEPT !.pc = "restore", !.retire = FALSE, !.conn = FALSE]
<1>1. /\ j \in Actor /\ act[j].pc = "delete" /\ row' = NoRow /\ act[j] \in Activity
      /\ act' = [act EXCEPT ![j] = IF reported THEN Idle ELSE s]
  BY Shapes DEF DeleteSession, Become, Actor
<1>2. s.pc = "restore"
  BY <1>1 DEF Activity
<1> HIDE DEF s
<1>3. act'[j].pc \in {"idle", "restore"} /\ \A b \in Actor \ {j} : act'[b] = act[b]
  BY <1>1, <1>2, IdleShape, Shapes
<1>4. lock = j
  BY <1>1, WorksAlone DEF AtWork
<1>5. \A b \in Actor : Undisturbed(b)'
  <2>1. Undisturbed(j)'
    BY <1>3 DEF Undisturbed, AtWork
  <2> QED
    BY <1>1, <1>3, <1>4, <2>1, OthersUndisturbed
<1>6. ASSUME NEW w \in Worker, act'[w].pc = "mark" PROVE act'[w].ev.inc # row'.inc
  <2>1. w \in Actor /\ w # j
    BY ProjectionBounds DEF Actor
  <2>2. act'[w] = act[w]
    BY <1>3, <2>1
  <2>3. act[w].ev \in Event
    BY <1>6, <2>1, <2>2 DEF ProjInv, Place
  <2>4. act[w].ev.inc # 0
    BY <2>3, EventShape
  <2> QED
    BY <1>1, <2>2, <2>4 DEF NoRow
<1>7. Settled'
  BY <1>1, <1>6 DEF Settled
<1> QED
  BY <1>5, <1>7 DEF Full

LEMMA FullInvStep ==
    ASSUME ProjInv, FullInv, [Next]_vars
    PROVE  FullInv'
<1>1. SUFFICES ASSUME drops' = 0 PROVE Full'
  BY DEF FullInv
<1>2. drops \in Nat
  BY Shapes, BoundsNat
<1>3. CASE DatabaseStep
  <2>1. drops' = drops
    BY <1>3 DEF DatabaseStep, CreateSession, WriteChild, WriteSession, ClaimExpires, AgeOut
  <2> QED
    BY <1>1, <1>3, <2>1, DatabaseFull DEF FullInv
<1>4. ASSUME NEW w \in Worker, WorkerStep(w) PROVE Full'
  <2>1. drops' = drops /\ w \in Actor
    BY <1>4
       DEF WorkerStep, ClaimEvent, Apply, ApplyFails, MarkEvent, ReadToken, Actor
  <2>2. Full
    BY <1>1, <2>1 DEF FullInv
  <2> QED
    BY <1>4, <2>1, <2>2, ClaimEventFull, ApplyFull, MarkEventFull, QuietStepsFull DEF WorkerStep
<1>5. ASSUME NEW j \in Job, JobStep(j) PROVE Full'
  <2>1. drops' = drops /\ j \in Actor
    BY <1>5 DEF JobStep, BeginRetention, BeginPurge, RetentionFails, DeleteSession, Actor
  <2>2. Full
    BY <1>1, <2>1 DEF FullInv
  <2> QED
    BY <1>5, <2>1, <2>2, BeginPurgeFull, DeleteSessionFull, QuietStepsFull DEF JobStep
<1>6. ASSUME NEW a \in Actor, RestoreStep(a) PROVE Full'
  <2>1. drops' = drops
    BY <1>6
       DEF RestoreStep, LockForRestore, ResumePurge, PurgeChildren, CompletePurge, ReadSnapshot,
           RestoreChild, RestoreSession, CommitRestore, RestoreFails
  <2>2. Full
    BY <1>1, <2>1 DEF FullInv
  <2> QED
    BY <1>6, <2>2, PurgeChildrenFull, CompletePurgeFull, RestoreChildFull, RestoreSessionFull,
       QuietStepsFull DEF RestoreStep
<1>7. ASSUME NEW a \in Actor, Crash(a) PROVE Full'
  <2>1. drops' = drops
    BY <1>7 DEF Crash
  <2>2. Full
    BY <1>1, <2>1 DEF FullInv
  <2> QED
    BY <1>7, <2>2, QuietStepsFull
<1>8. ASSUME NEW a \in Actor, ConnectionLost(a) PROVE Full'
  BY <1>1, <1>2, <1>8 DEF ConnectionLost
<1>9. CASE UNCHANGED vars
  <2>1. Full
    BY <1>1, <1>9 DEF FullInv, vars
  <2>2. /\ \A e \in Event : InCache(e)' <=> InCache(e)
        /\ \A w \in Worker : InCache(act[w].ev)' <=> InCache(act[w].ev)
    BY <1>9 DEF vars, InCache
  <2>3. \A a \in Actor : Owns(a)' <=> Owns(a)
    BY <1>9 DEF vars, Owns
  <2>4. \A a \in Actor : Undisturbed(a)'
    BY <1>9, <2>1, <2>3 DEF vars, Full, Undisturbed
  <2>5. Settled'
    BY <1>9, <2>1, <2>2 DEF vars, Full, Settled, Stored
  <2> QED
    BY <2>4, <2>5 DEF Full
<1> QED
  BY <1>3, <1>4, <1>5, <1>6, <1>7, <1>8, <1>9 DEF Next

LEMMA FullInit == Init => FullInv
<1> SUFFICES ASSUME Init PROVE Full
  BY DEF FullInv
<1>1. row = NoRow /\ act = [a \in Actor |-> Idle]
  BY DEF Init
<1>2. \A a \in Actor : act[a].pc = "idle"
  BY <1>1, IdleShape
<1>3. \A a \in Actor : Undisturbed(a)
  BY <1>2 DEF Undisturbed, AtWork
<1>4. \A w \in Worker : w \in Actor
  BY DEF Actor
<1>5. Settled
  BY <1>1, <1>2, <1>4 DEF Settled
<1> QED
  BY <1>3, <1>5 DEF Full

\* Once its events are delivered, a session whose lifetime is open is projected in full,
\* child included, also after purges that were given up, as long as no connection was lost.
THEOREM DeliveredIsProjected == Spec => []ProjectedInFull
<1>1. ASSUME ProjInv, FullInv PROVE ProjectedInFull
  <2>1. SUFFICES ASSUME drops = 0, row # NoRow, Delivered, meta.inc = row.inc, ~meta.retired
                 PROVE  /\ meta.ver = row.ver
                        /\ row.child > 0 => child = [inc |-> row.inc, ver |-> row.child]
    BY DEF ProjectedInFull
  <2>2. Settled
    BY <1>1, <2>1 DEF FullInv, Full
  <2>3. row \in Row /\ row.ver \in Nat /\ row.child \in Nat /\ meta.ver \in Nat
        /\ child.ver \in Nat
    BY <1>1, <2>1, Shapes, RowShape, MetaShape, ChildShape, BoundsNat
  <2>4. meta.ver >= row.ver
    <3> DEFINE e == [agg |-> "session", inc |-> row.inc, ver |-> row.ver]
    <3>1. e \in Event
      BY <2>3 DEF Row, Event
    <3>2. InCache(e)
      <4>1. e.inc = row.inc /\ e.ver = Stored(e)
        BY DEF Stored
      <4>2. outbox[e].state # "queued"
        BY <2>1, <3>1 DEF Delivered
      <4> HIDE DEF e
      <4> QED
        BY <2>1, <2>2, <3>1, <4>1, <4>2 DEF Settled
    <3> QED
      BY <3>2 DEF InCache
  <2>5. meta.ver <= row.ver
    BY <1>1, <2>1 DEF ProjInv, Behind
  <2>6. ASSUME row.child > 0 PROVE child = [inc |-> row.inc, ver |-> row.child]
    <3> DEFINE e == [agg |-> "child", inc |-> row.inc, ver |-> row.child]
    <3>1. e \in Event
      BY <2>3, <2>6 DEF Row, Event
    <3>2. InCache(e)
      <4>1. e.inc = row.inc /\ e.ver = Stored(e)
        BY DEF Stored
      <4>2. outbox[e].state # "queued"
        BY <2>1, <3>1 DEF Delivered
      <4> HIDE DEF e
      <4> QED
        BY <2>1, <2>2, <3>1, <4>1, <4>2 DEF Settled
    <3>3. child.inc = row.inc /\ child.ver >= row.child
      BY <2>1, <3>2 DEF InCache
    <3>4. child # NoChild
      BY <2>3, <3>3 DEF Row, NoChild
    <3>5. child.ver <= row.child /\ child \in [inc : 1..MaxInc, ver : 1..MaxChild]
      BY <1>1, <3>4, Shapes DEF ProjInv, Behind
    <3>6. child.ver = row.child
      BY <2>3, <3>3, <3>5
    <3> QED
      BY <3>3, <3>5, <3>6
  <2> QED
    BY <2>3, <2>4, <2>5, <2>6
<1>2. FullInv /\ ProjInv /\ [Next]_vars => FullInv'
  BY FullInvStep
<1> QED
  BY <1>1, <1>2, FullInit, ProjectionInvariant, PTL DEF Spec

=============================================================================
