------------------------- MODULE ResilientSttProofs -------------------------
(***************************************************************************)
(* Proofs about ResilientStt, for every script of commands, any number of  *)
(* generations and any limits.                                             *)
(***************************************************************************)
EXTENDS ResilientStt, FiniteSetTheorems, SequenceTheorems, TLAPS

\* A sequence of commands in the order of admission; its entries up to the n-th, those
\* behind it, and those behind the n-th up to the m-th.
Increasing(j) == \A i, k \in 1..Len(j) : i < k => j[i] < j[k]
Before(j, n)  == {j[i] : i \in 1..n}
After(j, n)   == {j[i] : i \in (n + 1)..Len(j)}
Between(j, n, m) == {j[i] : i \in (n + 1)..m}

\* The entries of the journal that were written, those still to be written, and those
\* of them that the replay owes.
Written == Before(journal, cursor)
Pending == After(journal, cursor)
Owed    == Between(journal, cursor, replayBoundary)

\* What the journal keeps, of the audio A and the commits C admitted, when W was written
\* and P is still to be written, the chunks `aged' have left the uncertain window, the
\* commits `done' have their answer and `acc' was accepted:
\*   - the audio in it is the last of the log;
\*   - audio ages in order and not before it was written, and what is fresh is kept;
\*   - a commit without an answer is still to be written, and the last one with an
\*     answer is kept;
\*   - two chunks in it that a commit separated are separated by one;
\*   - what is behind the cursor, and all the aged audio, was accepted.
Keeps(A, C, W, P, aged, done, acc) ==
    /\ \A x \in W, y \in P : x < y
    /\ \A a, b \in A : a < b /\ a \in W \cup P => b \in W \cup P
    /\ \A a, b \in A : a < b /\ b \in aged => a \in aged
    /\ \A a \in A : a \in P => a \notin aged
    /\ \A a \in A : a \notin W \cup P => a \in aged
    /\ \A c \in C : c \notin done => c \in P
    /\ \A c \in C : c \in done => \E d \in C : d \in W \cup P /\ d \in done /\ c <= d
    /\ \A a, b \in A : \A c \in C :
          a \in W \cup P /\ b \in W \cup P /\ a < c /\ c < b =>
             \E d \in C : d \in W \cup P /\ a < d /\ d < b
    /\ W \subseteq acc /\ aged \subseteq acc

JournalInv ==
    /\ Increasing(journal)
    /\ Keeps(Audio, Commits, Written, Pending, old, SettledIn(commits), Accepted)

\* The places of the chunks in a sequence of commands, and the last command.
Chunks(s)  == {k \in 1..Len(s) : IsAudio(s[k])}
LastOf(s)  == s[Len(s)]

\* Command c may be the next one generation g accepts.
Follows(g, c) ==
    /\ sent[g] # <<>> =>
          /\ LastOf(sent[g]) < c
          /\ IsAudio(LastOf(sent[g])) /\ IsAudio(c) => c = LastOf(sent[g]) + 1
    /\ IsAudio(c) => Rank(c) = offset[g] + Cardinality(Chunks(sent[g]))

\* The write in flight is the entry at the cursor, unless its generation is gone.
InFlight ==
    runner.pc = "writing" =>
        /\ runner.gen \in 1..generation /\ runner.cmd \in DOMAIN log
        /\ Follows(runner.gen, runner.cmd)
        /\ Current => cursor < Len(journal) /\ runner.cmd = journal[cursor + 1]

\* The active generation has accepted what is before the cursor, from its offset on;
\* after a chunk, every later chunk is still to be written, with a commit before it
\* if one was admitted in between.
InStep ==
    active =>
      LET s == sent[generation]
      IN  /\ Cardinality(Audio \ Pending) = offset[generation] + Cardinality(Chunks(s))
          /\ s # <<>> =>
               /\ \A x \in Written : x <= LastOf(s)
               /\ \A x \in Pending : x > LastOf(s)
               /\ IsAudio(LastOf(s)) =>
                    /\ \A b \in Audio : b > LastOf(s) => b \in Pending
                    /\ \A b \in Audio : \A c \in Commits : LastOf(s) < c /\ c < b =>
                          \E d \in Commits : d \in Pending /\ LastOf(s) < d /\ d < b

Unopened == \A g \in Generations : g > generation => sent[g] = <<>>

SentInv == InFlight /\ InStep /\ Unopened /\ GapFree

\* The replay: what a generation owes is before the boundary until it is sent.
Replay ==
    /\ spoke \subseteq 1..generation
    /\ \A g \in spoke : mustReplay[g] \subseteq Range(sent[g])
    /\ state = "healthy" => /\ mustReplay[generation] \subseteq Range(sent[generation])
                            /\ replayBoundary = 0 /\ held = 0
    /\ state = "probationary" => mustReplay[generation] \subseteq Range(sent[generation]) \cup Owed
    /\ ~Ended /\ ~active =>
          /\ cursor = replayStart
          /\ generation + 1 \in Generations => mustReplay[generation + 1] \subseteq Owed
    /\ wait.set => wait.boundary = replayBoundary
    /\ rec.pc = "stable" /\ state = "probationary" => cursor >= replayBoundary

\* Where the recovery loop is with the active stream.
Recovering ==
    /\ state \in {"failed", "closed"} <=> Ended
    /\ ~Ended => (active <=> state \in {"healthy", "probationary"})
    /\ wait.set <=> rec.pc = "wait"
    /\ wait.set => ~Ended /\ state = "probationary"
    /\ ~Ended /\ rec.pc \in {"close", "sleep", "open", "opened", "failed"} => ~active
    /\ ~Ended /\ rec.pc \in {"none", "finish"} => state # "probationary"
    /\ state = "healthy" => rec.pc \in {"none", "finish"}
    /\ ~Ended /\ ~active /\ rec.pc = "finish" => restart /\ state = "recovering"
    /\ ~Ended /\ ~active => rec.pc # "none"
    /\ rec.pc = "sleep" => rec.attempts < MaxAttempts
    /\ rec.pc = "opened" => generation < MaxGenerations

\* The streams: only the active one, and one just opened, are not told to close; a
\* failed one is closed before the next is opened.
Streams ==
    /\ streams \subseteq (IF active THEN {generation} ELSE {})
                     \cup (IF rec.pc = "opened" THEN {generation + 1} ELSE {})
    /\ terminal \/ closer \in {"done", "threw"} => ~active
    /\ active \/ rec.pc \in {"sleep", "open", "opened"} => failedClose = "none"

\* close() and abort(): where they are with the journal and its loop.
Closing ==
    /\ closing <=> closer # "none"
    /\ closed <=> closer \in {"closing", "done", "threw"}
    /\ aborted => closed
    /\ closed \/ closer = "drained" => terminal \/ aborted \/ cursor >= Len(journal)
    /\ closed => terminal \/ aborted \/ \A c \in Commits : commits[c] = "resolved"
    /\ closer = "draining" => ~Ended /\ cursor < Len(journal)
    /\ runner.pc = "done" => Ended \/ (closing /\ cursor >= Len(journal))
    /\ runner.pc = "waiting" =>
          Ended \/ ~(cursor < Len(journal) /\ active /\ state \in {"healthy", "probationary"})

SttInv ==
    /\ SttTypeOK /\ JournalInv /\ SentInv /\ Replay /\ Recovering /\ Streams /\ Closing
    /\ CommitsAreBarriers

-----------------------------------------------------------------------------
(***************************************************************************)
(* Numbers and finite sets.                                                *)
(***************************************************************************)

\* Every set of natural numbers that is not empty has a least element.
LEMMA Least ==
    ASSUME NEW T \in SUBSET Nat, T # {}
    PROVE  \E m \in T : \A k \in T : m <= k
<1> DEFINE Below(m) == {k \in T : k <= m}
           Cuts == {Below(m) : m \in T}
<1>1. \A m \in T : IsFiniteSet(Below(m))
  BY FS_BoundedSetOfNaturals
<1>2. Cuts \subseteq FiniteSubsetsOf(T) /\ Cuts # {}
  BY <1>1 DEF FiniteSubsetsOf
<1>3. \E x \in Cuts : \A y \in Cuts : ~(<<y, x>> \in StrictSubsetOrdering(T))
  <2> HIDE DEF Cuts
  <2> QED
    BY <1>2, WFMin, FS_StrictSubsetOrderingWellFounded
<1>4. PICK m \in T : \A k \in T : ~(<<Below(k), Below(m)>> \in StrictSubsetOrdering(T))
  BY <1>3
<1>5. ASSUME NEW k \in T, k < m
      PROVE  FALSE
  <2>1. m \in Below(m) /\ m \notin Below(k)
    BY <1>5
  <2>2. Below(k) # Below(m)
    BY <2>1
  <2>3. \A x \in Below(k) : x \in Below(m)
    BY <1>5
  <2>4. <<Below(k), Below(m)>> \in (SUBSET T) \X (SUBSET T)
    OBVIOUS
  <2> QED
    BY <1>4, <2>2, <2>3, <2>4 DEF StrictSubsetOrdering
<1> QED
  BY <1>5

\* A set of numbers up to n that is not empty has a greatest element.
LEMMA Greatest ==
    ASSUME NEW n \in Nat, NEW T \in SUBSET (0..n), T # {}
    PROVE  \E m \in T : \A k \in T : k <= m
<1> DEFINE U == {n - k : k \in T}
<1>1. U \in SUBSET Nat /\ U # {}
  <2>1. \A k \in T : n - k \in Nat
    OBVIOUS
  <2>2. \E k \in T : n - k \in U
    OBVIOUS
  <2> QED
    BY <2>1, <2>2
<1>2. PICK u \in U : \A v \in U : u <= v
  <2> HIDE DEF U
  <2> QED
    BY <1>1, Least
<1>3. PICK m \in T : u = n - m
  OBVIOUS
<1>4. \A k \in T : n - m <= n - k
  BY <1>2, <1>3
<1> QED
  BY <1>4

\* How the indices move when only those in `kept' are kept.
LEMMA Mapped ==
    ASSUME NEW N \in Nat, NEW kept \in SUBSET (1..N)
    PROVE  /\ IsFiniteSet(kept) /\ Cardinality(kept) \in Nat
           /\ MapIndex(kept, 0) = 0 /\ MapIndex(kept, N) = Cardinality(kept)
           /\ \A i \in 0..N : MapIndex(kept, i) \in 0..Cardinality(kept)
           /\ \A i, k \in 0..N : i <= k => MapIndex(kept, i) <= MapIndex(kept, k)
           /\ \A k \in kept : MapIndex(kept, k) = MapIndex(kept, k - 1) + 1
           /\ \A k \in 1..N : k \notin kept => MapIndex(kept, k) = MapIndex(kept, k - 1)
<1> DEFINE Up(i) == {k \in kept : k <= i}
<1>1. IsFiniteSet(kept) /\ Cardinality(kept) \in Nat
  <2>1. IsFiniteSet(1..N)
    BY FS_Interval
  <2> QED
    BY <2>1, FS_Subset, FS_CardinalityType
<1>2. \A i \in 0..N : IsFiniteSet(Up(i)) /\ Cardinality(Up(i)) \in 0..Cardinality(kept)
  BY <1>1, FS_Subset, FS_CardinalityType
<1>3. Up(0) = {} /\ Up(N) = kept
  <2>1. \A k \in kept : ~(k <= 0) /\ k <= N
    OBVIOUS
  <2> QED
    BY <2>1
<1>4. ASSUME NEW i \in 0..N, NEW k \in 0..N, i <= k
      PROVE  Up(i) \subseteq Up(k)
  <2>1. \A x \in kept : x <= i => x <= k
    BY <1>4
  <2> QED
    BY <2>1
<1>5. \A i, k \in 0..N : i <= k => Cardinality(Up(i)) <= Cardinality(Up(k))
  BY <1>2, <1>4, FS_Subset
<1>6. ASSUME NEW k \in kept
      PROVE  Cardinality(Up(k)) = Cardinality(Up(k - 1)) + 1
  <2>1. \A x \in kept : (x <= k <=> x <= k - 1 \/ x = k) /\ ~(k <= k - 1)
    OBVIOUS
  <2>2. Up(k) = Up(k - 1) \cup {k} /\ k \notin Up(k - 1)
    BY <2>1
  <2>3. k - 1 \in 0..N
    OBVIOUS
  <2> HIDE DEF Up
  <2>4. IsFiniteSet(Up(k - 1)) /\ Cardinality(Up(k - 1)) \in Nat
    BY <1>2, <2>3
  <2> QED
    BY <2>2, <2>4, FS_AddElement
<1>7. ASSUME NEW k \in 1..N, k \notin kept
      PROVE  Cardinality(Up(k)) = Cardinality(Up(k - 1))
  <2>1. \A x \in kept : x <= k <=> x <= k - 1
    BY <1>7
  <2>2. Up(k) = Up(k - 1)
    BY <2>1
  <2> QED
    BY <2>2
<1> QED
  BY <1>1, <1>2, <1>3, <1>5, <1>6, <1>7, FS_EmptySet DEF MapIndex

\* Every index up to the number of kept ones is the place of one of them.
LEMMA MappedOnto ==
    ASSUME NEW N \in Nat, NEW kept \in SUBSET (1..N), NEW n \in 1..Cardinality(kept)
    PROVE  \E k \in kept : MapIndex(kept, k) = n
<1> DEFINE Reach == {k \in 0..N : n <= MapIndex(kept, k)}
<1>1. N \in Reach
  BY Mapped
<1>2. PICK k \in Reach : \A i \in Reach : k <= i
  <2> HIDE DEF Reach
  <2>1. Reach \in SUBSET Nat
    BY DEF Reach
  <2> QED
    BY <1>1, <2>1, Least
<1>3. k # 0
  BY Mapped
<1>4. k - 1 \notin Reach /\ k - 1 \in 0..N
  BY <1>2, <1>3
<1>5. MapIndex(kept, k - 1) < n /\ n <= MapIndex(kept, k)
  <2>1. MapIndex(kept, k - 1) \in Nat
    BY <1>4, Mapped
  <2> QED
    BY <1>4, <2>1
<1>6. k \in kept
  BY <1>3, <1>4, <1>5, Mapped
<1> QED
  BY <1>4, <1>5, <1>6, Mapped

-----------------------------------------------------------------------------
(***************************************************************************)
(* The journal as a sequence, and what compaction does to it.              *)
(***************************************************************************)

\* An increasing sequence cut at n, and the entry behind the cut.
LEMMA Cut ==
    ASSUME NEW T \in SUBSET Nat, NEW j \in Seq(T), Increasing(j), NEW n \in 0..Len(j)
    PROVE  /\ \A x \in Before(j, n), y \in After(j, n) : x < y
           /\ Before(j, n) \subseteq T /\ After(j, n) \subseteq T
           /\ Before(j, n) \cup After(j, n) = Range(j)
           /\ n < Len(j) =>
                /\ j[n + 1] \in T /\ j[n + 1] \in After(j, n)
                /\ \A y \in After(j, n) : j[n + 1] <= y
                /\ After(j, n + 1) = After(j, n) \ {j[n + 1]}
                /\ Before(j, n + 1) = Before(j, n) \cup {j[n + 1]}
           /\ After(j, n) = {} <=> n = Len(j)
<1>1. \A i \in 1..Len(j) : j[i] \in T /\ j[i] \in Nat
  BY ElementOfSeq
<1>2. \A x \in Before(j, n), y \in After(j, n) : x < y
  <2>1. ASSUME NEW i \in 1..n, NEW k \in (n + 1)..Len(j)
        PROVE  j[i] < j[k]
    <3>1. i \in 1..Len(j) /\ k \in 1..Len(j) /\ i < k
      OBVIOUS
    <3> QED
      BY <3>1 DEF Increasing
  <2> QED
    BY <2>1 DEF Before, After
<1>3. Before(j, n) \subseteq T /\ After(j, n) \subseteq T
  BY <1>1 DEF Before, After
<1>4. Before(j, n) \cup After(j, n) = Range(j)
  <2>1. \A i \in DOMAIN j : i \in 1..n \/ i \in (n + 1)..Len(j)
    OBVIOUS
  <2>2. \A i : i \in 1..n \/ i \in (n + 1)..Len(j) => i \in DOMAIN j
    OBVIOUS
  <2> QED
    BY <2>1, <2>2 DEF Before, After, Range
<1>5. ASSUME n < Len(j)
      PROVE  /\ j[n + 1] \in T /\ j[n + 1] \in After(j, n)
             /\ \A y \in After(j, n) : j[n + 1] <= y
             /\ After(j, n + 1) = After(j, n) \ {j[n + 1]}
             /\ Before(j, n + 1) = Before(j, n) \cup {j[n + 1]}
  <2>1. n + 1 \in 1..Len(j) /\ n + 1 \in (n + 1)..Len(j)
    BY <1>5
  <2>2. j[n + 1] \in T /\ j[n + 1] \in After(j, n)
    BY <1>1, <2>1 DEF After
  <2>3. \A i \in (n + 1)..Len(j) : i = n + 1 \/ j[n + 1] < j[i]
    BY <1>1, <2>1 DEF Increasing
  <2>4. \A y \in After(j, n) : j[n + 1] <= y
    BY <1>1, <2>1, <2>3 DEF After
  <2>5. \A i \in (n + 1)..Len(j) : i # n + 1 <=> j[i] # j[n + 1]
    BY <1>1, <2>1, <2>3
  <2>6. \A i : i \in (n + 2)..Len(j) <=> i \in (n + 1)..Len(j) /\ i # n + 1
    BY <1>5
  <2>7. After(j, n + 1) = After(j, n) \ {j[n + 1]}
    <3>1. After(j, n + 1) = {j[i] : i \in (n + 2)..Len(j)}
      BY DEF After
    <3> QED
      BY <2>5, <2>6, <3>1 DEF After
  <2>8. \A i : i \in 1..(n + 1) <=> i \in 1..n \/ i = n + 1
    OBVIOUS
  <2>9. Before(j, n + 1) = Before(j, n) \cup {j[n + 1]}
    BY <2>8 DEF Before
  <2> QED
    BY <2>2, <2>4, <2>7, <2>9
<1>6. After(j, n) = {} <=> n = Len(j)
  <2>1. n = Len(j) => After(j, n) = {}
    BY DEF After
  <2> QED
    BY <1>5, <2>1
<1> QED
  BY <1>2, <1>3, <1>4, <1>5, <1>6

\* The entries at the kept indices.
LEMMA Picked ==
    ASSUME NEW T, journal \in Seq(T), NEW kept \in SUBSET (1..Len(journal)), NEW j,
           j = EntriesAt(kept)
    PROVE  /\ j \in Seq(T) /\ Len(j) = Cardinality(kept)
           /\ \A k \in kept : /\ MapIndex(kept, k) \in 1..Len(j)
                              /\ j[MapIndex(kept, k)] = journal[k]
           /\ \A n \in 1..Len(j) : \E k \in kept : MapIndex(kept, k) = n
           /\ \A i \in 0..Len(journal) : MapIndex(kept, i) \in 0..Len(j)
           /\ \A k \in kept : \A i \in 0..Len(journal) :
                 k <= i <=> MapIndex(kept, k) <= MapIndex(kept, i)
<1> DEFINE m(i) == MapIndex(kept, i)
           at(n) == CHOOSE k \in kept : m(k) = n
<1> HIDE DEF m
<1>1. Len(journal) \in Nat /\ Cardinality(kept) \in Nat
  BY Mapped
<1>2. \A i \in 0..Len(journal) : m(i) \in 0..Cardinality(kept)
  BY <1>1, Mapped DEF m
<1>3. ASSUME NEW k \in kept, NEW i \in 0..Len(journal)
      PROVE  k <= i <=> m(k) <= m(i)
  <2>1. k \in 0..Len(journal) /\ k - 1 \in 0..Len(journal)
    OBVIOUS
  <2>2. k <= i => m(k) <= m(i)
    BY <1>1, <2>1, Mapped DEF m
  <2>3. i <= k - 1 => m(i) <= m(k - 1)
    BY <1>1, <2>1, Mapped DEF m
  <2>4. m(k) = m(k - 1) + 1
    BY <1>1, Mapped DEF m
  <2>5. m(k) \in Nat /\ m(k - 1) \in Nat /\ m(i) \in Nat
    BY <1>1, <1>2, <2>1
  <2> QED
    BY <2>2, <2>3, <2>4, <2>5
<1>4. \A n \in 1..Cardinality(kept) : at(n) \in kept /\ m(at(n)) = n
  BY <1>1, MappedOnto DEF m
<1>5. \A k \in kept : m(k) \in 1..Cardinality(kept)
  <2> TAKE k \in kept
  <2>1. m(k) = m(k - 1) + 1
    BY <1>1, Mapped DEF m
  <2>2. k \in 0..Len(journal) /\ k - 1 \in 0..Len(journal)
    OBVIOUS
  <2>3. m(k - 1) \in 0..Cardinality(kept) /\ m(k) \in 0..Cardinality(kept)
    BY <1>2, <2>2
  <2> QED
    BY <1>1, <2>1, <2>3
<1>6. \A k, l \in kept : m(k) = m(l) => k = l
  <2> SUFFICES ASSUME NEW k \in kept, NEW l \in kept, m(k) = m(l) PROVE k = l
    OBVIOUS
  <2>1. k \in 0..Len(journal) /\ l \in 0..Len(journal)
    OBVIOUS
  <2>2. m(k) \in Nat /\ m(l) \in Nat
    BY <1>1, <1>2, <2>1
  <2>3. k <= l /\ l <= k
    BY <1>3, <2>1, <2>2
  <2> QED
    BY <2>1, <2>3
<1>7. j = [n \in 1..Cardinality(kept) |-> journal[at(n)]]
  BY DEF EntriesAt, m
<1>8. j \in Seq(T) /\ Len(j) = Cardinality(kept)
  <2> HIDE DEF at
  <2>1. \A n \in 1..Cardinality(kept) : journal[at(n)] \in T
    BY <1>4, ElementOfSeq
  <2> QED
    BY <1>1, <1>7, <2>1, IsASeq
<1>9. \A k \in kept : j[m(k)] = journal[k]
  <2> TAKE k \in kept
  <2>1. m(k) \in 1..Cardinality(kept)
    BY <1>5
  <2>2. at(m(k)) = k
    BY <1>4, <1>6, <2>1
  <2>3. j[m(k)] = journal[at(m(k))]
    <3> HIDE DEF at
    <3> QED
      BY <1>7, <2>1
  <2> QED
    BY <2>2, <2>3
<1> QED
  BY <1>2, <1>3, <1>4, <1>5, <1>8, <1>9 DEF m

\* An increasing sequence of numbers up to n is not longer than n.
LEMMA FitsIn ==
    ASSUME NEW n \in Nat, NEW j \in Seq(1..n), Increasing(j)
    PROVE  Len(j) <= n
<1> DEFINE Low == {i \in 1..Len(j) : j[i] < i}
<1>1. \A i \in 1..Len(j) : j[i] \in 1..n
  BY ElementOfSeq
<1>2. Len(j) \in Nat
  OBVIOUS
<1>3. Low = {}
  <2> SUFFICES ASSUME Low # {} PROVE FALSE
    OBVIOUS
  <2>1. PICK i \in Low : \A k \in Low : i <= k
    <3>1. Low \in SUBSET Nat
      OBVIOUS
    <3> HIDE DEF Low
    <3> QED
      BY <3>1, Least
  <2>2. i # 1 /\ i - 1 \in 1..Len(j) /\ i - 1 \notin Low
    BY <1>1, <1>2, <2>1
  <2>3. j[i - 1] < j[i]
    BY <2>1, <2>2 DEF Increasing
  <2>4. j[i - 1] \in Nat /\ j[i] \in Nat
    BY <1>1, <2>1, <2>2
  <2> QED
    BY <2>1, <2>2, <2>3, <2>4
<1> QED
  BY <1>1, <1>2, <1>3

\* What compaction does to the entries before the cursor, those behind it being P.
Thinned(B, B2, P, aged, done) ==
    /\ B2 \subseteq B
    /\ \A c \in B \ B2 : IsAudio(c) => c \in aged
    /\ \A c \in B2 : IsAudio(c) => c \notin aged
    /\ \A c \in B : ~IsAudio(c) /\ (\E a \in B2 \cup P : IsAudio(a) /\ a > c) => c \in B2
    /\ \A c \in B : ~IsAudio(c) /\ c \in done /\ (\A d \in B \cup P : d \in done => d <= c)
                       => c \in B2

LEMMA Sizes ==
    ASSUME SttTypeOK
    PROVE  /\ Len(log) \in Nat /\ DOMAIN log = 1..Len(log) /\ DOMAIN log \in SUBSET Nat
           /\ Len(log) <= MaxCommands
           /\ journal \in Seq(DOMAIN log)
           /\ Len(journal) \in Nat /\ DOMAIN journal = 1..Len(journal)
           /\ \A i \in 1..Len(journal) : journal[i] \in DOMAIN log /\ journal[i] \in Nat
           /\ cursor \in 0..Len(journal) /\ replayStart \in 0..Len(journal)
           /\ replayBoundary \in 0..Len(journal)
<1>1. /\ log \in Seq({"audio", "commit"}) /\ Len(log) <= MaxCommands
      /\ journal \in Seq(DOMAIN log)
      /\ {cursor, replayStart, replayBoundary} \subseteq 0..Len(journal)
  BY DEF SttTypeOK
<1>2. Len(log) \in Nat /\ DOMAIN log = 1..Len(log)
  BY <1>1, LenProperties
<1>3. Len(journal) \in Nat /\ DOMAIN journal = 1..Len(journal)
  BY <1>1, LenProperties
<1>4. \A i \in 1..Len(journal) : journal[i] \in DOMAIN log
  BY <1>1, ElementOfSeq
<1> QED
  BY <1>1, <1>2, <1>3, <1>4

\* What compaction returns, for a cursor, the aged audio and the settled commits.
Shrinks(c, cur, aged, done) ==
    /\ c.journal \in Seq(DOMAIN log) /\ Increasing(c.journal)
    /\ {c.cursor, c.replayStart, c.replayBoundary} \subseteq 0..Len(c.journal)
    /\ After(c.journal, c.cursor) = After(journal, cur)
    /\ Thinned(Before(journal, cur), Before(c.journal, c.cursor), After(journal, cur),
               aged, done)
    /\ c.cursor < Len(c.journal) <=> cur < Len(journal)
    /\ cur < Len(journal) => c.journal[c.cursor + 1] = journal[cur + 1]
    /\ Between(c.journal, c.cursor, c.replayBoundary) = Between(journal, cur, replayBoundary)
    /\ cur >= replayBoundary => c.cursor >= c.replayBoundary
    /\ cur = replayStart => c.cursor = c.replayStart
    /\ replayBoundary = 0 => c.replayBoundary = 0
    /\ wait.set /\ wait.boundary = replayBoundary
         => c.wait = [wait EXCEPT !.boundary = c.replayBoundary]
    /\ ~wait.set => c.wait = wait

LEMMA Compaction ==
    ASSUME SttTypeOK, Increasing(journal), NEW cur \in 0..Len(journal), NEW aged, NEW done,
           NEW c, c = Compacted(cur, aged, done)
    PROVE  Shrinks(c, cur, aged, done)
<1> DEFINE kept == Kept(cur, aged, done)
           j == EntriesAt(kept)
           m(i) == MapIndex(kept, i)
<1>1. /\ c.journal = j /\ c.cursor = m(cur) /\ c.replayStart = m(replayStart)
      /\ c.replayBoundary = m(replayBoundary)
      /\ wait.set /\ wait.boundary = replayBoundary
           => c.wait = [wait EXCEPT !.boundary = c.replayBoundary]
      /\ ~wait.set => c.wait = wait
  BY DEF Compacted
<1>3. journal \in Seq(DOMAIN log) /\ Len(journal) \in Nat /\ DOMAIN journal = 1..Len(journal)
  BY Sizes
<1>2. kept \in SUBSET (1..Len(journal)) /\ (cur + 1)..Len(journal) \subseteq kept
  <2>1. /\ RetainedAudio(cur, aged) \subseteq 1..Len(journal)
        /\ RetainedCommits(cur, aged, done) \subseteq 1..Len(journal)
    BY <1>3 DEF RetainedAudio, RetainedCommits
  <2>2. (cur + 1)..Len(journal) \subseteq 1..Len(journal)
    BY <1>3
  <2> QED
    BY <2>1, <2>2 DEF Kept
<1> HIDE DEF kept, m, j
<1>4. /\ j \in Seq(DOMAIN log)
      /\ \A k \in kept : m(k) \in 1..Len(j) /\ j[m(k)] = journal[k]
      /\ \A n \in 1..Len(j) : \E k \in kept : m(k) = n
      /\ \A i \in 0..Len(journal) : m(i) \in 0..Len(j)
      /\ \A k \in kept : \A i \in 0..Len(journal) : k <= i <=> m(k) <= m(i)
  BY <1>2, <1>3, Picked DEF m, j
<1>5. /\ m(0) = 0
      /\ \A i, k \in 0..Len(journal) : i <= k => m(i) <= m(k)
      /\ \A k \in kept : m(k) = m(k - 1) + 1
      /\ m(Len(journal)) = Len(j)
  BY <1>2, <1>3, Mapped, Picked DEF m, j
<1>6. \A k \in kept : k \in 0..Len(journal) /\ k \in 1..Len(journal)
  BY <1>2
<1>7. {replayStart, replayBoundary, cur} \subseteq 0..Len(journal)
  BY Sizes
<1>8. Len(j) \in Nat
  BY <1>4
<1>9. Increasing(j)
  <2> SUFFICES ASSUME NEW x \in 1..Len(j), NEW y \in 1..Len(j), x < y PROVE j[x] < j[y]
    BY DEF Increasing
  <2>1. PICK k \in kept : m(k) = x
    BY <1>4
  <2>2. PICK l \in kept : m(l) = y
    BY <1>4
  <2>3. ~(l <= k)
    BY <1>4, <1>6, <1>8, <2>1, <2>2
  <2>4. k < l
    BY <1>6, <2>3
  <2> QED
    BY <1>4, <1>6, <2>1, <2>2, <2>4 DEF Increasing
<1> DEFINE Mine(x, y) == {j[n] : n \in (m(x) + 1)..m(y)}
           Theirs(x, y) == {journal[k] : k \in kept \cap (x + 1)..y}
<1>10. ASSUME NEW x \in 0..Len(journal), NEW y \in 0..Len(journal)
       PROVE  Mine(x, y) = Theirs(x, y)
  <2>1. m(x) \in 0..Len(j) /\ m(y) \in 0..Len(j)
    BY <1>4
  <2>2. ASSUME NEW n \in (m(x) + 1)..m(y)
        PROVE  j[n] \in Theirs(x, y)
    <3>1. n \in 1..Len(j) /\ ~(n <= m(x)) /\ n <= m(y)
      BY <1>8, <2>1
    <3>2. PICK k \in kept : m(k) = n
      BY <1>4, <3>1
    <3>3. ~(k <= x) /\ k <= y
      BY <1>4, <3>1, <3>2
    <3>4. k \in kept \cap (x + 1)..y
      BY <1>6, <3>3
    <3> QED
      BY <1>4, <3>2, <3>4
  <2>3. ASSUME NEW k \in kept \cap (x + 1)..y
        PROVE  journal[k] \in Mine(x, y)
    <3>1. ~(k <= x) /\ k <= y
      OBVIOUS
    <3>2. ~(m(k) <= m(x)) /\ m(k) <= m(y) /\ m(k) \in 1..Len(j)
      BY <1>4, <3>1
    <3>3. m(k) \in (m(x) + 1)..m(y)
      BY <1>8, <2>1, <3>2
    <3> QED
      BY <1>4, <3>3
  <2>4. \A z \in Mine(x, y) : z \in Theirs(x, y)
    BY <2>2
  <2>5. \A z \in Theirs(x, y) : z \in Mine(x, y)
    BY <2>3
  <2> HIDE DEF Mine, Theirs
  <2> QED
    BY <2>4, <2>5
<1> HIDE DEF Mine, Theirs
<1>11. After(j, m(cur)) = After(journal, cur)
  <2>1. Theirs(cur, Len(journal)) = After(journal, cur)
    <3>1. kept \cap (cur + 1)..Len(journal) = (cur + 1)..Len(journal)
      BY <1>2
    <3> QED
      BY <3>1 DEF Theirs, After
  <2>2. Mine(cur, Len(journal)) = After(j, m(cur))
    BY <1>5 DEF Mine, After
  <2>3. Len(journal) \in 0..Len(journal)
    BY <1>3
  <2> QED
    BY <1>10, <2>1, <2>2, <2>3
<1>12. Between(j, m(cur), m(replayBoundary)) = Between(journal, cur, replayBoundary)
  <2>1. Theirs(cur, replayBoundary) = Between(journal, cur, replayBoundary)
    <3>1. (cur + 1)..replayBoundary \subseteq (cur + 1)..Len(journal)
      BY <1>3, <1>7
    <3>2. kept \cap (cur + 1)..replayBoundary = (cur + 1)..replayBoundary
      BY <1>2, <3>1
    <3> QED
      BY <3>2 DEF Theirs, Between
  <2>2. Mine(cur, replayBoundary) = Theirs(cur, replayBoundary)
    BY <1>7, <1>10
  <2> QED
    BY <2>1, <2>2 DEF Mine, Between
<1>13. Before(j, m(cur)) = {journal[k] : k \in kept \cap 1..cur}
  <2>1. 0 \in 0..Len(journal) /\ 0 + 1 = 1 /\ m(0) + 1 = 1
    BY <1>3, <1>5
  <2>2. Mine(0, cur) = Theirs(0, cur)
    BY <1>10, <2>1
  <2>3. Mine(0, cur) = Before(j, m(cur))
    BY <2>1 DEF Mine, Before
  <2>4. Theirs(0, cur) = {journal[k] : k \in kept \cap 1..cur}
    BY <2>1 DEF Theirs
  <2> QED
    BY <2>2, <2>3, <2>4
<1>14. /\ m(cur) < Len(j) <=> cur < Len(journal)
       /\ cur < Len(journal) => j[m(cur) + 1] = journal[cur + 1]
  <2>1. ASSUME cur < Len(journal)
        PROVE  m(cur) < Len(j) /\ j[m(cur) + 1] = journal[cur + 1]
    <3>1. cur + 1 \in kept
      BY <1>2, <2>1
    <3>2. (cur + 1) - 1 = cur
      OBVIOUS
    <3>3. m(cur + 1) = m(cur) + 1
      BY <1>5, <3>1, <3>2
    <3>4. m(cur + 1) \in 1..Len(j) /\ m(cur) \in 0..Len(j) /\ j[m(cur + 1)] = journal[cur + 1]
      BY <1>4, <3>1
    <3> QED
      BY <1>8, <3>3, <3>4
  <2>2. cur = Len(journal) => m(cur) = Len(j)
    BY <1>5
  <2>3. cur < Len(journal) \/ cur = Len(journal)
    <3> PICK n : n = Len(journal)
      OBVIOUS
    <3>1. n \in Nat /\ cur \in 0..n
      BY <1>3
    <3>2. cur < n \/ cur = n
      BY <3>1
    <3> QED
      BY <3>2
  <2> QED
    BY <1>4, <1>8, <2>1, <2>2, <2>3
<1>15. Thinned(Before(journal, cur), Before(j, m(cur)), After(journal, cur), aged, done)
  <2> DEFINE B == Before(journal, cur)
             B2 == Before(j, m(cur))
             P == After(journal, cur)
             all == 1..Len(journal)
  <2>1. \A x \in B : \E i \in all : i <= cur /\ x = journal[i]
    BY <1>3 DEF Before
  <2>2. \A x \in B2 : \E i \in kept : i <= cur /\ x = journal[i]
    BY <1>13
  <2>3. \A x \in P : \E i \in kept : i > cur /\ x = journal[i]
    BY <1>2, <1>3 DEF After
  <2>4. \A i \in kept : i <= cur => journal[i] \in B2
    BY <1>6, <1>13
  <2>5. \A i \in all : journal[i] \in Nat
    BY Sizes
  <2>6. \A i, k \in all : i < k <=> journal[i] < journal[k]
    BY <2>5, <1>3 DEF Increasing
  <2>7. \A i \in all : i \in kept <=>
           \/ IsAudio(journal[i]) /\ (i > cur \/ journal[i] \notin aged)
           \/ i > cur
           \/ i \in RetainedCommits(cur, aged, done)
    BY <1>3 DEF kept, Kept, RetainedAudio, RetainedCommits
  <2>8. \A i \in all : i \in RetainedCommits(cur, aged, done) <=>
           /\ ~IsAudio(journal[i])
           /\ \/ journal[i] \in done /\ \A k \in all : journal[k] \in done => k <= i
              \/ \E a \in kept : IsAudio(journal[a]) /\ a > i
    BY <1>3, <1>6, <2>7 DEF RetainedAudio, RetainedCommits
  <2> HIDE DEF B, B2, P, all
  <2>9. B2 \subseteq B
    <3>1. \A i \in all : i <= cur => journal[i] \in B
      BY DEF B, Before, all
    <3> QED
      BY <1>6, <2>2, <3>1 DEF all
  <2>10. \A x \in B \ B2 : IsAudio(x) => x \in aged
    BY <2>1, <2>4, <2>7
  <2>11. \A x \in B2 : IsAudio(x) => x \notin aged
    BY <1>6, <2>2, <2>7, <2>8 DEF all
  <2>12. ASSUME NEW x \in B, ~IsAudio(x), NEW a \in B2 \cup P, IsAudio(a), a > x
         PROVE  x \in B2
    <3>1. PICK i \in all : i <= cur /\ x = journal[i]
      BY <2>1
    <3>2. PICK k \in kept : a = journal[k]
      BY <2>2, <2>3
    <3>3. k > i
      BY <1>6, <2>5, <2>6, <2>12, <3>1, <3>2 DEF all
    <3> QED
      BY <2>4, <2>7, <2>8, <2>12, <3>1, <3>2, <3>3
  <2>13. ASSUME NEW x \in B, ~IsAudio(x), x \in done, \A d \in B \cup P : d \in done => d <= x
         PROVE  x \in B2
    <3>1. PICK i \in all : i <= cur /\ x = journal[i]
      BY <2>1
    <3>2. \A k \in all : journal[k] \in B \cup P
      BY <1>3 DEF B, P, Before, After, all
    <3>3. \A k \in all : journal[k] \in done => k <= i
      BY <1>3, <2>5, <2>6, <2>13, <3>1, <3>2 DEF all
    <3> QED
      BY <2>4, <2>7, <2>8, <2>13, <3>1, <3>3
  <2> QED
    BY <2>9, <2>10, <2>11, <2>12, <2>13 DEF Thinned, B, B2, P
<1>16. /\ cur >= replayBoundary => m(cur) >= m(replayBoundary)
       /\ cur = replayStart => m(cur) = m(replayStart)
       /\ replayBoundary = 0 => m(replayBoundary) = 0
       /\ {m(cur), m(replayStart), m(replayBoundary)} \subseteq 0..Len(j)
  <2>1. cur >= replayBoundary => m(cur) >= m(replayBoundary)
    <3>1. m(cur) \in Nat /\ m(replayBoundary) \in Nat
      BY <1>4, <1>7, <1>8
    <3>2. replayBoundary <= cur => m(replayBoundary) <= m(cur)
      BY <1>5, <1>7
    <3> QED
      BY <1>7, <3>1, <3>2
  <2>2. m(cur) \in 0..Len(j) /\ m(replayStart) \in 0..Len(j) /\ m(replayBoundary) \in 0..Len(j)
    BY <1>4, <1>7
  <2>3. replayBoundary = 0 => m(replayBoundary) = 0
    BY <1>5
  <2> QED
    BY <2>1, <2>2, <2>3
<1>17. /\ c.journal \in Seq(DOMAIN log) /\ Increasing(c.journal)
       /\ {c.cursor, c.replayStart, c.replayBoundary} \subseteq 0..Len(c.journal)
  BY <1>1, <1>4, <1>9, <1>16
<1>18. /\ After(c.journal, c.cursor) = After(journal, cur)
       /\ Thinned(Before(journal, cur), Before(c.journal, c.cursor), After(journal, cur),
                  aged, done)
       /\ Between(c.journal, c.cursor, c.replayBoundary) = Between(journal, cur, replayBoundary)
  BY <1>1, <1>11, <1>12, <1>15
<1> QED
  BY <1>1, <1>14, <1>16, <1>17, <1>18 DEF Shrinks

-----------------------------------------------------------------------------
(***************************************************************************)
(* Each thing that happens to the journal leaves what it keeps.            *)
(***************************************************************************)
\* The sets are sets of commands of a log of N.
Commands(N, A, C, W, P, aged, done) ==
    /\ N \in Nat /\ A \cup C = 1..N /\ A \cap C = {}
    /\ W \cup P \subseteq 1..N /\ aged \subseteq A /\ done \subseteq C

\* Compaction keeps it.
LEMMA KeepsThinned ==
    ASSUME NEW N, NEW A, NEW C, NEW W, NEW P, NEW aged, NEW done, NEW acc, NEW W2,
           Commands(N, A, C, W, P, aged, done), Keeps(A, C, W, P, aged, done, acc),
           W2 \subseteq W,
           \A x \in W \ W2 : x \in A => x \in aged,
           \A x \in W2 : x \in A => x \notin aged,
           \A x \in W : x \in C /\ (\E a \in W2 \cup P : a \in A /\ a > x) => x \in W2,
           \A x \in W : x \in done /\ (\A d \in W \cup P : d \in done => d <= x) => x \in W2
    PROVE  Keeps(A, C, W2, P, aged, done, acc)
<1> USE DEF Commands
<1>1. \A x \in W2, y \in P : x < y
  BY DEF Keeps
<1>2. ASSUME NEW a \in A, NEW b \in A, a < b, a \in W2 \cup P
      PROVE  b \in W2 \cup P
  <2>1. b \in W \cup P
    BY <1>2 DEF Keeps
  <2>2. a \notin aged
    BY <1>2 DEF Keeps
  <2>3. b \notin aged
    BY <1>2, <2>2 DEF Keeps
  <2> QED
    BY <2>1, <2>3
<1>3. \A a \in A : a \notin W2 \cup P => a \in aged
  BY DEF Keeps
<1>4. ASSUME NEW c \in C, c \in done
      PROVE  \E d \in C : d \in W2 \cup P /\ d \in done /\ c <= d
  <2> DEFINE T == {d \in done : d \in W \cup P}
  <2>1. PICK d \in C : d \in W \cup P /\ d \in done /\ c <= d
    BY <1>4 DEF Keeps
  <2>2. T \in SUBSET (0..N) /\ T # {}
    BY <2>1
  <2>3. PICK e \in T : \A k \in T : k <= e
    <3> HIDE DEF T
    <3> QED
      BY <2>2, Greatest
  <2>4. e \in W2 \cup P
    BY <2>3
  <2>5. d <= e /\ e \in C /\ e \in done
    BY <2>1, <2>3
  <2>6. c <= e
    BY <2>1, <2>5
  <2> QED
    BY <2>4, <2>5, <2>6
<1>5. ASSUME NEW a \in A, NEW b \in A, NEW c \in C, a \in W2 \cup P, b \in W2 \cup P, a < c, c < b
      PROVE  \E d \in C : d \in W2 \cup P /\ a < d /\ d < b
  <2>1. PICK d \in C : d \in W \cup P /\ a < d /\ d < b
    BY <1>5 DEF Keeps
  <2>2. b > d
    BY <2>1
  <2>3. d \in W2 \cup P
    BY <1>5, <2>1, <2>2
  <2> QED
    BY <2>1, <2>3
<1>6. /\ \A a, b \in A : a < b /\ b \in aged => a \in aged
      /\ \A a \in A : a \in P => a \notin aged
      /\ \A c \in C : c \notin done => c \in P
      /\ W2 \subseteq acc /\ aged \subseteq acc
  BY DEF Keeps
<1>7. \A a, b \in A : a < b /\ a \in W2 \cup P => b \in W2 \cup P
  BY <1>2
<1>8. \A c \in C : c \in done => \E d \in C : d \in W2 \cup P /\ d \in done /\ c <= d
  BY <1>4
<1>9. \A a, b \in A : \A c \in C :
          a \in W2 \cup P /\ b \in W2 \cup P /\ a < c /\ c < b =>
             \E d \in C : d \in W2 \cup P /\ a < d /\ d < b
  BY <1>5
<1> QED
  BY <1>1, <1>3, <1>6, <1>7, <1>8, <1>9 DEF Keeps

\* So does the admission of audio, and of a commit.
LEMMA KeepsAudio ==
    ASSUME NEW N, NEW A, NEW C, NEW W, NEW P, NEW aged, NEW done, NEW acc,
           Commands(N, A, C, W, P, aged, done), Keeps(A, C, W, P, aged, done, acc)
    PROVE  Keeps(A \cup {N + 1}, C, W, P \cup {N + 1}, aged, done, acc)
<1> DEFINE n == N + 1
<1>1. n \notin A \cup C /\ n \notin aged /\ \A x \in A \cup C : x \in Nat /\ x < n
  BY DEF Commands
<1>2. n \in Nat /\ W \subseteq A \cup C /\ P \subseteq A \cup C
  BY DEF Commands
<1> HIDE DEF n
<1>3. ASSUME NEW a \in A \cup {n}, NEW b \in A \cup {n}, NEW c \in C,
             a \in W \cup P \cup {n}, b \in W \cup P \cup {n}, a < c, c < b
      PROVE  \E d \in C : d \in W \cup P \cup {n} /\ a < d /\ d < b
  <2>1. a \in A /\ a \in W \cup P
    BY <1>1, <1>2, <1>3
  <2>2. CASE b # n
    BY <1>3, <2>1, <2>2 DEF Keeps
  <2>3. CASE b = n
    <3>1. CASE c \in done
      <4>1. PICK d \in C : d \in W \cup P /\ d \in done /\ c <= d
        BY <3>1 DEF Keeps
      <4>2. a < d /\ d < b
        BY <1>1, <1>3, <2>1, <2>3, <4>1
      <4> QED
        BY <4>1, <4>2
    <3>2. CASE c \notin done
      BY <1>3, <3>2 DEF Keeps
    <3> QED
      BY <3>1, <3>2
  <2> QED
    BY <2>2, <2>3
<1>4. \A x \in W, y \in P \cup {n} : x < y
  BY <1>1, <1>2 DEF Keeps
<1>5. \A a, b \in A \cup {n} : a < b /\ a \in W \cup P \cup {n} => b \in W \cup P \cup {n}
  BY <1>1, <1>2 DEF Keeps
<1>6. \A a, b \in A \cup {n} : a < b /\ b \in aged => a \in aged
  BY <1>1, <1>2 DEF Keeps, Commands
<1>7. /\ \A a \in A \cup {n} : a \in P \cup {n} => a \notin aged
      /\ \A a \in A \cup {n} : a \notin W \cup P \cup {n} => a \in aged
  BY <1>1 DEF Keeps
<1>8. /\ \A c \in C : c \notin done => c \in P \cup {n}
      /\ \A c \in C : c \in done => \E d \in C : d \in W \cup P \cup {n} /\ d \in done /\ c <= d
  BY DEF Keeps
<1>9. W \cup (P \cup {n}) = W \cup P \cup {n}
  OBVIOUS
<1>10. \A a, b \in A \cup {n} : \A c \in C :
          a \in W \cup P \cup {n} /\ b \in W \cup P \cup {n} /\ a < c /\ c < b =>
             \E d \in C : d \in W \cup P \cup {n} /\ a < d /\ d < b
  BY <1>3
<1>11. W \subseteq acc /\ aged \subseteq acc
  BY DEF Keeps
<1>12. Keeps(A \cup {n}, C, W, P \cup {n}, aged, done, acc)
  BY <1>4, <1>5, <1>6, <1>7, <1>8, <1>9, <1>10, <1>11 DEF Keeps
<1> QED
  BY <1>12 DEF n

LEMMA KeepsCommit ==
    ASSUME NEW N, NEW A, NEW C, NEW W, NEW P, NEW aged, NEW done, NEW acc,
           Commands(N, A, C, W, P, aged, done), Keeps(A, C, W, P, aged, done, acc)
    PROVE  Keeps(A, C \cup {N + 1}, W, P \cup {N + 1}, aged, done, acc)
<1> DEFINE n == N + 1
<1>1. n \notin A \cup C /\ n \notin aged /\ \A x \in A \cup C : x \in Nat /\ x < n
  BY DEF Commands
<1>2. n \in Nat /\ W \subseteq A \cup C /\ P \subseteq A \cup C /\ n \notin done
  BY <1>1 DEF Commands
<1> HIDE DEF n
<1>3. ASSUME NEW a \in A, NEW b \in A, NEW c \in C \cup {n},
             a \in W \cup P \cup {n}, b \in W \cup P \cup {n}, a < c, c < b
      PROVE  \E d \in C \cup {n} : d \in W \cup P \cup {n} /\ a < d /\ d < b
  <2>1. a # n /\ b # n /\ c # n
    BY <1>1, <1>2, <1>3
  <2> QED
    BY <1>3, <2>1 DEF Keeps
<1>4. \A x \in W, y \in P \cup {n} : x < y
  BY <1>1, <1>2 DEF Keeps
<1>5. \A a, b \in A : a < b /\ a \in W \cup P \cup {n} => b \in W \cup P \cup {n}
  BY <1>1, <1>2 DEF Keeps
<1>7. /\ \A a, b \in A : a < b /\ b \in aged => a \in aged
      /\ \A a \in A : a \in P \cup {n} => a \notin aged
      /\ \A a \in A : a \notin W \cup P \cup {n} => a \in aged
  BY <1>1 DEF Keeps
<1>8. /\ \A c \in C \cup {n} : c \notin done => c \in P \cup {n}
      /\ \A c \in C \cup {n} : c \in done =>
            \E d \in C \cup {n} : d \in W \cup P \cup {n} /\ d \in done /\ c <= d
  BY <1>2 DEF Keeps
<1>9. W \cup (P \cup {n}) = W \cup P \cup {n}
  OBVIOUS
<1>10. \A a, b \in A : \A c \in C \cup {n} :
          a \in W \cup P \cup {n} /\ b \in W \cup P \cup {n} /\ a < c /\ c < b =>
             \E d \in C \cup {n} : d \in W \cup P \cup {n} /\ a < d /\ d < b
  BY <1>3
<1>11. W \subseteq acc /\ aged \subseteq acc
  BY DEF Keeps
<1>12. Keeps(A, C \cup {n}, W, P \cup {n}, aged, done, acc)
  BY <1>4, <1>5, <1>7, <1>8, <1>9, <1>10, <1>11 DEF Keeps
<1> QED
  BY <1>12 DEF n

\* And the acceptance of the first pending command.
LEMMA KeepsAccepted ==
    ASSUME NEW N, NEW A, NEW C, NEW W, NEW P, NEW aged, NEW done, NEW acc, NEW x, NEW done2,
           Commands(N, A, C, W, P, aged, done), Keeps(A, C, W, P, aged, done, acc),
           x \in P, \A y \in P : x <= y, done2 = done \cup ({x} \cap C)
    PROVE  Keeps(A, C, W \cup {x}, P \ {x}, aged, done2, acc \cup {x})
<1>1. (W \cup {x}) \cup (P \ {x}) = W \cup P
  OBVIOUS
<1>2. W \cup P \subseteq Nat /\ x \in Nat /\ A \subseteq Nat /\ C \subseteq Nat
  BY DEF Commands
<1>3. \A w \in W \cup {x}, y \in P \ {x} : w < y
  BY <1>2 DEF Keeps
<1>4. ASSUME NEW c \in C, c \in done2
      PROVE  \E d \in C : d \in W \cup P /\ d \in done2 /\ c <= d
  <2>1. CASE c \in done
    BY <2>1 DEF Keeps
  <2>2. CASE c = x
    BY <1>2, <1>4, <2>2
  <2> QED
    BY <1>4, <2>1, <2>2
<1>5. \A c \in C : c \notin done2 => c \in P \ {x}
  BY DEF Keeps
<1>6. \A c \in C : c \in done2 => \E d \in C : d \in W \cup P /\ d \in done2 /\ c <= d
  BY <1>4
<1> QED
  BY <1>1, <1>3, <1>5, <1>6 DEF Keeps

\* And the last answer to every commit, more that is accepted, and the ageing of the
\* first fresh chunk.
LEMMA KeepsRejected ==
    ASSUME NEW N, NEW A, NEW C, NEW W, NEW P, NEW aged, NEW done, NEW acc,
           Commands(N, A, C, W, P, aged, done), Keeps(A, C, W, P, aged, done, acc)
    PROVE  Keeps(A, C, W, P, aged, C, acc)
<1>1. C \subseteq Nat
  BY DEF Commands
<1>2. ASSUME NEW c \in C
      PROVE  \E d \in C : d \in W \cup P /\ c <= d
  <2>1. CASE c \in done
    BY <2>1 DEF Keeps
  <2>2. CASE c \notin done
    BY <1>1, <2>2 DEF Keeps
  <2> QED
    BY <2>1, <2>2
<1> QED
  BY <1>2 DEF Keeps

LEMMA KeepsMore ==
    ASSUME NEW A, NEW C, NEW W, NEW P, NEW aged, NEW done, NEW acc, NEW acc2,
           Keeps(A, C, W, P, aged, done, acc), acc \subseteq acc2
    PROVE  Keeps(A, C, W, P, aged, done, acc2)
BY DEF Keeps

LEMMA KeepsAged ==
    ASSUME NEW N, NEW A, NEW C, NEW W, NEW P, NEW aged, NEW done, NEW acc, NEW x,
           Commands(N, A, C, W, P, aged, done), Keeps(A, C, W, P, aged, done, acc),
           x \in W, x \in A, \A y \in W : y \in A /\ y < x => y \in aged
    PROVE  Keeps(A, C, W, P, aged \cup {x}, done, acc)
<1>1. A \subseteq Nat /\ W \subseteq Nat /\ P \subseteq Nat
  BY DEF Commands
<1>2. ASSUME NEW a \in A, NEW b \in A, a < b, b \in aged \cup {x}
      PROVE  a \in aged \cup {x}
  <2>1. CASE b \in aged
    BY <1>2, <2>1 DEF Keeps
  <2>2. CASE b = x
    <3>1. CASE a \in W
      BY <1>2, <2>2, <3>1
    <3>2. CASE a \in P
      BY <1>1, <1>2, <2>2, <3>2 DEF Keeps
    <3>3. CASE a \notin W \cup P
      BY <3>3 DEF Keeps
    <3> QED
      BY <3>1, <3>2, <3>3
  <2> QED
    BY <1>2, <2>1, <2>2
<1>3. \A a \in A : a \in P => a \notin aged \cup {x}
  BY <1>1 DEF Keeps
<1>4. \A a, b \in A : a < b /\ b \in aged \cup {x} => a \in aged \cup {x}
  BY <1>2
<1>5. aged \cup {x} \subseteq acc
  BY DEF Keeps
<1> QED
  BY <1>3, <1>4, <1>5 DEF Keeps

\* And the move of the cursor back over fresh audio and commits.
LEMMA KeepsBack ==
    ASSUME NEW N, NEW A, NEW C, NEW W, NEW P, NEW aged, NEW done, NEW acc, NEW W2, NEW P2,
           Commands(N, A, C, W, P, aged, done), Keeps(A, C, W, P, aged, done, acc),
           W2 \subseteq W, W2 \cup P2 = W \cup P, P \subseteq P2, \A x \in W2, y \in P2 : x < y,
           \A a \in A : a \in P2 => a \notin aged
    PROVE  Keeps(A, C, W2, P2, aged, done, acc)
<1>1. \A c \in C : c \notin done => c \in P2
  BY DEF Keeps
<1> QED
  BY <1>1 DEF Keeps

-----------------------------------------------------------------------------
(***************************************************************************)
(* The types of what steers the loops.                                     *)
(***************************************************************************)
RunnerType == [pc : {"check", "waiting", "writing", "done"},
               gen : 0..MaxGenerations, cmd : 0..MaxCommands]
RecType == [pc : {"none", "close", "sleep", "open", "opened", "wait", "stable",
                  "failed", "exhausted", "finish"},
            attempts : 0..MaxAttempts, quick : 0..MaxQuickFailures]
WaitType == [set : BOOLEAN, boundary : 0..MaxCommands, stable : BOOLEAN]

ControlType ==
    /\ state \in {"healthy", "recovering", "opening", "probationary", "failed", "closed"}
    /\ generation \in Generations
    /\ active \in BOOLEAN
    /\ runner \in RunnerType /\ rec \in RecType /\ wait \in WaitType
    /\ restart \in BOOLEAN
    /\ failedClose \in {"none", "pending", "ok", "failed"}
    /\ held \in 0..MaxBufferedCommands
    /\ closing \in BOOLEAN /\ terminal \in BOOLEAN /\ closed \in BOOLEAN /\ aborted \in BOOLEAN
    /\ closer \in {"none", "draining", "drained", "closing", "done", "threw"}
    /\ streams \subseteq 1..(MaxGenerations + 1)
    /\ spoke \subseteq Generations

JournalType ==
    /\ log \in Seq({"audio", "commit"}) /\ Len(log) <= MaxCommands
    /\ journal \in Seq(DOMAIN log)
    /\ old \subseteq Audio
    /\ commits \in [Commits -> {"pending", "resolved", "rejected"}]
    /\ {cursor, replayStart, replayBoundary} \subseteq 0..Len(journal)
    /\ offset \in [Generations -> 0..MaxCommands]
    /\ sent \in [Generations -> Seq(DOMAIN log)]
    /\ mustReplay \in [Generations -> SUBSET Audio]

LEMMA TypeParts ==
    /\ SttTypeOK <=> JournalType /\ ControlType
    /\ SttTypeOK' <=> JournalType' /\ ControlType'
BY DEF SttTypeOK, JournalType, ControlType, RunnerType, RecType, WaitType

LEMMA Limits ==
    /\ MaxCommands \in Nat /\ MaxBufferedCommands \in Nat /\ MaxAttempts \in Nat
    /\ MaxGenerations \in Nat \ {0} /\ MaxQuickFailures \in Nat \ {0}
BY SttAssumption DEF MaxCommands

\* The values the control variables are set to.
LEMMA ControlValues ==
    ASSUME ControlType
    PROVE  /\ Idle \in RunnerType /\ [Idle EXCEPT !.pc = "check"] \in RunnerType
           /\ Signalled \in RunnerType
           /\ NoWait \in WaitType /\ NoRecovery \in RecType
           /\ [NoRecovery EXCEPT !.pc = "close"] \in RecType /\ Returned \in RecType
           /\ Interrupted \in RecType
           /\ \A p \in {"close", "sleep", "opened", "wait", "stable", "failed", "exhausted"} :
                 At(p) \in RecType
           /\ Idle.pc = "waiting" /\ [Idle EXCEPT !.pc = "check"].pc = "check"
<1>1. Idle \in RunnerType /\ [Idle EXCEPT !.pc = "check"] \in RunnerType
  BY Limits DEF Idle, RunnerType
<1>2. NoWait \in WaitType
  BY Limits DEF NoWait, WaitType
<1>3. NoRecovery \in RecType /\ [NoRecovery EXCEPT !.pc = "close"] \in RecType
  BY Limits DEF NoRecovery, RecType
<1>4. Returned \in RecType
  BY Limits DEF Returned, NoRecovery, RecType
<1>5. Signalled \in RunnerType
  BY <1>1 DEF Signalled, ControlType
<1>6. Interrupted \in RecType
  BY DEF Interrupted, ControlType, RecType
<1>7. \A p \in {"close", "sleep", "opened", "wait", "stable", "failed", "exhausted"} :
                 At(p) \in RecType
  BY DEF At, ControlType, RecType
<1> QED
  BY <1>1, <1>2, <1>3, <1>4, <1>5, <1>6, <1>7 DEF Idle

\* Commands in the order of admission are no more than were admitted.
LEMMA LogFits ==
    ASSUME SttTypeOK, NEW j \in Seq(DOMAIN log), Increasing(j)
    PROVE  Len(j) \in 0..MaxCommands
<1>1. j \in Seq(1..Len(log)) /\ Len(log) \in Nat /\ Len(log) <= MaxCommands
  BY Sizes
<1>2. Len(j) <= Len(log) /\ Len(j) \in Nat
  BY <1>1, FitsIn
<1> QED
  BY <1>1, <1>2, Limits

LEMMA JournalFits ==
    ASSUME SttTypeOK, Increasing(journal)
    PROVE  Len(journal) \in 0..MaxCommands
BY Sizes, LogFits

\* Compaction leaves the wait one.
LEMMA CompactedWait ==
    ASSUME SttTypeOK, Increasing(journal), NEW cur \in 0..Len(journal), NEW aged, NEW done
    PROVE  Compacted(cur, aged, done).wait \in WaitType
<1>0. wait \in WaitType
  BY DEF SttTypeOK, WaitType
<1> DEFINE c == Compacted(cur, aged, done)
<1>1. c.wait = IF wait.set /\ wait.boundary = replayBoundary
               THEN [wait EXCEPT !.boundary = c.replayBoundary] ELSE wait
  BY DEF Compacted
<1>2. c.replayBoundary \in 0..MaxCommands
  <2>1. c.replayBoundary \in 0..Len(c.journal) /\ c.journal \in Seq(DOMAIN log) /\ Increasing(c.journal)
    BY Compaction DEF Shrinks
  <2> HIDE DEF c
  <2>2. Len(c.journal) \in 0..MaxCommands
    BY <2>1, LogFits
  <2> QED
    BY <2>1, <2>2, Limits
<1> HIDE DEF c
<1>3. c.wait \in WaitType
  BY <1>0, <1>1, <1>2 DEF WaitType
<1> QED
  BY <1>3 DEF c

\* Every action keeps the types of the control variables.
LEMMA FailTerminalTypes ==
    ASSUME ControlType, NEW next, next \in RecType, FailTerminal(next)
    PROVE  /\ terminal' \in BOOLEAN /\ active' \in BOOLEAN
           /\ state' \in {"healthy", "recovering", "opening", "probationary", "failed", "closed"}
           /\ wait' \in WaitType /\ rec' \in RecType
           /\ closer' \in {"none", "draining", "drained", "closing", "done", "threw"}
           /\ streams' \subseteq 1..(MaxGenerations + 1)
<1>1. NoWait \in WaitType
  BY ControlValues
<1> QED
  BY <1>1 DEF FailTerminal, CloseActive, ControlType

LEMMA EndNowTypes ==
    ASSUME ControlType, EndNow
    PROVE  /\ closed' \in BOOLEAN /\ closing' \in BOOLEAN
           /\ state' \in {"healthy", "recovering", "opening", "probationary", "failed", "closed"}
           /\ wait' \in WaitType /\ rec' \in RecType /\ runner' \in RunnerType
           /\ closer' \in {"none", "draining", "drained", "closing", "done", "threw"}
BY ControlValues DEF EndNow

LEMMA CloseActiveTypes ==
    ASSUME ControlType, CloseActive
    PROVE  active' \in BOOLEAN /\ streams' \subseteq 1..(MaxGenerations + 1)
BY DEF CloseActive, ControlType

LEMMA GenerationFailureTypes ==
    ASSUME ControlType, NEW b, GenerationFailure(b), runner' \in RunnerType
    PROVE  ControlType'
<1>1. Interrupted \in RecType /\ NoWait \in WaitType /\ [NoRecovery EXCEPT !.pc = "close"] \in RecType
  BY ControlValues
<1>2. CASE closing \/ ~b
  <2>1. FailTerminal(Interrupted) /\ UNCHANGED restart
    BY <1>2 DEF GenerationFailure
  <2> QED
    BY <1>1, <2>1, FailTerminalTypes, Limits DEF GenerationFailure, ControlType
<1>3. CASE ~(closing \/ ~b)
  <2>1. /\ state' = "recovering" /\ wait' = NoWait /\ CloseActive
        /\ rec' \in RecType /\ restart' \in BOOLEAN /\ UNCHANGED <<terminal, commits, closer>>
    BY <1>1, <1>3 DEF GenerationFailure, ControlType
  <2> QED
    BY <1>1, <2>1, CloseActiveTypes, Limits DEF GenerationFailure, ControlType
<1> QED
  BY <1>2, <1>3

LEMMA GiveUpTypes ==
    ASSUME ControlType, GiveUp, RecoveryFrame, UNCHANGED <<generation>>,
           held' \in 0..MaxBufferedCommands, spoke' \subseteq Generations,
           failedClose' \in {"none", "pending", "ok", "failed"}
    PROVE  ControlType'
<1>1. NoRecovery \in RecType /\ Signalled \in RunnerType
  BY ControlValues
<1>2. FailTerminal(NoRecovery) /\ runner' = Signalled /\ restart' = FALSE
  BY DEF GiveUp
<1> QED
  BY <1>1, <1>2, FailTerminalTypes DEF RecoveryFrame, ControlType

LEMMA RetryTypes ==
    ASSUME ControlType, NEW source \in BOOLEAN, Retry(source), RecoveryFrame, Unmoved,
           UNCHANGED failedClose
    PROVE  ControlType'
<1>1. CASE GiveUp
  BY <1>1, GiveUpTypes DEF Unmoved, ControlType
<1>2. CASE ~GiveUp
  <2>1. /\ ~([rec EXCEPT !.quick = @ + 1].quick >= MaxQuickFailures)
        /\ GoTo([[rec EXCEPT !.quick = @ + 1] EXCEPT !.pc = IF failedClose = "none" THEN "sleep" ELSE "close"])
        /\ restart' = source
    BY <1>2 DEF Retry
  <2>3. rec \in RecType
    BY DEF ControlType
  <2>4. ~(rec.quick + 1 >= MaxQuickFailures) /\ rec.quick \in Nat
    BY <2>1, <2>3, Limits DEF RecType
  <2>5. rec.quick + 1 \in 0..MaxQuickFailures
    BY <2>4, Limits
  <2>2. rec' \in RecType
    BY <2>1, <2>3, <2>5 DEF GoTo, RecType
  <2> QED
    BY <2>1, <2>2 DEF GoTo, RecoveryFrame, Unmoved, ControlType
<1> QED
  BY <1>1, <1>2

LEMMA ControlTypeStep ==
    ASSUME SttInv, [SttNext]_vars
    PROVE  ControlType'
<1>0. SttTypeOK /\ ControlType /\ Increasing(journal) /\ SentInv /\ Recovering
  BY TypeParts DEF SttInv, JournalInv
<1>v. /\ Idle \in RunnerType /\ [Idle EXCEPT !.pc = "check"] \in RunnerType
      /\ Signalled \in RunnerType /\ NoWait \in WaitType /\ NoRecovery \in RecType
      /\ Returned \in RecType /\ Interrupted \in RecType
      /\ [NoRecovery EXCEPT !.pc = "close"] \in RecType
      /\ \A p \in {"close", "sleep", "opened", "wait", "stable", "failed", "exhausted"} :
             At(p) \in RecType
  BY <1>0, ControlValues
<1>1. ASSUME NEW kind, Admit(kind)
      PROVE  ControlType'
  <2>1. Compacted(cursor, old, SettledIn(commits)).wait \in WaitType
    BY <1>0, CompactedWait, Sizes
  <2>2. CASE FailTerminal(Interrupted)
    BY <1>0, <1>v, <1>1, <2>2, FailTerminalTypes DEF Admit, ControlType, outputVars
  <2>3. CASE wait' = Compacted(cursor, old, SettledIn(commits)).wait
             /\ UNCHANGED <<terminal, state, rec, active, streams, closer>>
    BY <1>0, <1>v, <1>1, <2>1, <2>3 DEF Admit, ControlType, outputVars
  <2> QED
    BY <1>1, <2>2, <2>3 DEF Admit
<1>2. CASE Close
  <2>1. CASE terminal
    BY <1>0, <1>2, <2>1, EndNowTypes DEF Close, Unended, ControlType, outputVars
  <2>2. CASE ~terminal
    BY <1>0, <1>v, <1>2, <2>2 DEF Close, Unended, ControlType, outputVars
  <2> QED
    BY <2>1, <2>2
<1>3. CASE Abort
  BY <1>0, <1>3, EndNowTypes DEF Abort, Unended, ControlType, outputVars
<1>4. CASE Age
  BY <1>0, <1>4 DEF Age, ControlType, streamVars, recoveryVars, closeVars, outputVars
<1>5. CASE Drained
  BY <1>0, <1>5, EndNowTypes DEF Drained, Unended, ControlType, outputVars
<1>6. CASE DrainTimeout
  BY <1>0, <1>6, EndNowTypes, CloseActiveTypes DEF DrainTimeout, Unended, ControlType, outputVars
<1>7. CASE CloseTail
  BY <1>0, <1>7, CloseActiveTypes, ZenonT(30) DEF CloseTail, ControlType, outputVars
<1>8. CASE RunJournal
  <2>1. runner' \in RunnerType
    <3>1. cursor < Len(journal) => journal[cursor + 1] \in 0..MaxCommands
      BY <1>0, Sizes, Limits
    <3>2. cursor < Len(journal) =>
            [pc |-> "writing", gen |-> generation, cmd |-> journal[cursor + 1]] \in RunnerType
      BY <1>0, <3>1, Limits DEF RunnerType, ControlType, Generations
    <3>3. \A p \in {"done", "waiting"} : [Idle EXCEPT !.pc = p] \in RunnerType
      BY Limits DEF Idle, RunnerType
    <3>4. cursor >= Len(journal) \/ cursor < Len(journal)
      BY <1>0, Sizes
    <3> QED
      BY <1>v, <1>8, <3>2, <3>3, <3>4 DEF RunJournal
  <2> QED
    BY <1>0, <1>8, <2>1 DEF RunJournal, ControlType, streamVars, recoveryVars, closeVars, outputVars
<1>9. CASE WriteAccepted
  <2>1. runner' \in RunnerType
    BY <1>v, <1>9 DEF WriteAccepted
  <2>2. CASE ~Current
    BY <1>0, <1>9, <2>1, <2>2 DEF WriteAccepted, ControlType, streamVars
  <2>3. CASE Current
    <3> DEFINE done == SettledIn([c \in Commits |-> IF c = runner.cmd /\ ~Settled(c)
                                              THEN "resolved" ELSE commits[c]])
               c == Compacted(cursor + 1, old \ {runner.cmd}, done)
    <3>1. /\ wait' \in {NoWait, c.wait}
          /\ rec' \in {At("stable"), rec}
          /\ closer' \in {"drained", closer}
      BY <1>9, <2>3 DEF WriteAccepted, At
    <3>2. cursor + 1 \in 0..Len(journal)
      BY <1>0, <1>9, <2>3, Sizes DEF WriteAccepted, SentInv, InFlight
    <3>3. c.wait \in WaitType
      BY <1>0, <3>2, CompactedWait
    <3>4. wait' \in WaitType /\ rec' \in RecType
      BY <1>0, <1>v, <3>1, <3>3 DEF ControlType
    <3> HIDE DEF c
    <3> QED
      BY <1>0, <1>9, <2>1, <3>1, <3>4 DEF WriteAccepted, ControlType, streamVars
  <2> QED
    BY <2>2, <2>3
<1>10. ASSUME NEW b \in BOOLEAN, WriteFails(b)
       PROVE  ControlType'
  <2>1. runner' \in RunnerType
    BY <1>v, <1>10 DEF WriteFails
  <2>2. CASE GenerationFailure(b)
    BY <1>0, <2>1, <2>2, GenerationFailureTypes
  <2>3. CASE UNCHANGED <<journalVars, streamVars, recoveryVars, closeVars, held, spoke, mustReplay>>
    BY <1>0, <2>1, <2>3 DEF ControlType, streamVars, recoveryVars, closeVars
  <2> QED
    BY <1>10, <2>2, <2>3 DEF WriteFails
<1>11. ASSUME NEW b \in BOOLEAN, StreamFails(b)
       PROVE  ControlType'
  BY <1>0, <1>v, <1>11, GenerationFailureTypes DEF StreamFails
<1>12. ASSUME NEW b \in BOOLEAN, Endpoint(b)
       PROVE  ControlType'
  <2> DEFINE hold == state # "healthy" \/ cursor < replayBoundary
             fail == IF hold THEN held >= MaxBufferedCommands ELSE b
  <2>1. held' \in 0..MaxBufferedCommands /\ spoke' \subseteq Generations
    BY <1>0, <1>12, Limits DEF Endpoint, ControlType
  <2>2. CASE FailTerminal(Interrupted) /\ runner' = Signalled
    BY <1>0, <1>v, <1>12, <2>1, <2>2, FailTerminalTypes DEF Endpoint, ControlType
  <2>3. CASE UNCHANGED <<terminal, state, wait, rec, commits, active, streams, closer, runner>>
    BY <1>0, <1>12, <2>1, <2>3 DEF Endpoint, ControlType
  <2> QED
    BY <1>12, <2>2, <2>3 DEF Endpoint
<1>13. CASE FailedStreamCloses
  BY <1>0, <1>13 DEF FailedStreamCloses, ControlType, streamVars, closeVars, outputVars
<1>14. CASE RecoverAfterClose
  <2>1. failedClose' \in {"none", "pending", "ok", "failed"}
    BY <1>0, <1>14 DEF RecoverAfterClose, ControlType
  <2>2. CASE GiveUp
    BY <1>0, <1>14, <2>1, <2>2, GiveUpTypes DEF RecoverAfterClose, Unmoved, ControlType
  <2>3. CASE GoTo(At("sleep")) /\ UNCHANGED restart
    BY <1>0, <1>v, <1>14, <2>1, <2>3
       DEF RecoverAfterClose, RecoveryFrame, Unmoved, GoTo, ControlType
  <2> QED
    BY <1>14, <2>2, <2>3 DEF RecoverAfterClose
<1>15. CASE RecoverAfterSleep
  <2>1. CASE GiveUp
    BY <1>0, <1>15, <2>1, GiveUpTypes DEF RecoverAfterSleep, Unmoved, ControlType
  <2>2. CASE ~GiveUp
    <3>1. rec \in RecType /\ rec.attempts < MaxAttempts
      BY <1>0, <1>15 DEF RecoverAfterSleep, Recovering, ControlType
    <3>2. rec.attempts + 1 \in 0..MaxAttempts
      BY <3>1, Limits DEF RecType
    <3>3. rec' \in RecType
      BY <1>15, <2>2, <3>1, <3>2 DEF RecoverAfterSleep, RecType
    <3> QED
      BY <1>0, <1>v, <1>15, <2>2, <3>3
         DEF RecoverAfterSleep, RecoveryFrame, Unmoved, ControlType
  <2> QED
    BY <2>1, <2>2
<1>16. CASE OpenSucceeds
  <2>1. streams' \subseteq 1..(MaxGenerations + 1)
    BY <1>0, <1>16, Limits DEF OpenSucceeds, ControlType, Generations
  <2> QED
    BY <1>0, <1>v, <1>16, <2>1 DEF OpenSucceeds, ControlType, closeVars, outputVars
<1>17. CASE Adopt
  <2>1. CASE Ended
    BY <1>0, <1>v, <1>17, <2>1 DEF Adopt, RecoveryFrame, ControlType
  <2>2. CASE ~Ended
    <3>1. generation + 1 \in Generations
      BY <1>0, <1>17, Limits DEF Adopt, Recovering, ControlType, Generations
    <3>2. replayBoundary \in 0..MaxCommands
      BY <1>0, Sizes, JournalFits, Limits
    <3>4. wait' = [set |-> TRUE, boundary |-> replayBoundary, stable |-> FALSE]
      BY <1>17, <2>2 DEF Adopt
    <3>3. wait' \in WaitType
      BY <3>2, <3>4 DEF WaitType
    <3> QED
      BY <1>0, <1>v, <1>17, <2>2, <3>1, <3>3 DEF Adopt, RecoveryFrame, ControlType
  <2> QED
    BY <2>1, <2>2
<1>18. CASE StableTimer
  <2>1. [wait EXCEPT !.stable = TRUE] \in WaitType
    BY <1>0 DEF ControlType, WaitType
  <2>2. wait' \in WaitType /\ rec' \in RecType
    BY <1>0, <1>v, <1>18, <2>1 DEF StableTimer, ControlType
  <2> QED
    BY <1>0, <1>18, <2>2 DEF StableTimer, ControlType, streamVars, closeVars, outputVars
<1>19. CASE DeadlineTimer
  BY <1>0, <1>v, <1>19 DEF DeadlineTimer, ControlType, streamVars, closeVars, outputVars
<1>20. ASSUME NEW b \in BOOLEAN, OpenFails(b)
       PROVE  ControlType'
  <2>1. CASE Retry(restart)
    BY <1>0, <1>20, <2>1, RetryTypes DEF OpenFails, ControlType
  <2>2. CASE GiveUp
    BY <1>0, <1>20, <2>2, GiveUpTypes DEF OpenFails, Unmoved, ControlType
  <2> QED
    BY <1>20, <2>1, <2>2 DEF OpenFails
<1>21. ASSUME NEW b \in BOOLEAN, RecoverStable(b)
       PROVE  ControlType'
  <2>1. CASE Retry(FALSE) /\ Unmoved
    BY <1>0, <1>21, <2>1, RetryTypes DEF RecoverStable, ControlType
  <2>2. CASE ~(Retry(FALSE) /\ Unmoved)
    <3>4. /\ held' = 0 /\ UNCHANGED generation
          /\ spoke' \in {spoke, spoke \cup {generation}}
      BY <1>21, <2>2 DEF RecoverStable
    <3>1. held' \in 0..MaxBufferedCommands /\ spoke' \subseteq Generations /\ UNCHANGED generation
      BY <1>0, <3>4, Limits DEF ControlType
    <3>2. CASE GiveUp
      BY <1>0, <1>21, <3>1, <3>2, GiveUpTypes DEF RecoverStable, ControlType
    <3>3. CASE ~GiveUp
      BY <1>0, <1>v, <1>21, <2>2, <3>1, <3>3, ZenonT(30)
         DEF RecoverStable, RecoveryFrame, ControlType
    <3> QED
      BY <3>2, <3>3
  <2> QED
    BY <2>1, <2>2
<1>22. CASE RecoverFailed
  <2>1. CASE Retry(restart)
    BY <1>0, <1>22, <2>1, RetryTypes DEF RecoverFailed, ControlType
  <2>2. CASE GiveUp
    BY <1>0, <1>22, <2>2, GiveUpTypes DEF RecoverFailed, Unmoved, ControlType
  <2> QED
    BY <1>22, <2>1, <2>2 DEF RecoverFailed
<1>23. CASE RecoverEnded
  <2>1. /\ rec' = NoRecovery /\ restart' = FALSE /\ RecoveryFrame /\ Unmoved
        /\ UNCHANGED <<terminal, state, wait, commits, active, streams, closer, runner, failedClose>>
    BY <1>23 DEF RecoverEnded
  <2>2. rec' \in RecType /\ restart' \in BOOLEAN
    BY <1>v, <2>1
  <2>3. /\ UNCHANGED <<terminal, state, wait, active, streams, closer, runner, failedClose>>
        /\ UNCHANGED <<closing, closed, aborted, generation, held, spoke>>
    BY <2>1 DEF RecoveryFrame, Unmoved
  <2> QED
    BY <1>0, <2>2, <2>3 DEF ControlType
<1>24. CASE RecoverFinally
  <2>1. rec' \in RecType /\ restart' \in BOOLEAN
    BY <1>v, <1>24 DEF RecoverFinally
  <2> QED
    BY <1>0, <1>24, <2>1 DEF RecoverFinally, RecoveryFrame, Unmoved, ControlType
<1>25. CASE UNCHANGED vars
  BY <1>0, <1>25 DEF vars, ControlType, streamVars, recoveryVars, closeVars, outputVars
<1> QED
  BY <1>1, <1>2, <1>3, <1>4, <1>5, <1>6, <1>7, <1>8, <1>9, <1>10, <1>11, <1>12, <1>13, <1>14,
     <1>15, <1>16, <1>17, <1>18, <1>19, <1>20, <1>21, <1>22, <1>23, <1>24, <1>25
     DEF SttNext, SendAudio, Commit, WriteOutcome, RecoverStep

-----------------------------------------------------------------------------
(***************************************************************************)
(* The recovery loop, the streams and the closing call.                    *)
(***************************************************************************)
LEMMA Fields ==
    ASSUME ControlType
    PROVE  /\ Interrupted.pc = (IF wait.set THEN "failed" ELSE rec.pc)
           /\ Interrupted.attempts = rec.attempts
           /\ \A p : At(p).pc = p /\ At(p).attempts = rec.attempts
           /\ NoRecovery.pc = "none" /\ NoWait.set = FALSE
           /\ Returned.pc = "finish" /\ [NoRecovery EXCEPT !.pc = "close"].pc = "close"
           /\ Signalled.pc = (IF runner.pc = "waiting" THEN "check" ELSE runner.pc)
           /\ Signalled.pc = "writing" => Signalled = runner
           /\ Idle.pc = "waiting"
           /\ \A p : [Idle EXCEPT !.pc = p].pc = p
<1>1. /\ Interrupted.pc = (IF wait.set THEN "failed" ELSE rec.pc)
      /\ Interrupted.attempts = rec.attempts
      /\ \A p : At(p).pc = p /\ At(p).attempts = rec.attempts
  BY DEF Interrupted, At, ControlType, RecType
<1>2. /\ NoRecovery.pc = "none" /\ NoWait.set = FALSE
      /\ Returned.pc = "finish" /\ [NoRecovery EXCEPT !.pc = "close"].pc = "close"
  BY DEF NoRecovery, NoWait, Returned
<1>3. Idle.pc = "waiting" /\ \A p : [Idle EXCEPT !.pc = p].pc = p
  BY DEF Idle
<1>4. /\ Signalled.pc = (IF runner.pc = "waiting" THEN "check" ELSE runner.pc)
      /\ Signalled.pc = "writing" => Signalled = runner
  BY <1>3 DEF Signalled
<1> QED
  BY <1>1, <1>2, <1>3, <1>4

\* Where a recovery loop stands that takes one more quick failure.
LEMMA RetryFacts ==
    ASSUME ControlType, NEW source \in BOOLEAN, Retry(source)
    PROVE  \/ GiveUp
           \/ /\ rec'.pc = (IF failedClose = "none" THEN "sleep" ELSE "close")
              /\ rec'.pc = "sleep" => rec'.attempts < MaxAttempts
              /\ UNCHANGED <<terminal, state, wait, commits, active, streams, closer, runner>>
<1> SUFFICES ASSUME ~GiveUp
             PROVE  /\ rec'.pc = (IF failedClose = "none" THEN "sleep" ELSE "close")
                    /\ rec'.pc = "sleep" => rec'.attempts < MaxAttempts
                    /\ UNCHANGED <<terminal, state, wait, commits, active, streams, closer, runner>>
  OBVIOUS
<1>1. /\ ~(failedClose = "none" /\ rec.attempts >= MaxAttempts)
      /\ GoTo([[rec EXCEPT !.quick = @ + 1] EXCEPT !.pc = IF failedClose = "none" THEN "sleep" ELSE "close"])
  BY DEF Retry
<1>2. rec \in RecType
  BY DEF ControlType
<1>3. /\ rec'.pc = (IF failedClose = "none" THEN "sleep" ELSE "close")
      /\ rec'.attempts = rec.attempts
  BY <1>1, <1>2 DEF GoTo, RecType
<1>4. rec.attempts \in Nat
  BY <1>2, Limits DEF RecType
<1> QED
  BY <1>1, <1>3, <1>4, Limits DEF GoTo

\* A terminal failure and an end leave nobody in a place the recovery loop is not told of.
LEMMA RecoveringFailed ==
    ASSUME ControlType, Recovering, NEW next, FailTerminal(next), UNCHANGED <<closed, generation>>,
           next \in {Interrupted, NoRecovery}
    PROVE  Recovering'
BY Fields DEF FailTerminal, CloseActive, Recovering, Ended

LEMMA RecoveringGivenUp ==
    ASSUME ControlType, Recovering, GiveUp, UNCHANGED <<closed, generation>>
    PROVE  Recovering'
<1>1. FailTerminal(NoRecovery)
  BY DEF GiveUp
<1> QED
  BY <1>1, RecoveringFailed

LEMMA RecoveringEnded ==
    ASSUME ControlType, Recovering, EndNow, UNCHANGED generation
    PROVE  Recovering'
BY Fields DEF EndNow, Recovering, Ended

\* Compaction neither starts nor ends a wait.
LEMMA CompactedSet ==
    ASSUME ControlType, NEW cur, NEW aged, NEW done
    PROVE  /\ Compacted(cur, aged, done).wait.set = wait.set
           /\ Compacted(cur, aged, done).wait.stable = wait.stable
<1> DEFINE c == Compacted(cur, aged, done)
<1>1. c.wait = wait \/ \E b : c.wait = [wait EXCEPT !.boundary = b]
  BY DEF Compacted
<1> HIDE DEF c
<1>2. wait \in WaitType
  BY DEF ControlType
<1>3. c.wait.set = wait.set /\ c.wait.stable = wait.stable
  BY <1>1, <1>2 DEF WaitType
<1> QED
  BY <1>3 DEF c

LEMMA RecoveringStep ==
    ASSUME SttInv, [SttNext]_vars
    PROVE  Recovering'
<1>0. SttTypeOK /\ ControlType /\ Increasing(journal) /\ SentInv /\ Recovering /\ Replay /\ Closing
  BY TypeParts DEF SttInv, JournalInv
<1>f. /\ Interrupted.pc = (IF wait.set THEN "failed" ELSE rec.pc)
      /\ Interrupted.attempts = rec.attempts
      /\ \A p : At(p).pc = p /\ At(p).attempts = rec.attempts
      /\ NoRecovery.pc = "none" /\ NoWait.set = FALSE
      /\ Returned.pc = "finish" /\ [NoRecovery EXCEPT !.pc = "close"].pc = "close"
  BY <1>0, Fields
<1>1. ASSUME NEW kind, Admit(kind)
      PROVE  Recovering'
  <2> DEFINE c == Compacted(cursor, old, SettledIn(commits))
  <2>1. c.wait.set = wait.set
    BY <1>0, CompactedSet
  <2>2. CASE FailTerminal(Interrupted)
    BY <1>0, <1>1, <2>2, RecoveringFailed DEF Admit
  <2>3. CASE wait' = c.wait /\ UNCHANGED <<terminal, state, rec, active, streams, closer>>
    <3>1. UNCHANGED <<closed, generation, restart>> /\ wait'.set = wait.set
      BY <1>1, <2>1, <2>3 DEF Admit
    <3> QED
      BY <1>0, <2>3, <3>1 DEF Recovering, Ended
  <2> QED
    BY <1>1, <2>2, <2>3 DEF Admit
<1>2. CASE Close
  <2>1. CASE EndNow
    BY <1>0, <1>2, <2>1, RecoveringEnded DEF Close, Unended
  <2>2. CASE ~EndNow
    BY <1>0, <1>2, <2>2 DEF Close, Unended, Recovering, Ended
  <2> QED
    BY <2>1, <2>2
<1>3. CASE Abort
  BY <1>0, <1>3, RecoveringEnded DEF Abort, Unended
<1>4. CASE Age
  BY <1>0, <1>4 DEF Age, Recovering, Ended, streamVars, recoveryVars, closeVars
<1>5. CASE Drained
  BY <1>0, <1>5, RecoveringEnded DEF Drained, Unended
<1>6. CASE DrainTimeout
  BY <1>0, <1>6, RecoveringEnded DEF DrainTimeout, Unended
<1>7. CASE CloseTail
  <2>1. closed
    BY <1>0, <1>7 DEF CloseTail, Closing
  <2> QED
    BY <1>0, <1>7, <2>1 DEF CloseTail, Recovering, Ended
<1>8. CASE RunJournal
  BY <1>0, <1>8 DEF RunJournal, Recovering, Ended, streamVars, recoveryVars, closeVars
<1>9. CASE WriteAccepted
  <2>1. CASE ~Current
    BY <1>0, <1>9, <2>1 DEF WriteAccepted, Recovering, Ended, streamVars
  <2>2. CASE Current
    <3>1. UNCHANGED <<closed, terminal, restart, streamVars>>
      BY <1>9 DEF WriteAccepted
    <3>2. CASE wait' = NoWait /\ rec' = At("stable") /\ wait.set
      BY <1>0, <1>f, <3>1, <3>2 DEF Recovering, Ended, streamVars
    <3>3. CASE wait'.set = wait.set /\ UNCHANGED rec
      BY <1>0, <3>1, <3>3 DEF Recovering, Ended, streamVars
    <3> DEFINE done == SettledIn([x \in Commits |-> IF x = runner.cmd /\ ~Settled(x)
                                              THEN "resolved" ELSE commits[x]])
               c == Compacted(cursor + 1, old \ {runner.cmd}, done)
    <3>4. c.wait.set = wait.set
      BY <1>0, CompactedSet
    <3>5. \/ wait' = NoWait /\ rec' = At("stable") /\ wait.set
          \/ wait' = c.wait /\ UNCHANGED rec
      BY <1>9, <2>2 DEF WriteAccepted, At
    <3> HIDE DEF c
    <3> QED
      BY <3>2, <3>3, <3>4, <3>5
  <2> QED
    BY <2>1, <2>2
<1>10. ASSUME NEW b \in BOOLEAN, GenerationFailure(b), ~Ended, active
       PROVE  Recovering'
  <2>1. CASE closing \/ ~b
    BY <1>0, <1>10, <2>1, RecoveringFailed DEF GenerationFailure
  <2>2. CASE ~(closing \/ ~b)
    BY <1>0, <1>f, <1>10, <2>2 DEF GenerationFailure, CloseActive, Recovering, Ended
  <2> QED
    BY <2>1, <2>2
<1>11. ASSUME NEW b \in BOOLEAN, WriteFails(b)
       PROVE  Recovering'
  <2>1. CASE Current /\ ~Ended
    BY <1>10, <1>11, <2>1 DEF WriteFails, Current
  <2>2. CASE ~(Current /\ ~Ended)
    BY <1>0, <1>11, <2>2 DEF WriteFails, Recovering, Ended, streamVars, recoveryVars, closeVars
  <2> QED
    BY <2>1, <2>2
<1>12. ASSUME NEW b \in BOOLEAN, StreamFails(b)
       PROVE  Recovering'
  BY <1>10, <1>12 DEF StreamFails
<1>13. ASSUME NEW b \in BOOLEAN, Endpoint(b)
       PROVE  Recovering'
  <2>1. CASE FailTerminal(Interrupted)
    BY <1>0, <1>13, <2>1, RecoveringFailed DEF Endpoint
  <2>2. CASE UNCHANGED <<terminal, state, wait, rec, commits, active, streams, closer, runner>>
    BY <1>0, <1>13, <2>2 DEF Endpoint, Recovering, Ended
  <2> QED
    BY <1>13, <2>1, <2>2 DEF Endpoint
<1>14. CASE FailedStreamCloses
  BY <1>0, <1>14 DEF FailedStreamCloses, Recovering, Ended, streamVars, closeVars
<1>15. CASE RecoverAfterClose
  <2>1. CASE GiveUp
    BY <1>0, <1>15, <2>1, RecoveringGivenUp DEF RecoverAfterClose, RecoveryFrame, Unmoved
  <2>2. CASE ~GiveUp
    BY <1>0, <1>f, <1>15, <2>2
       DEF RecoverAfterClose, RecoveryFrame, Unmoved, GoTo, Recovering, Ended
  <2> QED
    BY <2>1, <2>2
<1>16. CASE RecoverAfterSleep
  <2>1. CASE GiveUp
    BY <1>0, <1>16, <2>1, RecoveringGivenUp DEF RecoverAfterSleep, RecoveryFrame, Unmoved
  <2>2. CASE ~GiveUp
    <3>1. rec'.pc = "open"
      BY <1>0, <1>16, <2>2 DEF RecoverAfterSleep, ControlType, RecType
    <3> QED
      BY <1>0, <1>16, <2>2, <3>1
         DEF RecoverAfterSleep, RecoveryFrame, Unmoved, Recovering, Ended
  <2> QED
    BY <2>1, <2>2
<1>17. CASE OpenSucceeds
  BY <1>0, <1>f, <1>17 DEF OpenSucceeds, Recovering, Ended, closeVars
<1>18. CASE Adopt
  <2>1. CASE Ended
    BY <1>0, <1>f, <1>18, <2>1 DEF Adopt, RecoveryFrame, Recovering, Ended
  <2>2. CASE ~Ended
    <3>1. wait'.set = TRUE /\ rec'.pc = "wait" /\ active' = TRUE /\ state' = "probationary"
      BY <1>f, <1>18, <2>2 DEF Adopt
    <3> QED
      BY <1>18, <2>2, <3>1 DEF Adopt, RecoveryFrame, Recovering, Ended
  <2> QED
    BY <2>1, <2>2
<1>19. CASE StableTimer
  <2>1. CASE rec' = At("stable") /\ wait' = NoWait
    BY <1>0, <1>f, <1>19, <2>1 DEF StableTimer, Recovering, Ended, streamVars, closeVars
  <2>2. CASE UNCHANGED rec /\ wait' = [wait EXCEPT !.stable = TRUE]
    <3>1. wait'.set = wait.set
      BY <1>0, <2>2 DEF ControlType, WaitType
    <3> QED
      BY <1>0, <1>19, <2>2, <3>1 DEF StableTimer, Recovering, Ended, streamVars, closeVars
  <2> QED
    BY <1>19, <2>1, <2>2 DEF StableTimer
<1>20. CASE DeadlineTimer
  BY <1>0, <1>f, <1>20 DEF DeadlineTimer, Recovering, Ended, streamVars, closeVars
<1>21. ASSUME NEW source \in BOOLEAN, Retry(source), ~Ended, ~active, UNCHANGED <<closed, generation>>,
              wait.set = FALSE
       PROVE  Recovering'
  <2>1. CASE GiveUp
    BY <1>0, <1>21, <2>1, RecoveringGivenUp
  <2>2. CASE /\ rec'.pc = (IF failedClose = "none" THEN "sleep" ELSE "close")
             /\ rec'.pc = "sleep" => rec'.attempts < MaxAttempts
             /\ UNCHANGED <<terminal, state, wait, commits, active, streams, closer, runner>>
    BY <1>0, <1>21, <2>2 DEF Recovering, Ended
  <2> QED
    BY <1>0, <1>21, <2>1, <2>2, RetryFacts
<1>22. ASSUME NEW b \in BOOLEAN, OpenFails(b)
       PROVE  Recovering'
  <2>1. restart \in BOOLEAN
    BY <1>0 DEF ControlType
  <2>2. UNCHANGED <<closed, generation>> /\ ~Ended /\ ~active /\ wait.set = FALSE
    BY <1>0, <1>22 DEF OpenFails, Recovering, RecoveryFrame, Unmoved, ControlType, WaitType
  <2> QED
    BY <1>0, <1>21, <1>22, <2>1, <2>2, RecoveringGivenUp DEF OpenFails
<1>23. ASSUME NEW b \in BOOLEAN, RecoverStable(b)
       PROVE  Recovering'
  <2>1. CASE ~active \/ state # "probationary"
    <3>1. ~active /\ wait.set = FALSE /\ ~Ended /\ UNCHANGED <<closed, generation>>
      BY <1>0, <1>23, <2>1 DEF RecoverStable, Recovering, RecoveryFrame, Unmoved, ControlType, WaitType
    <3> QED
      BY <1>21, <1>23, <2>1, <3>1 DEF RecoverStable
  <2>2. CASE ~(~active \/ state # "probationary")
    <3>1. UNCHANGED <<closed, generation>>
      BY <1>23, <2>2 DEF RecoverStable, RecoveryFrame
    <3>2. CASE GiveUp
      BY <1>0, <3>1, <3>2, RecoveringGivenUp
    <3>3. CASE state' = "healthy" /\ rec' = Returned
               /\ UNCHANGED <<restart, terminal, wait, commits, active, streams, closer>>
      BY <1>0, <1>f, <1>23, <2>2, <3>1, <3>3 DEF RecoverStable, Recovering, Ended
    <3> QED
      BY <1>23, <2>2, <3>2, <3>3 DEF RecoverStable
  <2> QED
    BY <2>1, <2>2
<1>24. CASE RecoverFailed
  <2>1. restart \in BOOLEAN
    BY <1>0 DEF ControlType
  <2>2. UNCHANGED <<closed, generation>> /\ ~Ended /\ wait.set = FALSE
        /\ (rec.pc = "failed" => ~active)
    BY <1>0, <1>24 DEF RecoverFailed, Recovering, RecoveryFrame, Unmoved, ControlType, WaitType
  <2> QED
    BY <1>0, <1>21, <1>24, <2>1, <2>2, RecoveringGivenUp DEF RecoverFailed
<1>25. CASE RecoverEnded
  BY <1>0, <1>f, <1>25 DEF RecoverEnded, RecoveryFrame, Unmoved, Recovering, Ended
<1>26. CASE RecoverFinally
  BY <1>0, <1>f, <1>26 DEF RecoverFinally, RecoveryFrame, Unmoved, Recovering, Ended
<1>27. CASE UNCHANGED vars
  BY <1>0, <1>27 DEF vars, Recovering, Ended, streamVars, recoveryVars, closeVars
<1> QED
  BY <1>1, <1>2, <1>3, <1>4, <1>5, <1>6, <1>7, <1>8, <1>9, <1>11, <1>12, <1>13, <1>14, <1>15,
     <1>16, <1>17, <1>18, <1>19, <1>20, <1>22, <1>23, <1>24, <1>25, <1>26, <1>27
     DEF SttNext, SendAudio, Commit, WriteOutcome, RecoverStep

LEMMA StreamsFailed ==
    ASSUME ControlType, Recovering, Streams, NEW next, FailTerminal(next), UNCHANGED generation,
           \/ next = Interrupted
           \/ next = NoRecovery /\ rec.pc # "opened",
           \/ UNCHANGED failedClose
           \/ next = NoRecovery
           \/ rec.pc \notin {"sleep", "open", "opened"}
    PROVE  Streams'
<1>1. streams' \subseteq streams /\ (active => generation \notin streams') /\ active' = FALSE
  BY DEF FailTerminal, CloseActive
<1>2. rec'.pc \in {"failed", "none", rec.pc} /\ (rec.pc = "opened" => rec'.pc = "opened")
  BY Fields DEF FailTerminal, Recovering
<1>3. streams' \subseteq (IF rec'.pc = "opened" THEN {generation' + 1} ELSE {})
  BY <1>1, <1>2 DEF Streams
<1>4. rec'.pc \in {"sleep", "open", "opened"} => failedClose' = "none"
  BY <1>2, Fields DEF FailTerminal, Streams
<1> QED
  BY <1>1, <1>3, <1>4 DEF Streams

LEMMA StreamsGivenUp ==
    ASSUME ControlType, Recovering, Streams, GiveUp, UNCHANGED generation, rec.pc # "opened"
    PROVE  Streams'
<1>1. FailTerminal(NoRecovery)
  BY DEF GiveUp
<1> QED
  BY <1>1, StreamsFailed

LEMMA StreamsEnded ==
    ASSUME ControlType, Recovering, Streams, EndNow,
           UNCHANGED <<generation, failedClose, terminal, active, streams>>
    PROVE  Streams'
BY Fields DEF EndNow, Recovering, Streams

LEMMA StreamsStep ==
    ASSUME SttInv, [SttNext]_vars
    PROVE  Streams'
<1>0. SttTypeOK /\ ControlType /\ Increasing(journal) /\ SentInv /\ Recovering /\ Streams /\ Closing
  BY TypeParts DEF SttInv, JournalInv
<1>f. /\ Interrupted.pc = (IF wait.set THEN "failed" ELSE rec.pc)
      /\ \A p : At(p).pc = p
      /\ NoRecovery.pc = "none" /\ NoWait.set = FALSE
      /\ Returned.pc = "finish" /\ [NoRecovery EXCEPT !.pc = "close"].pc = "close"
  BY <1>0, Fields
<1>1. ASSUME NEW kind, Admit(kind)
      PROVE  Streams'
  <2>2. CASE FailTerminal(Interrupted)
    BY <1>0, <1>1, <2>2, StreamsFailed DEF Admit
  <2>3. CASE UNCHANGED <<terminal, state, rec, active, streams, closer>>
    BY <1>0, <1>1, <2>3 DEF Admit, Streams
  <2> QED
    BY <1>1, <2>2, <2>3 DEF Admit
<1>2. CASE Close
  <2>1. CASE EndNow
    BY <1>0, <1>2, <2>1, StreamsEnded DEF Close, Unended
  <2>2. CASE ~EndNow
    BY <1>0, <1>2, <2>2 DEF Close, Unended, Streams
  <2> QED
    BY <2>1, <2>2
<1>3. CASE Abort
  BY <1>0, <1>3, StreamsEnded DEF Abort, Unended
<1>4. CASE Age
  BY <1>0, <1>4 DEF Age, Streams, streamVars, recoveryVars, closeVars
<1>5. CASE Drained
  BY <1>0, <1>5, StreamsEnded DEF Drained, Unended
<1>6. CASE DrainTimeout
  BY <1>0, <1>f, <1>6 DEF DrainTimeout, CloseActive, EndNow, Unended, Streams, Recovering
<1>7. CASE CloseTail
  BY <1>0, <1>7 DEF CloseTail, CloseActive, Streams
<1>8. CASE RunJournal
  BY <1>0, <1>8 DEF RunJournal, Streams, streamVars, recoveryVars, closeVars
<1>9. CASE WriteAccepted
  <2>1. /\ UNCHANGED <<streams, active, generation, terminal, failedClose>>
        /\ rec' = rec \/ rec' = At("stable")
        /\ closer' = closer \/ closer' = "drained"
        /\ rec' = At("stable") => wait.set \/ rec' = rec
    BY <1>9 DEF WriteAccepted, At, streamVars
  <2> QED
    BY <1>0, <1>f, <2>1 DEF Streams, Recovering
<1>10. ASSUME NEW b \in BOOLEAN, GenerationFailure(b), ~Ended, active
       PROVE  Streams'
  <2>1. CASE closing \/ ~b
    <3>1. rec.pc \notin {"sleep", "open", "opened"}
      BY <1>0, <1>10 DEF Recovering
    <3> QED
      BY <1>0, <1>10, <2>1, <3>1, StreamsFailed DEF GenerationFailure
  <2>2. CASE ~(closing \/ ~b)
    BY <1>0, <1>f, <1>10, <2>2 DEF GenerationFailure, CloseActive, Recovering, Streams, Ended
  <2> QED
    BY <2>1, <2>2
<1>11. ASSUME NEW b \in BOOLEAN, WriteFails(b)
       PROVE  Streams'
  <2>1. CASE Current /\ ~Ended
    BY <1>10, <1>11, <2>1 DEF WriteFails, Current
  <2>2. CASE ~(Current /\ ~Ended)
    BY <1>0, <1>11, <2>2 DEF WriteFails, Streams, streamVars, recoveryVars, closeVars
  <2> QED
    BY <2>1, <2>2
<1>12. ASSUME NEW b \in BOOLEAN, StreamFails(b)
       PROVE  Streams'
  BY <1>10, <1>12 DEF StreamFails
<1>13. ASSUME NEW b \in BOOLEAN, Endpoint(b)
       PROVE  Streams'
  <2>1. CASE FailTerminal(Interrupted)
    BY <1>0, <1>13, <2>1, StreamsFailed DEF Endpoint
  <2>2. CASE UNCHANGED <<terminal, state, wait, rec, commits, active, streams, closer, runner>>
    BY <1>0, <1>13, <2>2 DEF Endpoint, Streams
  <2> QED
    BY <1>13, <2>1, <2>2 DEF Endpoint
<1>14. CASE FailedStreamCloses
  BY <1>0, <1>14 DEF FailedStreamCloses, Streams, streamVars, closeVars
<1>15. CASE RecoverAfterClose
  <2>1. CASE GiveUp
    BY <1>0, <1>15, <2>1, StreamsGivenUp DEF RecoverAfterClose, RecoveryFrame, Unmoved
  <2>2. CASE ~GiveUp
    BY <1>0, <1>f, <1>15, <2>2 DEF RecoverAfterClose, Unmoved, GoTo, Streams
  <2> QED
    BY <2>1, <2>2
<1>16. CASE RecoverAfterSleep
  <2>1. CASE GiveUp
    BY <1>0, <1>16, <2>1, StreamsGivenUp DEF RecoverAfterSleep, RecoveryFrame, Unmoved
  <2>2. CASE ~GiveUp
    <3>1. rec'.pc = "open"
      BY <1>0, <1>16, <2>2 DEF RecoverAfterSleep, ControlType, RecType
    <3> QED
      BY <1>0, <1>16, <2>2, <3>1 DEF RecoverAfterSleep, Unmoved, Streams
  <2> QED
    BY <2>1, <2>2
<1>17. CASE OpenSucceeds
  BY <1>0, <1>f, <1>17 DEF OpenSucceeds, Streams, Recovering, closeVars
<1>18. CASE Adopt
  <2>1. CASE Ended
    BY <1>0, <1>f, <1>18, <2>1 DEF Adopt, Streams
  <2>2. CASE ~Ended
    <3>1. /\ rec'.pc = "wait" /\ active' = TRUE /\ generation' = generation + 1
          /\ UNCHANGED <<streams, terminal, closer, failedClose>>
      BY <1>f, <1>18, <2>2 DEF Adopt
    <3>2. ~active /\ rec.pc = "opened" /\ ~terminal /\ closer \notin {"done", "threw"}
      BY <1>0, <1>18, <2>2 DEF Adopt, Recovering, Closing, Ended
    <3> QED
      BY <1>0, <3>1, <3>2 DEF Streams
  <2> QED
    BY <2>1, <2>2
<1>19. CASE StableTimer
  BY <1>0, <1>f, <1>19 DEF StableTimer, Streams, Recovering, streamVars, closeVars
<1>20. CASE DeadlineTimer
  BY <1>0, <1>f, <1>20 DEF DeadlineTimer, Streams, Recovering, streamVars, closeVars
<1>21. ASSUME NEW source \in BOOLEAN, Retry(source), UNCHANGED <<generation, failedClose>>,
              ~active, rec.pc # "opened"
       PROVE  Streams'
  <2>1. CASE GiveUp
    BY <1>0, <1>21, <2>1, StreamsGivenUp
  <2>2. CASE /\ rec'.pc = (IF failedClose = "none" THEN "sleep" ELSE "close")
             /\ UNCHANGED <<terminal, state, wait, commits, active, streams, closer, runner>>
    BY <1>0, <1>21, <2>2 DEF Streams
  <2> QED
    BY <1>0, <1>21, <2>1, <2>2, RetryFacts
<1>22. ASSUME NEW b \in BOOLEAN, OpenFails(b)
       PROVE  Streams'
  <2>1. restart \in BOOLEAN
    BY <1>0 DEF ControlType
  <2>2. UNCHANGED <<generation, failedClose>> /\ ~active /\ rec.pc # "opened"
    BY <1>0, <1>22 DEF OpenFails, Recovering, Unmoved
  <2> QED
    BY <1>0, <1>21, <1>22, <2>1, <2>2, StreamsGivenUp DEF OpenFails
<1>23. ASSUME NEW b \in BOOLEAN, RecoverStable(b)
       PROVE  Streams'
  <2>1. CASE ~active \/ state # "probationary"
    <3>1. ~active /\ UNCHANGED <<generation, failedClose>> /\ rec.pc # "opened"
      BY <1>0, <1>23, <2>1 DEF RecoverStable, Recovering, Unmoved
    <3> QED
      BY <1>21, <1>23, <2>1, <3>1 DEF RecoverStable
  <2>2. CASE ~(~active \/ state # "probationary")
    <3>1. UNCHANGED <<generation, failedClose>> /\ rec.pc = "stable"
      BY <1>23, <2>2 DEF RecoverStable
    <3>2. CASE GiveUp
      BY <1>0, <3>1, <3>2, StreamsGivenUp
    <3>3. CASE state' = "healthy" /\ rec' = Returned
               /\ UNCHANGED <<restart, terminal, wait, commits, active, streams, closer>>
      BY <1>0, <1>f, <3>1, <3>3 DEF Streams
    <3> QED
      BY <1>23, <2>2, <3>2, <3>3 DEF RecoverStable
  <2> QED
    BY <2>1, <2>2
<1>24. CASE RecoverFailed
  <2>1. restart \in BOOLEAN
    BY <1>0 DEF ControlType
  <2>2. /\ UNCHANGED <<generation, failedClose>> /\ rec.pc # "opened"
        /\ rec.pc = "failed" => ~active
    BY <1>0, <1>24 DEF RecoverFailed, Recovering, Unmoved
  <2> QED
    BY <1>0, <1>21, <1>24, <2>1, <2>2, StreamsGivenUp DEF RecoverFailed
<1>25. CASE RecoverEnded
  BY <1>0, <1>f, <1>25 DEF RecoverEnded, Unmoved, Streams
<1>26. CASE RecoverFinally
  BY <1>0, <1>f, <1>26 DEF RecoverFinally, Unmoved, Streams
<1>27. CASE UNCHANGED vars
  BY <1>0, <1>27 DEF vars, Streams, streamVars, recoveryVars, closeVars
<1> QED
  BY <1>1, <1>2, <1>3, <1>4, <1>5, <1>6, <1>7, <1>8, <1>9, <1>11, <1>12, <1>13, <1>14, <1>15,
     <1>16, <1>17, <1>18, <1>19, <1>20, <1>22, <1>23, <1>24, <1>25, <1>26, <1>27
     DEF SttNext, SendAudio, Commit, WriteOutcome, RecoverStep

\* The closing call: what moves neither the journal nor the call, and only wakes the loop.
LEMMA ClosingQuiet ==
    ASSUME ControlType, Closing,
           UNCHANGED <<log, journal, cursor, commits, closing, closed, terminal, aborted, closer>>,
           \/ runner' = Signalled
           \/ UNCHANGED runner /\ (active' /\ state' \in {"healthy", "probationary"} =>
                                     active /\ state \in {"healthy", "probationary"})
    PROVE  Closing'
<1>1. runner'.pc = runner.pc \/ runner'.pc = "check"
  BY Fields
<1>2. Commits' = Commits
  BY DEF Commits, Audio, IsAudio
<1> QED
  BY <1>1, <1>2, Fields DEF Closing, Ended

LEMMA ClosingFailed ==
    ASSUME ControlType, Closing, NEW next, FailTerminal(next), UNCHANGED <<closing, closed, aborted>>
    PROVE  Closing'
BY DEF FailTerminal, Closing, Ended

LEMMA ClosingGivenUp ==
    ASSUME ControlType, Closing, GiveUp, RecoveryFrame
    PROVE  Closing'
BY ClosingFailed DEF GiveUp, RecoveryFrame

\* A drained journal has answered every commit.
LEMMA DrainedAnswers ==
    ASSUME SttInv, ~Ended, cursor >= Len(journal)
    PROVE  \A c \in Commits : commits[c] = "resolved"
<1>1. Pending = {}
  <2>1. cursor = Len(journal) /\ cursor \in 0..Len(journal)
    BY Sizes DEF SttInv
  <2>2. journal \in Seq(DOMAIN log) /\ DOMAIN log \in SUBSET Nat /\ Increasing(journal)
    BY Sizes DEF SttInv, JournalInv
  <2> QED
    BY <2>1, <2>2, Cut DEF Pending
<1>2. commits \in [Commits -> {"pending", "resolved", "rejected"}]
  BY DEF SttInv, SttTypeOK
<1>3. \A c \in Commits : c \in SettledIn(commits)
  BY <1>1 DEF SttInv, JournalInv, Keeps
<1>4. \A c \in Commits : commits[c] # "pending" /\ commits[c] # "rejected"
  BY <1>2, <1>3 DEF SettledIn, SttInv, CommitsAreBarriers
<1> QED
  BY <1>2, <1>4

LEMMA ClosingStep ==
    ASSUME SttInv, [SttNext]_vars
    PROVE  Closing'
<1>0. SttTypeOK /\ ControlType /\ Increasing(journal) /\ SentInv /\ Recovering /\ Closing
  BY TypeParts DEF SttInv, JournalInv
<1>s. Len(journal) \in Nat /\ cursor \in 0..Len(journal)
  BY <1>0, Sizes
<1>f. /\ Signalled.pc = (IF runner.pc = "waiting" THEN "check" ELSE runner.pc)
      /\ Idle.pc = "waiting" /\ \A p : [Idle EXCEPT !.pc = p].pc = p
  BY <1>0, Fields
<1>1. ASSUME NEW kind, Admit(kind)
      PROVE  Closing'
  <2> DEFINE c == Compacted(cursor, old, SettledIn(commits))
  <2>1. closer = "none" /\ ~closed /\ ~aborted /\ ~closing /\ ~terminal /\ runner.pc # "done"
    BY <1>0, <1>1 DEF Admit, Closing, Ended
  <2>2. CASE FailTerminal(Interrupted)
    BY <1>0, <1>1, <2>2, ClosingFailed DEF Admit
  <2>3. CASE UNCHANGED <<terminal, state, rec, active, streams, closer>>
    <3>1. UNCHANGED <<closed, closing, aborted>> /\ runner' = Signalled
      BY <1>1 DEF Admit
    <3> QED
      BY <1>f, <2>1, <2>3, <3>1 DEF Closing, Ended
  <2> QED
    BY <1>1, <2>2, <2>3 DEF Admit
<1>2. ASSUME EndNow, UNCHANGED <<log, journal, cursor>>,
             \/ terminal' \/ aborted'
             \/ closer = "drained" /\ UNCHANGED <<terminal, aborted>>
      PROVE  Closing'
  <2>1. /\ closed' = TRUE /\ closing' = TRUE /\ closer' = "closing"
    BY <1>2 DEF EndNow
  <2>2. ASSUME ~terminal', ~aborted'
        PROVE  /\ cursor' >= Len(journal')
               /\ \A c \in Commits' : commits'[c] = "resolved"
    <3>1. closer = "drained" /\ ~terminal /\ ~aborted
      BY <1>2, <2>2
    <3>2. cursor >= Len(journal) /\ ~Ended
      BY <1>0, <3>1 DEF Closing, Ended
    <3>3. \A c \in Commits : commits[c] = "resolved"
      BY <3>2, DrainedAnswers
    <3>4. \A c \in Commits : Rejected[c] = "resolved"
      BY <3>3 DEF Rejected, Settled
    <3>5. Commits' = Commits /\ commits' = Rejected
      BY <1>2 DEF Commits, Audio, IsAudio, EndNow
    <3> QED
      BY <1>2, <3>2, <3>4, <3>5
  <2> QED
    BY <2>1, <2>2 DEF Closing, Ended
<1>3. CASE Close
  <2>1. CASE terminal
    BY <1>2, <1>3, <2>1 DEF Close, Unended
  <2>2. CASE ~terminal
    <3>1. ~closed /\ ~aborted /\ runner.pc # "done"
      BY <1>0, <1>3, <2>2 DEF Close, Closing, Ended
    <3>2. /\ closing' = TRUE /\ closer' = (IF cursor >= Len(journal) THEN "drained" ELSE "draining")
          /\ runner' = Signalled /\ UNCHANGED <<closed, terminal, aborted, journal, cursor>>
      BY <1>3, <2>2 DEF Close, Unended
    <3> QED
      BY <1>f, <1>s, <2>2, <3>1, <3>2 DEF Closing, Ended
  <2> QED
    BY <2>1, <2>2
<1>4. CASE Abort
  BY <1>2, <1>4 DEF Abort, Unended
<1>5. CASE Drained
  BY <1>2, <1>5 DEF Drained, Unended
<1>6. CASE DrainTimeout
  BY <1>2, <1>6 DEF DrainTimeout, Unended
<1>7. CASE Age
  BY <1>0, <1>7, ClosingQuiet DEF Age, streamVars, closeVars
<1>8. CASE CloseTail
  <2>1. closed /\ closing
    BY <1>0, <1>8 DEF CloseTail, Closing
  <2>2. Commits' = Commits
    BY <1>8 DEF CloseTail, journalVars, Commits, Audio, IsAudio
  <2>3. /\ closer' \in {"threw", "done"}
        /\ UNCHANGED <<journal, cursor, commits, closing, closed, terminal, aborted, runner>>
    BY <1>8 DEF CloseTail, journalVars
  <2> QED
    BY <1>0, <2>1, <2>2, <2>3 DEF Closing, Ended
<1>9. CASE RunJournal
  <2>1. UNCHANGED <<log, journal, cursor, commits, closing, closed, terminal, aborted, closer, active, state>>
    BY <1>9 DEF RunJournal, journalVars, streamVars, closeVars
  <2>2. Commits' = Commits
    BY <2>1 DEF Commits, Audio, IsAudio
  <2>3. \/ runner'.pc = "done" /\ (Ended \/ (closing /\ cursor >= Len(journal)))
        \/ runner'.pc = "waiting" /\ (cursor >= Len(journal) \/ ~active
                                        \/ state \notin {"healthy", "probationary"})
        \/ runner'.pc = "writing"
    BY <1>9, <1>f DEF RunJournal
  <2> QED
    BY <1>0, <1>s, <2>1, <2>2, <2>3 DEF Closing, Ended
<1>10. CASE WriteAccepted
  <2>1. runner'.pc = "check" /\ UNCHANGED <<log, closing, terminal, closed, aborted>>
    BY <1>f, <1>10 DEF WriteAccepted
  <2>2. Commits' = Commits
    BY <2>1 DEF Commits, Audio, IsAudio
  <2>3. CASE ~Current
    BY <1>0, <1>10, <2>1, <2>2, <2>3 DEF WriteAccepted, Closing, Ended
  <2>4. CASE Current
    <3> DEFINE settled == [x \in Commits |-> IF x = runner.cmd /\ ~Settled(x)
                                              THEN "resolved" ELSE commits[x]]
               c == Compacted(cursor + 1, old \ {runner.cmd}, SettledIn(settled))
    <3>1. cursor < Len(journal) /\ cursor + 1 \in 0..Len(journal)
      BY <1>0, <1>10, <1>s, <2>4 DEF WriteAccepted, SentInv, InFlight
    <3>2. /\ journal' = c.journal /\ cursor' = c.cursor /\ commits' = settled
          /\ closer' = IF closer = "draining" /\ cursor + 1 >= Len(journal)
                             THEN "drained" ELSE closer
      BY <1>10, <2>4 DEF WriteAccepted
    <3>3. /\ c.cursor < Len(c.journal) <=> cursor + 1 < Len(journal)
          /\ c.journal \in Seq(DOMAIN log)
          /\ {c.cursor, c.replayStart, c.replayBoundary} \subseteq 0..Len(c.journal)
      <4>1. Shrinks(c, cursor + 1, old \ {runner.cmd}, SettledIn(settled))
        BY <1>0, <3>1, Compaction
      <4> HIDE DEF settled, c
      <4> QED
        BY <4>1 DEF Shrinks
    <3> HIDE DEF c
    <3>4. Len(c.journal) \in Nat /\ c.cursor \in 0..Len(c.journal)
      BY <3>3
    <3>5. cursor' < Len(journal') <=> cursor + 1 < Len(journal)
      BY <3>2, <3>3
    <3>6. Len(journal') \in Nat /\ cursor' \in Nat
      BY <3>2, <3>4
    <3>7. closed => terminal \/ aborted
      BY <1>0, <1>s, <3>1 DEF Closing
    <3> QED
      BY <1>0, <1>s, <2>1, <3>1, <3>2, <3>5, <3>6, <3>7 DEF Closing, Ended
  <2> QED
    BY <2>3, <2>4
<1>11. ASSUME NEW b \in BOOLEAN, GenerationFailure(b), ~Ended,
              runner' = Signalled \/ runner'.pc = "check"
       PROVE  Closing'
  <2>1. CASE closing \/ ~b
    BY <1>0, <1>11, <2>1, ClosingFailed DEF GenerationFailure
  <2>2. CASE ~(closing \/ ~b)
    <3>1. ~closing /\ active' = FALSE /\ UNCHANGED <<closing, closed, terminal, aborted, closer>>
      BY <1>11, <2>2 DEF GenerationFailure, CloseActive
    <3>2. closer = "none" /\ ~closed /\ ~aborted /\ runner.pc # "done"
      BY <1>0, <1>11, <3>1 DEF Closing, Ended
    <3>3. runner'.pc # "done"
      BY <1>f, <1>11, <3>2
    <3> QED
      BY <3>1, <3>2, <3>3 DEF Closing, Ended
  <2> QED
    BY <2>1, <2>2
<1>12. ASSUME NEW b \in BOOLEAN, WriteFails(b)
       PROVE  Closing'
  <2>1. runner'.pc = "check"
    BY <1>f, <1>12 DEF WriteFails
  <2>2. CASE Current /\ ~Ended
    BY <1>11, <1>12, <2>1, <2>2 DEF WriteFails
  <2>3. CASE ~(Current /\ ~Ended)
    <3>1. UNCHANGED <<log, journal, cursor, commits, closing, closed, terminal, aborted, closer>>
      BY <1>12, <2>3 DEF WriteFails, journalVars, closeVars
    <3>2. Commits' = Commits
      BY <3>1 DEF Commits, Audio, IsAudio
    <3> QED
      BY <1>0, <2>1, <3>1, <3>2 DEF Closing, Ended
  <2> QED
    BY <2>2, <2>3
<1>13. ASSUME NEW b \in BOOLEAN, StreamFails(b)
       PROVE  Closing'
  BY <1>11, <1>13 DEF StreamFails
<1>14. ASSUME NEW b \in BOOLEAN, Endpoint(b)
       PROVE  Closing'
  <2>1. CASE FailTerminal(Interrupted)
    BY <1>0, <1>14, <2>1, ClosingFailed DEF Endpoint
  <2>2. CASE UNCHANGED <<terminal, state, wait, rec, commits, active, streams, closer, runner>>
    BY <1>0, <1>14, <2>2, ClosingQuiet DEF Endpoint
  <2> QED
    BY <1>14, <2>1, <2>2 DEF Endpoint
<1>15. CASE FailedStreamCloses
  BY <1>0, <1>15, ClosingQuiet DEF FailedStreamCloses, journalVars, streamVars, closeVars
<1>16. CASE RecoverAfterClose
  <2>1. CASE GiveUp
    BY <1>0, <1>16, <2>1, ClosingGivenUp DEF RecoverAfterClose
  <2>2. CASE ~GiveUp
    BY <1>0, <1>16, <2>2, ClosingQuiet DEF RecoverAfterClose, RecoveryFrame, Unmoved, GoTo
  <2> QED
    BY <2>1, <2>2
<1>17. CASE RecoverAfterSleep
  <2>1. CASE GiveUp
    BY <1>0, <1>17, <2>1, ClosingGivenUp DEF RecoverAfterSleep
  <2>2. CASE ~GiveUp
    <3>1. UNCHANGED <<log, journal, cursor, commits, closing, closed, terminal, aborted, closer>>
          /\ runner' = Signalled
      BY <1>17, <2>2 DEF RecoverAfterSleep, RecoveryFrame, Unmoved
    <3> QED
      BY <1>0, <3>1, ClosingQuiet
  <2> QED
    BY <2>1, <2>2
<1>18. CASE OpenSucceeds
  BY <1>0, <1>18, ClosingQuiet DEF OpenSucceeds, journalVars, closeVars
<1>19. CASE Adopt
  <2>1. UNCHANGED <<log, journal, cursor, commits, closing, closed, terminal, aborted, closer>>
    BY <1>19 DEF Adopt, RecoveryFrame
  <2>2. runner' = Signalled \/ UNCHANGED <<runner, active, state>>
    BY <1>19 DEF Adopt
  <2> QED
    BY <1>0, <2>1, <2>2, ClosingQuiet
<1>20. CASE StableTimer
  BY <1>0, <1>20, ClosingQuiet DEF StableTimer, journalVars, streamVars, closeVars
<1>21. CASE DeadlineTimer
  BY <1>0, <1>21, ClosingQuiet DEF DeadlineTimer, journalVars, streamVars, closeVars
<1>22. ASSUME NEW source \in BOOLEAN, Retry(source), RecoveryFrame, UNCHANGED cursor
       PROVE  Closing'
  <2>1. CASE GiveUp
    BY <1>0, <1>22, <2>1, ClosingGivenUp
  <2>2. CASE UNCHANGED <<terminal, state, wait, commits, active, streams, closer, runner>>
    BY <1>0, <1>22, <2>2, ClosingQuiet DEF RecoveryFrame
  <2> QED
    BY <1>0, <1>22, <2>1, <2>2, RetryFacts
<1>23. restart \in BOOLEAN
  BY <1>0 DEF ControlType
<1>24. ASSUME NEW b \in BOOLEAN, OpenFails(b)
       PROVE  Closing'
  BY <1>0, <1>22, <1>23, <1>24, ClosingGivenUp DEF OpenFails, Unmoved
<1>25. ASSUME NEW b \in BOOLEAN, RecoverStable(b)
       PROVE  Closing'
  <2>1. CASE ~active \/ state # "probationary"
    BY <1>22, <1>25, <2>1 DEF RecoverStable, Unmoved
  <2>2. CASE ~(~active \/ state # "probationary")
    <3>1. CASE GiveUp
      BY <1>0, <1>25, <3>1, ClosingGivenUp DEF RecoverStable
    <3>2. CASE ~GiveUp
      <4>1. /\ runner' = Signalled
            /\ UNCHANGED <<log, journal, cursor, commits, closing, closed, terminal, aborted, closer>>
        BY <1>25, <2>2, <3>2 DEF RecoverStable, RecoveryFrame
      <4> QED
        BY <1>0, <4>1, ClosingQuiet
    <3> QED
      BY <3>1, <3>2
  <2> QED
    BY <2>1, <2>2
<1>26. CASE RecoverFailed
  BY <1>0, <1>22, <1>23, <1>26, ClosingGivenUp DEF RecoverFailed, Unmoved
<1>27. CASE RecoverEnded
  BY <1>0, <1>27, ClosingQuiet DEF RecoverEnded, RecoveryFrame, Unmoved
<1>28. CASE RecoverFinally
  BY <1>0, <1>28, ClosingQuiet DEF RecoverFinally, RecoveryFrame, Unmoved
<1>29. CASE UNCHANGED vars
  BY <1>0, <1>29, ClosingQuiet DEF vars, journalVars, streamVars, closeVars
<1> QED
  BY <1>1, <1>3, <1>4, <1>5, <1>6, <1>7, <1>8, <1>9, <1>10, <1>12, <1>13, <1>14, <1>15,
     <1>16, <1>17, <1>18, <1>19, <1>20, <1>21, <1>24, <1>25, <1>26, <1>27, <1>28, <1>29
     DEF SttNext, SendAudio, Commit, WriteOutcome, RecoverStep

-----------------------------------------------------------------------------
(***************************************************************************)
(* Which steps touch the journal: the admission of a command, the          *)
(* acceptance of a write, the ageing of a chunk and the failure of a       *)
(* generation.  The others leave it alone, and at most answer all commits. *)
(***************************************************************************)
Calm ==
    /\ UNCHANGED <<log, journal, old, cursor, sent, mustReplay>>
    /\ \/ commits' = commits /\ Ended' = Ended
       \/ commits' = Rejected /\ Ended'
    /\ \/ UNCHANGED <<replayStart, replayBoundary>>
       \/ replayStart' = cursor /\ replayBoundary' = 0

\* No generation starts, and no write.
Still ==
    /\ UNCHANGED <<generation, offset>> /\ (active' => active)
    /\ runner'.pc = "writing" => runner' = runner

Fails(retriable) ==
    /\ GenerationFailure(retriable) /\ ~Ended /\ active /\ UNCHANGED sent
    /\ runner'.pc = "writing" => runner' = runner

LEMMA StillFailed ==
    ASSUME ControlType, NEW next, FailTerminal(next), runner' = Signalled,
           UNCHANGED <<generation, offset>>
    PROVE  commits' = Rejected /\ Ended' /\ Still
BY Fields DEF FailTerminal, CloseActive, Ended, Still

LEMMA StillEnded ==
    ASSUME ControlType, EndNow, UNCHANGED <<generation, offset>>, active' => active
    PROVE  commits' = Rejected /\ Ended' /\ Still
BY Fields DEF EndNow, Ended, Still

LEMMA StillGivenUp ==
    ASSUME ControlType, GiveUp, UNCHANGED <<generation, offset>>
    PROVE  commits' = Rejected /\ Ended' /\ Still
BY StillFailed DEF GiveUp

LEMMA StillRetried ==
    ASSUME ControlType, NEW source \in BOOLEAN, Retry(source), RecoveryFrame, Unmoved
    PROVE  Calm /\ Still
<1>1. /\ UNCHANGED <<log, journal, old, cursor, sent, mustReplay, replayStart, replayBoundary>>
      /\ UNCHANGED <<generation, offset, closed>>
  BY DEF RecoveryFrame, Unmoved
<1>2. CASE GiveUp
  BY <1>1, <1>2, StillGivenUp DEF Calm
<1>3. CASE UNCHANGED <<terminal, state, wait, commits, active, streams, closer, runner>>
  BY <1>1, <1>3 DEF Calm, Still, Ended
<1> QED
  BY <1>2, <1>3, RetryFacts

LEMMA CalmGivenUp ==
    ASSUME ControlType, GiveUp, RecoveryFrame, Unmoved
    PROVE  Calm /\ Still
BY StillGivenUp DEF RecoveryFrame, Unmoved, Calm

LEMMA Classified ==
    ASSUME SttInv, [SttNext]_vars
    PROVE  \/ Age
           \/ \E kind \in {"audio", "commit"} : Admit(kind)
           \/ WriteAccepted
           \/ \E b \in BOOLEAN : Fails(b)
           \/ Calm /\ (RunJournal \/ (Adopt /\ ~Ended) \/ Still)
<1>0. ControlType
  BY TypeParts DEF SttInv
<1>f. /\ Signalled.pc = "writing" => Signalled = runner
      /\ [Idle EXCEPT !.pc = "check"].pc = "check"
  BY <1>0, Fields
<1>r. restart \in BOOLEAN
  BY <1>0 DEF ControlType
<1>2. CASE Close
  <2>1. /\ UNCHANGED <<log, journal, old, cursor, sent, mustReplay, replayStart, replayBoundary>>
        /\ UNCHANGED <<generation, offset, active, terminal>>
    BY <1>2 DEF Close, Unended, outputVars
  <2>2. CASE EndNow
    BY <1>0, <2>1, <2>2, StillEnded DEF Calm
  <2>3. CASE UNCHANGED <<closed, commits>> /\ runner' = Signalled
    BY <1>f, <2>1, <2>3 DEF Calm, Still, Ended
  <2> QED
    BY <1>2, <2>2, <2>3 DEF Close
<1>3. CASE Abort \/ Drained \/ DrainTimeout
  <2>1. /\ UNCHANGED <<log, journal, old, cursor, sent, mustReplay, replayStart, replayBoundary>>
        /\ UNCHANGED <<generation, offset>> /\ EndNow /\ (active' => active)
    BY <1>3 DEF Abort, Drained, DrainTimeout, CloseActive, Unended, outputVars
  <2> QED
    BY <1>0, <2>1, StillEnded DEF Calm
<1>4. CASE CloseTail
  BY <1>4 DEF CloseTail, CloseActive, Calm, Still, Ended, journalVars, outputVars
<1>5. CASE RunJournal
  BY <1>5 DEF RunJournal, Calm, Ended, journalVars, closeVars, outputVars
<1>6. ASSUME NEW b \in BOOLEAN, WriteFails(b)
      PROVE  Fails(b) \/ (Calm /\ Still)
  <2>1. UNCHANGED sent /\ runner'.pc = "check"
    BY <1>f, <1>6 DEF WriteFails
  <2>2. CASE Current /\ ~Ended
    BY <1>6, <2>1, <2>2 DEF WriteFails, Fails, Current
  <2>3. CASE ~(Current /\ ~Ended)
    BY <1>6, <2>1, <2>3 DEF WriteFails, Calm, Still, Ended, journalVars, streamVars, closeVars
  <2> QED
    BY <2>2, <2>3
<1>7. ASSUME NEW b \in BOOLEAN, StreamFails(b)
      PROVE  Fails(b)
  BY <1>f, <1>7 DEF StreamFails, Fails
<1>8. ASSUME NEW b \in BOOLEAN, Endpoint(b)
      PROVE  Calm /\ Still
  <2>1. /\ UNCHANGED <<log, journal, old, cursor, sent, mustReplay, replayStart, replayBoundary>>
        /\ UNCHANGED <<generation, offset, closed>>
    BY <1>8 DEF Endpoint
  <2>2. CASE FailTerminal(Interrupted) /\ runner' = Signalled
    BY <1>0, <2>1, <2>2, StillFailed DEF Calm
  <2>3. CASE UNCHANGED <<terminal, state, wait, rec, commits, active, streams, closer, runner>>
    BY <2>1, <2>3 DEF Calm, Still, Ended
  <2> QED
    BY <1>8, <2>2, <2>3 DEF Endpoint
<1>9. CASE FailedStreamCloses \/ StableTimer \/ DeadlineTimer
  BY <1>9 DEF FailedStreamCloses, StableTimer, DeadlineTimer, Calm, Still, Ended, journalVars,
              streamVars, closeVars, outputVars
<1>10. CASE RecoverAfterClose
  <2>1. CASE GiveUp
    BY <1>0, <1>10, <2>1, CalmGivenUp DEF RecoverAfterClose
  <2>2. CASE ~GiveUp
    BY <1>10, <2>2 DEF RecoverAfterClose, RecoveryFrame, Unmoved, GoTo, Calm, Still, Ended
  <2> QED
    BY <2>1, <2>2
<1>11. CASE RecoverAfterSleep
  <2>1. CASE GiveUp
    BY <1>0, <1>11, <2>1, CalmGivenUp DEF RecoverAfterSleep
  <2>2. CASE ~GiveUp
    BY <1>f, <1>11, <2>2 DEF RecoverAfterSleep, RecoveryFrame, Unmoved, Calm, Still, Ended
  <2> QED
    BY <2>1, <2>2
<1>12. CASE OpenSucceeds
  BY <1>12 DEF OpenSucceeds, Calm, Still, Ended, journalVars, closeVars, outputVars
<1>13. CASE Adopt
  BY <1>13 DEF Adopt, RecoveryFrame, Calm, Still, Ended
<1>14. ASSUME NEW b \in BOOLEAN, OpenFails(b)
       PROVE  Calm /\ Still
  BY <1>0, <1>r, <1>14, StillRetried, CalmGivenUp DEF OpenFails
<1>15. ASSUME NEW b \in BOOLEAN, RecoverStable(b)
       PROVE  Calm /\ Still
  <2>1. CASE ~active \/ state # "probationary"
    BY <1>0, <1>15, <2>1, StillRetried DEF RecoverStable
  <2>2. CASE ~(~active \/ state # "probationary")
    <3>1. /\ UNCHANGED <<log, journal, old, cursor, sent, mustReplay, generation, offset, closed>>
          /\ replayStart' = cursor /\ replayBoundary' = 0
      BY <1>15, <2>2 DEF RecoverStable, RecoveryFrame
    <3>2. CASE GiveUp
      BY <1>0, <3>1, <3>2, StillGivenUp DEF Calm
    <3>3. CASE runner' = Signalled /\ UNCHANGED <<restart, terminal, wait, commits, active, streams, closer>>
      BY <1>f, <3>1, <3>3 DEF Calm, Still, Ended
    <3> QED
      BY <1>15, <2>2, <3>2, <3>3 DEF RecoverStable
  <2> QED
    BY <2>1, <2>2
<1>16. CASE RecoverFailed
  BY <1>0, <1>r, <1>16, StillRetried, CalmGivenUp DEF RecoverFailed
<1>17. CASE RecoverEnded \/ RecoverFinally
  BY <1>17 DEF RecoverEnded, RecoverFinally, RecoveryFrame, Unmoved, Calm, Still, Ended
<1>18. CASE UNCHANGED vars
  BY <1>18 DEF vars, Calm, Still, Ended, journalVars, streamVars, closeVars, outputVars
<1> QED
  BY <1>2, <1>3, <1>4, <1>5, <1>6, <1>7, <1>8, <1>9, <1>10, <1>11, <1>12, <1>13, <1>14, <1>15,
     <1>16, <1>17, <1>18 DEF SttNext, SendAudio, Commit, WriteOutcome, RecoverStep

-----------------------------------------------------------------------------
(***************************************************************************)
(* The journal keeps what it must.                                         *)
(***************************************************************************)
LEMMA LogSets ==
    ASSUME SttTypeOK
    PROVE  /\ Audio \cup Commits = 1..Len(log) /\ Audio \cap Commits = {}
           /\ Audio \in SUBSET Nat /\ Commits \in SUBSET Nat /\ Len(log) \in Nat
           /\ \A c \in DOMAIN log : IsAudio(c) <=> c \in Audio
           /\ \A c \in DOMAIN log : ~IsAudio(c) <=> c \in Commits
<1>1. Len(log) \in Nat /\ DOMAIN log = 1..Len(log)
  BY Sizes
<1> QED
  BY <1>1 DEF Audio, Commits

LEMMA JournalSets ==
    ASSUME SttTypeOK, JournalInv
    PROVE  /\ Commands(Len(log), Audio, Commits, Written, Pending, old, SettledIn(commits))
           /\ Written \subseteq DOMAIN log /\ Pending \subseteq DOMAIN log
           /\ \A c \in Commits : c \in SettledIn(commits) <=> Settled(c)
<1>1. /\ journal \in Seq(DOMAIN log) /\ DOMAIN log \in SUBSET Nat /\ DOMAIN log = 1..Len(log)
      /\ cursor \in 0..Len(journal) /\ Increasing(journal)
  BY Sizes DEF JournalInv
<1>2. Written \subseteq DOMAIN log /\ Pending \subseteq DOMAIN log
  BY <1>1, Cut DEF Written, Pending
<1>3. old \subseteq Audio /\ DOMAIN commits = Commits
  BY DEF SttTypeOK
<1>4. /\ SettledIn(commits) \subseteq Commits
      /\ \A c \in Commits : c \in SettledIn(commits) <=> Settled(c)
  BY <1>3 DEF SettledIn, Settled
<1> QED
  BY <1>1, <1>2, <1>3, <1>4, LogSets DEF Commands

\* What a compaction keeps, in terms of the sets.
LEMMA ThinnedKeeps ==
    ASSUME SttTypeOK, NEW W, NEW P, NEW W2, NEW aged, NEW done, NEW acc,
           Commands(Len(log), Audio, Commits, W, P, aged, done),
           Keeps(Audio, Commits, W, P, aged, done, acc), Thinned(W, W2, P, aged, done)
    PROVE  Keeps(Audio, Commits, W2, P, aged, done, acc)
<1>1. W \cup P \subseteq DOMAIN log /\ done \subseteq Commits
  BY Sizes DEF Commands
<1>2. \A c \in W \cup P : (IsAudio(c) <=> c \in Audio) /\ (~IsAudio(c) <=> c \in Commits)
  BY <1>1, LogSets
<1>3. W2 \subseteq W
  BY DEF Thinned
<1>4. /\ \A x \in W \ W2 : x \in Audio => x \in aged
      /\ \A x \in W2 : x \in Audio => x \notin aged
  BY <1>2, <1>3 DEF Thinned
<1>5. \A x \in W : x \in Commits /\ (\E a \in W2 \cup P : a \in Audio /\ a > x) => x \in W2
  BY <1>2, <1>3 DEF Thinned
<1>6. \A x \in W : x \in done /\ (\A d \in W \cup P : d \in done => d <= x) => x \in W2
  BY <1>1, <1>2 DEF Thinned
<1> QED
  BY <1>3, <1>4, <1>5, <1>6, KeepsThinned

LEMMA RangeAppended ==
    ASSUME NEW T, NEW s \in Seq(T), NEW e \in T
    PROVE  Range(Append(s, e)) = Range(s) \cup {e}
<1>1. DOMAIN s = 1..Len(s) /\ DOMAIN Append(s, e) = 1..(Len(s) + 1) /\ Len(s) \in Nat
  OBVIOUS
<1>2. /\ \A i \in 1..Len(s) : Append(s, e)[i] = s[i]
      /\ Append(s, e)[Len(s) + 1] = e
  BY AppendProperties
<1>3. \A i : i \in 1..(Len(s) + 1) <=> i \in 1..Len(s) \/ i = Len(s) + 1
  BY <1>1
<1> QED
  BY <1>1, <1>2, <1>3 DEF Range

\* A later command at the end of the journal is one more that is pending.
Grown(k, j, n, x) ==
    /\ k \in Seq(Range(j) \cup {x}) /\ Increasing(k)
    /\ Len(k) = Len(j) + 1
    /\ Before(k, n) = Before(j, n)
    /\ After(k, n) = After(j, n) \cup {x}

LEMMA Appended ==
    ASSUME NEW T \in SUBSET Nat, NEW j \in Seq(T), Increasing(j), NEW n \in 0..Len(j),
           NEW x \in Nat, \A t \in T : t < x
    PROVE  Grown(Append(j, x), j, n, x)
<1> DEFINE k == Append(j, x)
<1>1. k \in Seq(Range(j) \cup {x}) /\ Len(k) = Len(j) + 1 /\ Len(j) \in Nat
  <2>1. j \in Seq(Range(j))
    BY SeqOfRange DEF Range
  <2>2. j \in Seq(Range(j) \cup {x})
    BY <2>1
  <2> QED
    BY <2>2
<1>2. /\ \A i \in 1..Len(j) : k[i] = j[i]
      /\ k[Len(j) + 1] = x
  BY AppendProperties
<1>3. \A i \in 1..Len(j) : j[i] \in T /\ j[i] < x
  BY ElementOfSeq
<1> HIDE DEF k
<1>4. \A i : i \in 1..Len(k) <=> i \in 1..Len(j) \/ i = Len(j) + 1
  BY <1>1
<1>5. Increasing(k)
  <2> SUFFICES ASSUME NEW a \in 1..Len(k), NEW b \in 1..Len(k), a < b PROVE k[a] < k[b]
    BY DEF Increasing
  <2>1. a \in 1..Len(j)
    BY <1>1
  <2>2. CASE b \in 1..Len(j)
    BY <1>2, <2>1, <2>2 DEF Increasing
  <2>3. CASE b = Len(j) + 1
    BY <1>2, <1>3, <2>1, <2>3
  <2> QED
    BY <1>4, <2>2, <2>3
<1>6. Before(k, n) = Before(j, n)
  <2>1. \A i \in 1..n : k[i] = j[i]
    BY <1>1, <1>2
  <2> QED
    BY <2>1 DEF Before
<1>7. After(k, n) = After(j, n) \cup {x}
  <2>1. \A i : i \in (n + 1)..Len(k) <=> i \in (n + 1)..Len(j) \/ i = Len(j) + 1
    BY <1>1
  <2>2. \A i \in (n + 1)..Len(j) : k[i] = j[i]
    BY <1>1, <1>2
  <2> QED
    BY <1>2, <2>1, <2>2 DEF After
<1> QED
  BY <1>1, <1>5, <1>6, <1>7 DEF Grown, k

\* The log with one more command.
LEMMA LogAppended ==
    ASSUME SttTypeOK, NEW kind \in {"audio", "commit"}, log' = Append(log, kind)
    PROVE  /\ Len(log') = Len(log) + 1 /\ DOMAIN log' = DOMAIN log \cup {Len(log) + 1}
           /\ log' \in Seq({"audio", "commit"})
           /\ \A c \in DOMAIN log : log'[c] = log[c]
           /\ log'[Len(log) + 1] = kind
           /\ Audio' = Audio \cup (IF kind = "audio" THEN {Len(log) + 1} ELSE {})
           /\ Commits' = Commits \cup (IF kind = "commit" THEN {Len(log) + 1} ELSE {})
           /\ Audio \subseteq DOMAIN log /\ Commits \subseteq DOMAIN log
           /\ Len(log) + 1 \notin DOMAIN log
<1>1. log \in Seq({"audio", "commit"})
  BY DEF SttTypeOK
<1>2. /\ Len(log') = Len(log) + 1 /\ log' \in Seq({"audio", "commit"})
      /\ \A c \in 1..Len(log) : log'[c] = log[c]
      /\ log'[Len(log) + 1] = kind
  BY <1>1, AppendProperties
<1>3. /\ Len(log) \in Nat /\ DOMAIN log = 1..Len(log) /\ DOMAIN log' = 1..(Len(log) + 1)
  BY <1>1, <1>2, Sizes
<1>4. DOMAIN log' = DOMAIN log \cup {Len(log) + 1} /\ Len(log) + 1 \notin DOMAIN log
  BY <1>3
<1>5. Audio' = {c \in DOMAIN log' : log'[c] = "audio"} /\ Commits' = DOMAIN log' \ Audio'
  BY DEF Audio, IsAudio, Commits
<1>6. Audio = {c \in DOMAIN log : log[c] = "audio"} /\ Commits = DOMAIN log \ Audio
  BY DEF Audio, IsAudio, Commits
<1>7. \A c \in DOMAIN log : log'[c] = log[c]
  BY <1>2, <1>3
<1>8. Audio' = Audio \cup (IF kind = "audio" THEN {Len(log) + 1} ELSE {})
  BY <1>2, <1>4, <1>5, <1>6, <1>7
<1>9. Commits' = Commits \cup (IF kind = "commit" THEN {Len(log) + 1} ELSE {})
  BY <1>2, <1>4, <1>5, <1>6, <1>8
<1> QED
  BY <1>2, <1>4, <1>6, <1>7, <1>8, <1>9

\* A step that leaves the journal alone.
LEMMA RejectedFacts ==
    ASSUME SttTypeOK
    PROVE  /\ Rejected \in [Commits -> {"pending", "resolved", "rejected"}]
           /\ SettledIn(Rejected) = Commits
           /\ \A c \in Commits : Rejected[c] # "pending" /\ (Rejected[c] = "resolved" => commits[c] = "resolved")
<1>1. commits \in [Commits -> {"pending", "resolved", "rejected"}]
  BY DEF SttTypeOK
<1>2. /\ Rejected \in [Commits -> {"pending", "resolved", "rejected"}]
      /\ \A c \in Commits : Rejected[c] # "pending" /\ (Rejected[c] = "resolved" => commits[c] = "resolved")
  BY <1>1 DEF Rejected, Settled
<1> QED
  BY <1>2 DEF SettledIn

LEMMA CalmJournal ==
    ASSUME SttInv, Calm, offset' \in [Generations -> 0..MaxCommands]
    PROVE  JournalType' /\ JournalInv' /\ CommitsAreBarriers'
<1>0. SttTypeOK /\ JournalType /\ JournalInv /\ CommitsAreBarriers
  BY TypeParts DEF SttInv
<1>1. UNCHANGED <<log, journal, old, cursor, sent, mustReplay>>
  BY DEF Calm
<1>2. /\ Audio' = Audio /\ Commits' = Commits /\ Written' = Written /\ Pending' = Pending
      /\ Accepted' = Accepted
  BY <1>1 DEF Audio, IsAudio, Commits, Written, Pending, Before, After, Accepted
<1>3. /\ cursor \in 0..Len(journal) /\ Len(journal) \in Nat
      /\ replayStart \in 0..Len(journal) /\ replayBoundary \in 0..Len(journal)
  BY <1>0, Sizes
<1>4. \/ replayStart' = replayStart /\ replayBoundary' = replayBoundary
      \/ replayStart' = cursor /\ replayBoundary' = 0
  BY DEF Calm
<1>5. {cursor', replayStart', replayBoundary'} \subseteq 0..Len(journal')
  BY <1>1, <1>3, <1>4
<1>6. /\ Commands(Len(log), Audio, Commits, Written, Pending, old, SettledIn(commits))
      /\ Keeps(Audio, Commits, Written, Pending, old, SettledIn(commits), Accepted)
  BY <1>0, JournalSets DEF JournalInv
<1>7. /\ commits' \in [Commits -> {"pending", "resolved", "rejected"}]
      /\ Keeps(Audio, Commits, Written, Pending, old, SettledIn(commits'), Accepted)
      /\ CommitsAreBarriers'
  <2>1. CASE commits' = commits /\ Ended' = Ended
    <3>1. CommitsAreBarriers'
      BY <1>0, <1>2, <2>1 DEF CommitsAreBarriers
    <3> QED
      BY <1>0, <1>6, <2>1, <3>1 DEF JournalType
  <2>2. CASE commits' = Rejected /\ Ended'
    <3>1. /\ Rejected \in [Commits -> {"pending", "resolved", "rejected"}]
          /\ SettledIn(Rejected) = Commits
          /\ \A c \in Commits : Rejected[c] # "pending" /\ (Rejected[c] = "resolved" => commits[c] = "resolved")
      BY <1>0, RejectedFacts
    <3>2. CommitsAreBarriers'
      BY <1>0, <1>2, <2>2, <3>1 DEF CommitsAreBarriers
    <3>3. Keeps(Audio, Commits, Written, Pending, old, Commits, Accepted)
      BY <1>6, KeepsRejected
    <3> QED
      BY <2>2, <3>1, <3>2, <3>3
  <2> QED
    BY <2>1, <2>2 DEF Calm
<1>8. JournalType'
  BY <1>0, <1>1, <1>2, <1>5, <1>7 DEF JournalType
<1>9. SettledIn(commits)' = SettledIn(commits')
  BY DEF SettledIn
<1>10. JournalInv'
  BY <1>0, <1>1, <1>2, <1>7, <1>9 DEF JournalInv, Increasing
<1> QED
  BY <1>7, <1>8, <1>10

\* A chunk leaves the uncertain window.
LEMMA AgeJournal ==
    ASSUME SttInv, Age
    PROVE  JournalType' /\ JournalInv' /\ CommitsAreBarriers'
<1>0. SttTypeOK /\ JournalType /\ JournalInv /\ CommitsAreBarriers
  BY TypeParts DEF SttInv
<1>1. /\ UNCHANGED <<log, journal, cursor, commits, sent, mustReplay, offset, replayStart, replayBoundary>>
      /\ UNCHANGED <<closed, terminal>>
  BY DEF Age, streamVars, outputVars, closeVars
<1>2. /\ Audio' = Audio /\ Commits' = Commits /\ Written' = Written /\ Pending' = Pending
      /\ Accepted' = Accepted /\ Ended' = Ended
  BY <1>1 DEF Audio, IsAudio, Commits, Written, Pending, Before, After, Accepted, Ended
<1>3. PICK i \in 1..cursor :
         /\ IsAudio(journal[i]) /\ journal[i] \notin old
         /\ \A k \in 1..(i - 1) : IsAudio(journal[k]) => journal[k] \in old
         /\ old' = old \cup {journal[i]}
  BY DEF Age
<1>4. /\ cursor \in 0..Len(journal) /\ Len(journal) \in Nat /\ Increasing(journal)
      /\ \A k \in 1..Len(journal) : journal[k] \in DOMAIN log /\ journal[k] \in Nat
  BY <1>0, Sizes DEF JournalInv
<1>5. journal[i] \in Audio /\ journal[i] \in Written
  BY <1>3, <1>4 DEF Audio, Written, Before
<1>6. ASSUME NEW y \in Written, y \in Audio, y < journal[i]
      PROVE  y \in old
  <2>1. PICK k \in 1..cursor : y = journal[k]
    BY DEF Written, Before
  <2>2. k < i
    BY <1>3, <1>4, <1>6, <2>1 DEF Increasing
  <2> QED
    BY <1>3, <1>6, <2>1, <2>2 DEF Audio
<1>7. Keeps(Audio, Commits, Written, Pending, old', SettledIn(commits), Accepted)
  <2>1. /\ Commands(Len(log), Audio, Commits, Written, Pending, old, SettledIn(commits))
        /\ Keeps(Audio, Commits, Written, Pending, old, SettledIn(commits), Accepted)
    BY <1>0, JournalSets DEF JournalInv
  <2>2. Keeps(Audio, Commits, Written, Pending, old \cup {journal[i]}, SettledIn(commits), Accepted)
    BY <1>5, <1>6, <2>1, KeepsAged
  <2> QED
    BY <1>3, <2>2
<1>8. JournalType'
  <2>1. old' \subseteq Audio
    BY <1>0, <1>3, <1>5 DEF JournalType
  <2> QED
    BY <1>0, <1>1, <1>2, <2>1 DEF JournalType
<1>9. JournalInv'
  BY <1>0, <1>1, <1>2, <1>7 DEF JournalInv, Increasing, SettledIn
<1>10. CommitsAreBarriers'
  BY <1>0, <1>1, <1>2 DEF CommitsAreBarriers
<1> QED
  BY <1>8, <1>9, <1>10

\* A generation fails: the cursor goes back over the uncertain window.
LEMMA ReplayFromFacts ==
    ASSUME SttTypeOK
    PROVE  /\ ReplayFrom \in 0..cursor
           /\ \A i \in (ReplayFrom + 1)..cursor : IsAudio(journal[i]) => journal[i] \notin old
           /\ ReplayFrom > 0 => journal[ReplayFrom] \in old
<1>1. Len(journal) \in Nat /\ cursor \in 0..Len(journal)
  BY Sizes
<1> DEFINE T == {i \in 1..cursor : journal[i] \in old}
<1>2. \E s \in 0..cursor :
        /\ \A i \in (s + 1)..cursor : IsAudio(journal[i]) => journal[i] \notin old
        /\ s > 0 => journal[s] \in old
  <2>1. CASE T = {}
    <3>1. \A i \in (0 + 1)..cursor : IsAudio(journal[i]) => journal[i] \notin old
      BY <2>1
    <3> QED
      BY <1>1, <3>1
  <2>2. CASE T # {}
    <3>1. T \in SUBSET (0..cursor) /\ cursor \in Nat
      BY <1>1
    <3>2. PICK s \in T : \A k \in T : k <= s
      <4> HIDE DEF T
      <4> QED
        BY <2>2, <3>1, Greatest
    <3>3. \A i \in (s + 1)..cursor : i \notin T /\ i \in 1..cursor
      BY <1>1, <3>2
    <3>4. s \in 0..cursor /\ journal[s] \in old
      BY <3>2
    <3>5. \A i \in (s + 1)..cursor : IsAudio(journal[i]) => journal[i] \notin old
      BY <3>3
    <3> QED
      BY <3>4, <3>5
  <2> QED
    BY <2>1, <2>2
<1> QED
  BY <1>2 DEF ReplayFrom

LEMMA FailsJournal ==
    ASSUME SttInv, NEW b \in BOOLEAN, Fails(b)
    PROVE  /\ JournalType' /\ JournalInv' /\ CommitsAreBarriers'
           /\ Pending \subseteq Pending' /\ Written' \subseteq Written
           /\ Written' \cup Pending' = Written \cup Pending
<1>0. SttTypeOK /\ JournalType /\ JournalInv /\ CommitsAreBarriers
  BY TypeParts DEF SttInv
<1>1. /\ UNCHANGED <<log, journal, old, sent, offset>> /\ cursor' = ReplayFrom
      /\ replayStart' = ReplayFrom /\ replayBoundary' = Len(journal)
      /\ mustReplay' = [g \in Generations |-> IF g = generation + 1 THEN Audio \ old ELSE mustReplay[g]]
      /\ \/ commits' = commits /\ Ended' = Ended
         \/ commits' = Rejected /\ Ended'
  BY DEF Fails, GenerationFailure, FailTerminal, Ended
<1>2. Audio' = Audio /\ Commits' = Commits /\ Accepted' = Accepted
  BY <1>1 DEF Audio, IsAudio, Commits, Accepted
<1>3. /\ journal \in Seq(DOMAIN log) /\ DOMAIN log \in SUBSET Nat /\ Increasing(journal)
      /\ Len(journal) \in Nat /\ cursor \in 0..Len(journal)
      /\ \A i \in 1..Len(journal) : journal[i] \in DOMAIN log
  BY <1>0, Sizes DEF JournalInv
<1> DEFINE s == ReplayFrom
<1>4. s \in 0..cursor /\ \A i \in (s + 1)..cursor : IsAudio(journal[i]) => journal[i] \notin old
  BY <1>0, ReplayFromFacts
<1>5. Written' = Before(journal, s) /\ Pending' = After(journal, s)
  BY <1>1 DEF Written, Pending, Before, After
<1> HIDE DEF s
<1>6. s \in 0..Len(journal)
  BY <1>3, <1>4
<1>7. /\ Before(journal, s) \cup After(journal, s) = Written \cup Pending
      /\ \A x \in Before(journal, s), y \in After(journal, s) : x < y
  <2>1. /\ Before(journal, s) \cup After(journal, s) = Range(journal)
        /\ \A x \in Before(journal, s), y \in After(journal, s) : x < y
    BY <1>3, <1>6, Cut
  <2>2. Written \cup Pending = Range(journal)
    BY <1>3, Cut DEF Written, Pending
  <2> QED
    BY <2>1, <2>2
<1>8. Before(journal, s) \subseteq Written /\ Pending \subseteq After(journal, s)
  BY <1>3, <1>4 DEF Written, Pending, Before, After
<1>9. /\ Commands(Len(log), Audio, Commits, Written, Pending, old, SettledIn(commits))
      /\ Keeps(Audio, Commits, Written, Pending, old, SettledIn(commits), Accepted)
  BY <1>0, JournalSets DEF JournalInv
<1>10. ASSUME NEW a \in Audio, a \in After(journal, s)
       PROVE  a \notin old
  <2>1. PICK i \in (s + 1)..Len(journal) : a = journal[i]
    BY <1>10 DEF After
  <2>2. CASE i <= cursor
    BY <1>3, <1>4, <2>1, <2>2 DEF Audio
  <2>3. CASE ~(i <= cursor)
    <3>1. i \in (cursor + 1)..Len(journal)
      BY <1>3, <1>4, <2>1, <2>3
    <3>2. a \in Pending
      BY <2>1, <3>1 DEF Pending, After
    <3> QED
      BY <1>9, <3>2 DEF Keeps
  <2> QED
    BY <2>2, <2>3
<1>11. Keeps(Audio, Commits, Before(journal, s), After(journal, s), old, SettledIn(commits), Accepted)
  BY <1>7, <1>8, <1>9, <1>10, KeepsBack
<1>12. Commands(Len(log), Audio, Commits, Before(journal, s), After(journal, s), old, SettledIn(commits))
  BY <1>7, <1>9 DEF Commands
<1>13. /\ commits' \in [Commits -> {"pending", "resolved", "rejected"}]
       /\ Keeps(Audio, Commits, Before(journal, s), After(journal, s), old, SettledIn(commits'), Accepted)
       /\ CommitsAreBarriers'
  <2>1. CASE commits' = commits /\ Ended' = Ended
    <3>1. CommitsAreBarriers'
      BY <1>0, <1>2, <2>1 DEF CommitsAreBarriers
    <3> QED
      BY <1>0, <1>11, <2>1, <3>1 DEF JournalType
  <2>2. CASE commits' = Rejected /\ Ended'
    <3>1. /\ Rejected \in [Commits -> {"pending", "resolved", "rejected"}]
          /\ SettledIn(Rejected) = Commits
          /\ \A c \in Commits : Rejected[c] # "pending" /\ (Rejected[c] = "resolved" => commits[c] = "resolved")
      BY <1>0, RejectedFacts
    <3>2. CommitsAreBarriers'
      BY <1>0, <1>2, <2>2, <3>1 DEF CommitsAreBarriers
    <3>3. Keeps(Audio, Commits, Before(journal, s), After(journal, s), old, Commits, Accepted)
      BY <1>11, <1>12, KeepsRejected
    <3> QED
      BY <2>2, <3>1, <3>2, <3>3
  <2> QED
    BY <1>1, <2>1, <2>2
<1>14. JournalType'
  <2>1. {cursor', replayStart', replayBoundary'} \subseteq 0..Len(journal')
    BY <1>1, <1>3, <1>6 DEF s
  <2>2. mustReplay' \in [Generations -> SUBSET Audio]
    BY <1>0, <1>1 DEF JournalType
  <2> QED
    BY <1>0, <1>1, <1>2, <1>13, <2>1, <2>2 DEF JournalType
<1>15. JournalInv'
  <2>1. SettledIn(commits)' = SettledIn(commits')
    BY DEF SettledIn
  <2> QED
    BY <1>0, <1>1, <1>2, <1>5, <1>13, <2>1 DEF JournalInv, Increasing
<1> QED
  BY <1>5, <1>7, <1>8, <1>13, <1>14, <1>15

\* A command is admitted, or refused by a full journal; either way the journal is
\* compacted first.
LEMMA AdmitJournal ==
    ASSUME SttInv, NEW kind \in {"audio", "commit"}, Admit(kind)
    PROVE  /\ JournalType' /\ JournalInv' /\ CommitsAreBarriers'
           /\ Written' \subseteq Written
           /\ \/ log' = log /\ Pending' = Pending /\ Ended'
              \/ log' = Append(log, kind) /\ Pending' = Pending \cup {Len(log) + 1}
<1>0. SttTypeOK /\ JournalType /\ JournalInv /\ CommitsAreBarriers
  BY TypeParts DEF SttInv
<1> DEFINE c == Compacted(cursor, old, SettledIn(commits))
           new == Len(log) + 1
<1>1. /\ cursor' = c.cursor /\ replayStart' = c.replayStart /\ replayBoundary' = c.replayBoundary
      /\ UNCHANGED <<old, offset, sent, mustReplay, closed>> /\ ~Ended /\ Len(log) < MaxCommands
  BY DEF Admit, outputVars
<1>2. \/ /\ log' = Append(log, kind) /\ journal' = Append(c.journal, new)
         /\ commits' = [x \in Commits' |-> IF x = new THEN "pending" ELSE commits[x]]
         /\ UNCHANGED terminal
      \/ /\ UNCHANGED log /\ journal' = c.journal /\ commits' = Rejected /\ terminal' = TRUE
  BY DEF Admit, FailTerminal
<1>3. /\ journal \in Seq(DOMAIN log) /\ DOMAIN log \in SUBSET Nat /\ Increasing(journal)
      /\ Len(journal) \in Nat /\ cursor \in 0..Len(journal) /\ Len(log) \in Nat
      /\ DOMAIN log = 1..Len(log)
  BY <1>0, Sizes DEF JournalInv
<1>4. Shrinks(c, cursor, old, SettledIn(commits))
  BY <1>0, <1>3, Compaction
<1> HIDE DEF c
<1> DEFINE W == Before(c.journal, c.cursor)
<1>5. /\ c.journal \in Seq(DOMAIN log) /\ Increasing(c.journal)
      /\ c.cursor \in 0..Len(c.journal) /\ c.replayStart \in 0..Len(c.journal)
      /\ c.replayBoundary \in 0..Len(c.journal)
      /\ After(c.journal, c.cursor) = Pending
      /\ Thinned(Written, W, Pending, old, SettledIn(commits))
  BY <1>4 DEF Shrinks, Pending, Written
<1>6. /\ Commands(Len(log), Audio, Commits, Written, Pending, old, SettledIn(commits))
      /\ Keeps(Audio, Commits, Written, Pending, old, SettledIn(commits), Accepted)
      /\ \A x \in Commits : x \in SettledIn(commits) <=> Settled(x)
  BY <1>0, JournalSets DEF JournalInv
<1> HIDE DEF W
<1>7. Keeps(Audio, Commits, W, Pending, old, SettledIn(commits), Accepted)
  BY <1>0, <1>5, <1>6, ThinnedKeeps
<1>8. W \subseteq Written
  BY <1>5 DEF Thinned
<1>9. Commands(Len(log), Audio, Commits, W, Pending, old, SettledIn(commits))
  BY <1>6, <1>8 DEF Commands
<1>10. Accepted' = Accepted
  BY <1>1 DEF Accepted
<1>11. CASE UNCHANGED log /\ journal' = c.journal /\ commits' = Rejected /\ terminal' = TRUE
  <2>1. Audio' = Audio /\ Commits' = Commits
    BY <1>11 DEF Audio, IsAudio, Commits
  <2>2. Ended'
    BY <1>11 DEF Ended
  <2>3. Written' = W /\ Pending' = Pending
    BY <1>1, <1>5, <1>11 DEF Written, Pending, Before, After, W
  <2>4. /\ Rejected \in [Commits -> {"pending", "resolved", "rejected"}]
        /\ SettledIn(Rejected) = Commits
        /\ \A x \in Commits : Rejected[x] # "pending" /\ (Rejected[x] = "resolved" => commits[x] = "resolved")
    BY <1>0, RejectedFacts
  <2>5. Keeps(Audio, Commits, W, Pending, old, Commits, Accepted)
    BY <1>7, <1>9, KeepsRejected
  <2>6. SettledIn(commits)' = Commits
    BY <1>11, <2>4 DEF SettledIn
  <2>7. JournalInv'
    BY <1>1, <1>5, <1>10, <1>11, <2>1, <2>3, <2>5, <2>6 DEF JournalInv, Increasing
  <2>8. CommitsAreBarriers'
    BY <1>0, <1>10, <1>11, <2>1, <2>2, <2>4 DEF CommitsAreBarriers
  <2>9. JournalType'
    <3>1. {cursor', replayStart', replayBoundary'} \subseteq 0..Len(journal')
      BY <1>1, <1>5, <1>11
    <3> QED
      BY <1>0, <1>1, <1>5, <1>11, <2>1, <2>4, <3>1 DEF JournalType
  <2> QED
    BY <1>8, <1>11, <2>2, <2>3, <2>7, <2>8, <2>9
<1>12. CASE /\ log' = Append(log, kind) /\ journal' = Append(c.journal, new)
            /\ commits' = [x \in Commits' |-> IF x = new THEN "pending" ELSE commits[x]]
            /\ UNCHANGED terminal
  <2>1. /\ Len(log') = new /\ DOMAIN log' = DOMAIN log \cup {new} /\ log' \in Seq({"audio", "commit"})
        /\ Audio' = Audio \cup (IF kind = "audio" THEN {new} ELSE {})
        /\ Commits' = Commits \cup (IF kind = "commit" THEN {new} ELSE {})
        /\ Audio \subseteq DOMAIN log /\ Commits \subseteq DOMAIN log /\ new \notin DOMAIN log
    BY <1>0, <1>12, LogAppended
  <2>2. new \in Nat /\ \A t \in DOMAIN log : t < new
    BY <1>3
  <2> HIDE DEF new
  <2>3. /\ journal' \in Seq(DOMAIN log \cup {new}) /\ Increasing(journal')
        /\ Len(journal') = Len(c.journal) + 1
        /\ Before(journal', c.cursor) = W
        /\ After(journal', c.cursor) = Pending \cup {new}
    <3>1. Grown(journal', c.journal, c.cursor, new)
      BY <1>3, <1>5, <1>12, <2>2, Appended
    <3>2. Range(c.journal) \subseteq DOMAIN log
      BY <1>5, RangeOfSeq DEF Range
    <3>3. journal' \in Seq(DOMAIN log \cup {new})
      <4>1. Range(c.journal) \cup {new} \subseteq DOMAIN log \cup {new}
        BY <3>2
      <4> QED
        BY <3>1, <4>1 DEF Grown
    <3> QED
      BY <1>5, <3>1, <3>3 DEF Grown, W
  <2>4. Written' = W /\ Pending' = Pending \cup {new}
    BY <1>1, <2>3 DEF Written, Pending, Before, After
  <2>5. Ended' = Ended
    BY <1>1, <1>12 DEF Ended
  <2>6. /\ commits \in [Commits -> {"pending", "resolved", "rejected"}]
        /\ DOMAIN commits = Commits
    BY <1>0 DEF JournalType
  <2>7. /\ commits' \in [Commits' -> {"pending", "resolved", "rejected"}]
        /\ \A x \in Commits : commits'[x] = commits[x]
        /\ kind = "commit" => commits'[new] = "pending"
    BY <1>12, <2>1, <2>6
  <2>8. SettledIn(commits)' = SettledIn(commits)
    <3>1. DOMAIN commits' = Commits'
      BY <2>7
    <3> QED
      BY <2>1, <2>6, <2>7, <3>1 DEF SettledIn
  <2>9. Keeps(Audio', Commits', W, Pending \cup {new}, old, SettledIn(commits), Accepted)
    <3>1. CASE kind = "audio"
      <4>1. Audio' = Audio \cup {new} /\ Commits' = Commits
        BY <2>1, <3>1
      <4> QED
        BY <1>7, <1>9, <4>1, KeepsAudio DEF new
    <3>2. CASE kind = "commit"
      <4>1. Audio' = Audio /\ Commits' = Commits \cup {new}
        BY <2>1, <3>2
      <4> QED
        BY <1>7, <1>9, <4>1, KeepsCommit DEF new
    <3> QED
      BY <3>1, <3>2
  <2>10. JournalInv'
    BY <1>1, <1>10, <2>3, <2>4, <2>8, <2>9 DEF JournalInv, Increasing
  <2>11. CommitsAreBarriers'
    <3> SUFFICES ASSUME NEW x \in Commits'
                 PROVE  /\ commits'[x] = "resolved" => \A a \in Audio' : a < x => a \in Accepted
                        /\ commits'[x] = "rejected" => Ended
                        /\ Ended => commits'[x] # "pending"
      BY <1>10, <2>5 DEF CommitsAreBarriers
    <3>1. CASE x \notin Commits
      BY <1>1, <2>1, <2>7, <3>1
    <3>2. CASE x \in Commits
      <4>1. \A a \in Audio' : a < x => a \in Audio
        BY <2>1, <2>2, <3>2
      <4> QED
        BY <1>0, <2>7, <3>2, <4>1 DEF CommitsAreBarriers
    <3> QED
      BY <3>1, <3>2
  <2>12. JournalType'
    <3>1. {cursor', replayStart', replayBoundary'} \subseteq 0..Len(journal')
      BY <1>1, <1>5, <2>3
    <3>2. Len(log') <= MaxCommands
      BY <1>1, <1>3, <2>1, Limits DEF new
    <3>3. old' \subseteq Audio' /\ mustReplay' \in [Generations -> SUBSET Audio']
      <4>1. /\ old \subseteq Audio /\ mustReplay \in [Generations -> SUBSET Audio]
            /\ Audio \subseteq Audio'
        BY <1>0, <2>1 DEF JournalType
      <4>2. SUBSET Audio \subseteq SUBSET Audio'
        BY <4>1
      <4>3. mustReplay \in [Generations -> SUBSET Audio']
        BY <4>1, <4>2
      <4> QED
        BY <1>1, <4>1, <4>3
    <3>4. sent' \in [Generations -> Seq(DOMAIN log')]
      <4>1. Seq(DOMAIN log) \subseteq Seq(DOMAIN log')
        BY <2>1
      <4>2. sent \in [Generations -> Seq(DOMAIN log)]
        BY <1>0 DEF JournalType
      <4>3. sent \in [Generations -> Seq(DOMAIN log')]
        BY <4>1, <4>2
      <4> QED
        BY <1>1, <4>3
    <3>5. offset' \in [Generations -> 0..MaxCommands]
      BY <1>0, <1>1 DEF JournalType
    <3> QED
      BY <2>1, <2>3, <2>7, <3>1, <3>2, <3>3, <3>4, <3>5 DEF JournalType
  <2> QED
    BY <1>8, <1>12, <2>4, <2>10, <2>11, <2>12 DEF new
<1> QED
  BY <1>2, <1>11, <1>12

\* A write is accepted.
LEMMA SentAppended ==
    ASSUME SttTypeOK, NEW g \in Generations, NEW x \in DOMAIN log,
           sent' = [sent EXCEPT ![g] = Append(@, x)]
    PROVE  /\ sent' \in [Generations -> Seq(DOMAIN log)]
           /\ sent'[g] = Append(sent[g], x)
           /\ \A h \in Generations : h # g => sent'[h] = sent[h]
           /\ \A h \in Generations : Range(sent[h]) \subseteq Range(sent'[h])
           /\ Range(sent'[g]) = Range(sent[g]) \cup {x}
           /\ Accepted' = Accepted \cup {x}
<1>1. sent \in [Generations -> Seq(DOMAIN log)]
  BY DEF SttTypeOK
<1>2. /\ sent' \in [Generations -> Seq(DOMAIN log)]
      /\ sent'[g] = Append(sent[g], x)
      /\ \A h \in Generations : h # g => sent'[h] = sent[h]
  BY <1>1
<1>3. Range(sent'[g]) = Range(sent[g]) \cup {x}
  <2>1. sent[g] \in Seq(DOMAIN log)
    BY <1>1
  <2> QED
    BY <1>2, <2>1, RangeAppended
<1>4. \A h \in Generations : Range(sent[h]) \subseteq Range(sent'[h])
  BY <1>2, <1>3
<1> DEFINE R(h) == Range(sent[h])
           R2(h) == Range(sent'[h])
<1>5. /\ \A h \in Generations : h # g => R2(h) = R(h)
      /\ R2(g) = R(g) \cup {x}
  BY <1>2, <1>3
<1>6. Accepted = UNION {R(h) : h \in Generations} /\ Accepted' = UNION {R2(h) : h \in Generations}
  BY DEF Accepted, Range
<1> HIDE DEF R, R2
<1>7. Accepted' = Accepted \cup {x}
  BY <1>5, <1>6
<1> QED
  BY <1>2, <1>3, <1>4, <1>7

LEMMA WriteJournal ==
    ASSUME SttInv, WriteAccepted
    PROVE  /\ JournalType' /\ JournalInv' /\ CommitsAreBarriers'
           /\ runner.gen \in Generations /\ runner.cmd \in DOMAIN log
           /\ ~Current => UNCHANGED <<journal, cursor>>
           /\ Current => /\ runner.cmd \in Pending /\ (\A y \in Pending : runner.cmd <= y)
                         /\ Pending' = Pending \ {runner.cmd}
                         /\ Written' \subseteq Written \cup {runner.cmd}
<1>0. SttTypeOK /\ JournalType /\ JournalInv /\ CommitsAreBarriers /\ InFlight /\ generation \in Generations
  BY TypeParts DEF SttInv, SentInv, ControlType
<1> DEFINE x == runner.cmd
<1>1. /\ runner.pc = "writing" /\ sent' = [sent EXCEPT ![runner.gen] = Append(@, x)]
      /\ UNCHANGED <<log, offset, mustReplay, closed, terminal>>
  BY DEF WriteAccepted, streamVars
<1>2. runner.gen \in Generations /\ x \in DOMAIN log
      /\ (Current => cursor < Len(journal) /\ x = journal[cursor + 1])
  BY <1>0, <1>1, Limits DEF InFlight, Generations
<1>3. /\ sent' \in [Generations -> Seq(DOMAIN log)] /\ Accepted' = Accepted \cup {x}
  <2> HIDE DEF x
  <2> QED
    BY <1>0, <1>1, <1>2, SentAppended
<1>4. Audio' = Audio /\ Commits' = Commits /\ Ended' = Ended
  BY <1>1 DEF Audio, IsAudio, Commits, Ended
<1>5. /\ Commands(Len(log), Audio, Commits, Written, Pending, old, SettledIn(commits))
      /\ Keeps(Audio, Commits, Written, Pending, old, SettledIn(commits), Accepted)
      /\ \A c \in Commits : c \in SettledIn(commits) <=> Settled(c)
  BY <1>0, JournalSets DEF JournalInv
<1>6. /\ journal \in Seq(DOMAIN log) /\ DOMAIN log \in SUBSET Nat /\ Increasing(journal)
      /\ Len(journal) \in Nat /\ cursor \in 0..Len(journal) /\ DOMAIN log = 1..Len(log)
  BY <1>0, Sizes DEF JournalInv
<1>7. CASE ~Current
  <2>1. UNCHANGED <<old, commits, journal, cursor, replayStart, replayBoundary>>
    BY <1>7 DEF WriteAccepted
  <2>2. Written' = Written /\ Pending' = Pending /\ SettledIn(commits)' = SettledIn(commits)
    BY <2>1 DEF Written, Pending, Before, After, SettledIn
  <2>3. Keeps(Audio, Commits, Written, Pending, old, SettledIn(commits), Accepted \cup {x})
    BY <1>5, KeepsMore
  <2>4. JournalInv'
    BY <1>0, <1>3, <1>4, <2>1, <2>2, <2>3 DEF JournalInv, Increasing
  <2>5. CommitsAreBarriers'
    BY <1>0, <1>3, <1>4, <2>1 DEF CommitsAreBarriers
  <2>6. JournalType'
    BY <1>0, <1>1, <1>3, <1>4, <2>1 DEF JournalType
  <2> QED
    BY <1>2, <1>7, <2>1, <2>4, <2>5, <2>6
<1>8. CASE Current
  <2> DEFINE settled == [c \in Commits |-> IF c = x /\ ~Settled(c) THEN "resolved" ELSE commits[c]]
             done == SettledIn(settled)
             c == Compacted(cursor + 1, old \ {x}, done)
             W == Written \cup {x}
             P == Pending \ {x}
  <2>1. /\ old' = old \ {x} /\ commits' = settled /\ journal' = c.journal /\ cursor' = c.cursor
        /\ replayStart' = c.replayStart /\ replayBoundary' = c.replayBoundary
    BY <1>8 DEF WriteAccepted
  <2>2. /\ cursor < Len(journal) /\ x = journal[cursor + 1] /\ cursor + 1 \in 0..Len(journal)
    BY <1>2, <1>6, <1>8
  <2>3. commits \in [Commits -> {"pending", "resolved", "rejected"}]
    BY <1>0 DEF JournalType
  <2>4. /\ settled \in [Commits -> {"pending", "resolved", "rejected"}]
        /\ \A d \in Commits : /\ d # x => settled[d] = commits[d]
                              /\ d = x => settled[d] # "pending"
                              /\ Settled(d) => settled[d] = commits[d]
                              /\ d = x /\ ~Settled(d) => settled[d] = "resolved"
    BY <2>3 DEF Settled
  <2> HIDE DEF settled, x
  <2>5. done = SettledIn(commits) \cup ({x} \cap Commits)
    <3>1. DOMAIN settled = Commits
      BY <2>4
    <3>2. \A d : d \in done <=> d \in Commits /\ settled[d] # "pending"
      BY <3>1 DEF done, SettledIn
    <3>3. SettledIn(commits) \subseteq Commits
      BY <1>5 DEF Commands
    <3> HIDE DEF done
    <3>4. \A d : d \in done <=> d \in SettledIn(commits) \/ (d = x /\ d \in Commits)
      BY <1>5, <2>4, <3>2, <3>3 DEF Settled
    <3> QED
      BY <3>4
  <2>6. /\ x \in Pending /\ (\A y \in Pending : x <= y)
        /\ After(journal, cursor + 1) = P /\ Before(journal, cursor + 1) = W
    BY <1>6, <2>2, Cut, ZenonT(30) DEF Pending, Written
  <2>7. old \ {x} = old
    <3>1. x \notin old
      BY <1>5, <2>6 DEF Keeps, Commands
    <3> QED
      BY <3>1
  <2>8. Shrinks(c, cursor + 1, old, done)
    <3>1. c = Compacted(cursor + 1, old, done)
      BY <2>7
    <3> HIDE DEF c, done
    <3> QED
      BY <1>0, <1>6, <2>2, <3>1, Compaction
  <2> HIDE DEF c, done
  <2> DEFINE W2 == Before(c.journal, c.cursor)
  <2>9. /\ c.journal \in Seq(DOMAIN log) /\ Increasing(c.journal)
        /\ c.cursor \in 0..Len(c.journal) /\ c.replayStart \in 0..Len(c.journal)
        /\ c.replayBoundary \in 0..Len(c.journal)
        /\ After(c.journal, c.cursor) = P /\ Thinned(W, W2, P, old, done)
    BY <2>6, <2>8 DEF Shrinks
  <2>10. Keeps(Audio, Commits, W, P, old, done, Accepted \cup {x})
    BY <1>5, <2>5, <2>6, KeepsAccepted
  <2>11. Commands(Len(log), Audio, Commits, W, P, old, done)
    BY <1>5, <2>5, <2>6 DEF Commands
  <2> HIDE DEF W, P, W2
  <2>12. Keeps(Audio, Commits, W2, P, old, done, Accepted \cup {x}) /\ W2 \subseteq W
    BY <1>0, <2>9, <2>10, <2>11, ThinnedKeeps DEF Thinned
  <2>13. Written' = W2 /\ Pending' = P
    BY <2>1, <2>9 DEF Written, Pending, Before, After, W2
  <2>14. SettledIn(commits)' = done
    BY <2>1 DEF SettledIn, done
  <2>15. JournalInv'
    BY <1>3, <1>4, <2>1, <2>7, <2>9, <2>12, <2>13, <2>14 DEF JournalInv, Increasing
  <2>16. CommitsAreBarriers'
    <3> SUFFICES ASSUME NEW d \in Commits
                 PROVE  /\ settled[d] = "resolved" => \A a \in Audio : a < d => a \in Accepted \cup {x}
                        /\ settled[d] = "rejected" => Ended
                        /\ Ended => settled[d] # "pending"
      BY <1>3, <1>4, <2>1 DEF CommitsAreBarriers
    <3>1. CASE d = x /\ ~Settled(d)
      <4>1. ASSUME NEW a \in Audio, a < x
            PROVE  a \in Accepted
        <5>1. a \notin Pending
          BY <1>5, <2>6, <4>1 DEF Commands
        <5> QED
          BY <1>5, <5>1 DEF Keeps
      <4> QED
        BY <2>4, <3>1, <4>1
    <3>2. CASE ~(d = x /\ ~Settled(d))
      <4>1. settled[d] = commits[d]
        BY <2>4, <3>2
      <4> QED
        BY <1>0, <4>1 DEF CommitsAreBarriers
    <3> QED
      BY <3>1, <3>2
  <2>17. JournalType'
    <3>1. {cursor', replayStart', replayBoundary'} \subseteq 0..Len(journal')
      BY <2>1, <2>9
    <3>2. old' \subseteq Audio
      BY <1>0, <2>1 DEF JournalType
    <3> QED
      BY <1>0, <1>1, <1>3, <1>4, <2>1, <2>4, <2>9, <3>1, <3>2 DEF JournalType
  <2> QED
    BY <1>2, <1>8, <2>6, <2>12, <2>13, <2>15, <2>16, <2>17 DEF x, P, W
<1> QED
  BY <1>7, <1>8

-----------------------------------------------------------------------------
(***************************************************************************)
(* What every generation was sent.                                         *)
(***************************************************************************)
LEMMA FiniteLog ==
    ASSUME SttTypeOK
    PROVE  /\ IsFiniteSet(Audio) /\ Cardinality(Audio) \in 0..MaxCommands
           /\ \A S \in SUBSET Audio : IsFiniteSet(S) /\ Cardinality(S) \in 0..MaxCommands
<1>1. /\ IsFiniteSet(1..Len(log)) /\ Cardinality(1..Len(log)) = Len(log) /\ Len(log) \in Nat
      /\ Len(log) <= MaxCommands /\ Audio \subseteq 1..Len(log)
  <2>1. Len(log) \in Nat /\ Len(log) <= MaxCommands /\ Audio \subseteq 1..Len(log)
    BY Sizes, LogSets
  <2> PICK n : n = Len(log)
    OBVIOUS
  <2>2. n \in Nat /\ n \in Int /\ 1 \in Int
    BY <2>1
  <2>3. IsFiniteSet(1..n) /\ Cardinality(1..n) = (IF 1 > n THEN 0 ELSE n - 1 + 1)
    BY ONLY <2>2, FS_Interval, Zenon
  <2>4. Cardinality(1..n) = n
    BY <2>2, <2>3
  <2> QED
    BY <2>1, <2>3, <2>4
<1>2. ASSUME NEW S, S \subseteq 1..Len(log)
      PROVE  IsFiniteSet(S) /\ Cardinality(S) \in 0..MaxCommands
  <2>1. IsFiniteSet(S) /\ Cardinality(S) <= Len(log)
    BY <1>1, <1>2, FS_Subset, ZenonT(30)
  <2>2. Cardinality(S) \in Nat
    BY <2>1, FS_CardinalityType
  <2> QED
    BY <1>1, <2>1, <2>2, Limits
<1>3. \A S \in SUBSET Audio : S \subseteq 1..Len(log)
  BY <1>1
<1> QED
  BY <1>1, <1>2, <1>3

\* The audio before the first pending chunk is the audio that is not pending.
LEMMA NextRank ==
    ASSUME SttTypeOK, JournalInv, NEW x \in Audio, x \in Pending,
           \A y \in Pending : y \in Audio => x <= y
    PROVE  Rank(x) = Cardinality(Audio \ Pending)
<1>1. /\ Audio \in SUBSET Nat
      /\ Keeps(Audio, Commits, Written, Pending, old, SettledIn(commits), Accepted)
  BY LogSets DEF JournalInv
<1>2. ASSUME NEW a \in Audio
      PROVE  a < x <=> a \notin Pending
  <2>1. a < x => a \notin Pending
    BY <1>1
  <2>2. ASSUME a \notin Pending, ~(a < x)
        PROVE  FALSE
    <3>1. a # x /\ x < a
      BY <1>1, <2>2
    <3>2. a \in Written
      BY <1>1, <2>2, <3>1 DEF Keeps
    <3>3. a < x
      BY <1>1, <3>2 DEF Keeps
    <3> QED
      BY <2>2, <3>3
  <2> QED
    BY <2>1, <2>2
<1>3. {a \in Audio : a < x} = Audio \ Pending
  BY <1>2
<1> QED
  BY <1>3 DEF Rank

\* A generation opened at the start of the replay has its offset there.
LEMMA OffsetFacts ==
    ASSUME SttTypeOK, JournalInv, cursor = replayStart
    PROVE  /\ AudioOffset = Cardinality(Audio \ Pending)
           /\ AudioOffset \in 0..MaxCommands
<1> DEFINE R == Pending \cap Audio
<1>1. {journal[i] : i \in (replayStart + 1)..Len(journal)} \cap Audio = R
  BY DEF Pending, After
<1>2. AudioOffset = IF R = {} THEN Cardinality(Audio)
                    ELSE Rank(CHOOSE a \in R : \A b \in R : a <= b)
  <2> DEFINE Q == {journal[i] : i \in (replayStart + 1)..Len(journal)} \cap Audio
  <2>1. AudioOffset = IF Q = {} THEN Cardinality(Audio)
                      ELSE Rank(CHOOSE a \in Q : \A b \in Q : a <= b)
    BY DEF AudioOffset
  <2>2. Q = R
    BY <1>1
  <2> HIDE DEF Q, R
  <2> QED
    BY <2>1, <2>2
<1>3. CASE R = {}
  <2>1. Audio \ Pending = Audio
    BY <1>3
  <2> QED
    BY <1>2, <1>3, <2>1, FiniteLog
<1>4. CASE R # {}
  <2> DEFINE m == CHOOSE a \in R : \A b \in R : a <= b
  <2>1. R \in SUBSET Nat
    BY LogSets
  <2>2. \E a \in R : \A b \in R : a <= b
    <3> HIDE DEF R
    <3> QED
      BY <1>4, <2>1, Least
  <2>3. m \in R /\ \A b \in R : m <= b
    BY <2>2
  <2> HIDE DEF m
  <2>4. m \in Audio /\ m \in Pending /\ \A y \in Pending : y \in Audio => m <= y
    BY <2>3
  <2>5. Rank(m) = Cardinality(Audio \ Pending)
    BY <2>4, NextRank
  <2>6. Cardinality(Audio \ Pending) \in 0..MaxCommands
    BY FiniteLog
  <2> QED
    BY <1>2, <1>4, <2>5, <2>6 DEF m
<1> QED
  BY <1>3, <1>4

\* One sequence of commands without a gap, from an offset on.
Gapless(s, from) ==
    \A i \in 1..Len(s) :
        /\ IsAudio(s[i]) => Rank(s[i]) = from + Cardinality({k \in 1..(i - 1) : IsAudio(s[k])})
        /\ i > 1 => /\ s[i - 1] < s[i]
                    /\ IsAudio(s[i - 1]) /\ IsAudio(s[i]) => s[i] = s[i - 1] + 1

LEMMA GapFreeParts ==
    ASSUME SttTypeOK
    PROVE  GapFree <=> \A g \in Generations : Gapless(sent[g], offset[g])
<1>1. sent \in [Generations -> Seq(DOMAIN log)]
  BY DEF SttTypeOK
<1>2. \A g \in Generations : DOMAIN sent[g] = 1..Len(sent[g])
  BY <1>1
<1> QED
  BY <1>2 DEF GapFree, Gapless

\* The chunks of a sequence with one more command.
LEMMA ChunksAppended ==
    ASSUME SttTypeOK, NEW s \in Seq(DOMAIN log), NEW x \in DOMAIN log
    PROVE  /\ Cardinality(Chunks(Append(s, x))) =
                 Cardinality(Chunks(s)) + (IF x \in Audio THEN 1 ELSE 0)
           /\ Cardinality(Chunks(s)) \in Nat
           /\ LastOf(Append(s, x)) = x /\ Append(s, x) # <<>>
<1> DEFINE t == Append(s, x)
           n == Len(s) + 1
<1>1. /\ t \in Seq(DOMAIN log) /\ Len(t) = n /\ Len(s) \in Nat /\ t # <<>>
      /\ \A i \in 1..Len(s) : t[i] = s[i]
      /\ t[n] = x
  BY AppendProperties
<1>2. LastOf(t) = x
  BY <1>1 DEF LastOf
<1>3. IsAudio(x) <=> x \in Audio
  BY LogSets
<1>4. IsFiniteSet(Chunks(s)) /\ Cardinality(Chunks(s)) \in Nat /\ n \notin Chunks(s)
  <2>1. IsFiniteSet(1..Len(s)) /\ Chunks(s) \subseteq 1..Len(s)
    BY <1>1, FS_Interval DEF Chunks
  <2>2. n \notin 1..Len(s)
    BY <1>1
  <2> QED
    BY <2>1, <2>2, FS_Subset, FS_CardinalityType
<1> HIDE DEF t
<1>5. \A i : i \in 1..n <=> i \in 1..Len(s) \/ i = n
  BY <1>1
<1>6. CASE x \in Audio
  <2>1. Chunks(t) = Chunks(s) \cup {n}
    BY <1>1, <1>3, <1>5, <1>6 DEF Chunks
  <2>2. Cardinality(Chunks(t)) = Cardinality(Chunks(s)) + 1
    BY <1>4, <2>1, FS_AddElement
  <2> QED
    BY <1>1, <1>2, <1>4, <1>6, <2>2 DEF t
<1>7. CASE x \notin Audio
  <2>1. Chunks(t) = Chunks(s)
    BY <1>1, <1>3, <1>5, <1>7 DEF Chunks
  <2> QED
    BY <1>1, <1>2, <1>4, <1>7, <2>1 DEF t
<1> QED
  BY <1>6, <1>7

LEMMA GapAppended ==
    ASSUME SttTypeOK, NEW g \in Generations, NEW x \in DOMAIN log, Gapless(sent[g], offset[g]),
           Follows(g, x)
    PROVE  Gapless(Append(sent[g], x), offset[g])
<1> DEFINE s == sent[g]
           t == Append(s, x)
           from == offset[g]
<1>0. s \in Seq(DOMAIN log)
  BY DEF SttTypeOK
<1>1. /\ Len(t) = Len(s) + 1 /\ Len(s) \in Nat
      /\ \A i \in 1..Len(s) : t[i] = s[i]
      /\ t[Len(s) + 1] = x
  BY <1>0, AppendProperties
<1>2. s # <<>> <=> Len(s) > 0
  BY <1>0
<1>3. /\ s # <<>> => /\ s[Len(s)] < x
                     /\ IsAudio(s[Len(s)]) /\ IsAudio(x) => x = s[Len(s)] + 1
      /\ IsAudio(x) => Rank(x) = from + Cardinality({k \in 1..Len(s) : IsAudio(s[k])})
  BY DEF Follows, LastOf, Chunks
<1>4. Gapless(s, from)
  OBVIOUS
<1> HIDE DEF s, t, from
<1> SUFFICES ASSUME NEW i \in 1..Len(t)
             PROVE  /\ IsAudio(t[i]) => Rank(t[i]) = from + Cardinality({k \in 1..(i - 1) : IsAudio(t[k])})
                    /\ i > 1 => /\ t[i - 1] < t[i]
                                /\ IsAudio(t[i - 1]) /\ IsAudio(t[i]) => t[i] = t[i - 1] + 1
  BY DEF Gapless, s, t, from
<1>5. \A k \in 1..(i - 1) : t[k] = s[k]
  BY <1>1
<1>6. {k \in 1..(i - 1) : IsAudio(t[k])} = {k \in 1..(i - 1) : IsAudio(s[k])}
  BY <1>5
<1>7. CASE i \in 1..Len(s)
  <2>1. t[i] = s[i]
    BY <1>1, <1>7
  <2>2. i > 1 => t[i - 1] = s[i - 1]
    BY <1>5
  <2> QED
    BY <1>4, <1>6, <1>7, <2>1, <2>2 DEF Gapless
<1>8. CASE i \notin 1..Len(s)
  <2>1. i = Len(s) + 1 /\ i - 1 = Len(s) /\ t[i] = x
    BY <1>1, <1>8
  <2>2. i > 1 => t[i - 1] = s[Len(s)] /\ s # <<>>
    BY <1>1, <1>2, <1>5, <2>1
  <2>3. {k \in 1..(i - 1) : IsAudio(t[k])} = {k \in 1..Len(s) : IsAudio(s[k])}
    BY <1>6, <2>1
  <2> QED
    BY <1>3, <2>1, <2>2, <2>3
<1> QED
  BY <1>7, <1>8

\* The entry at the cursor may be the next one the active generation accepts.
LEMMA NextFollows ==
    ASSUME SttInv, active, cursor < Len(journal), NEW x, x = journal[cursor + 1]
    PROVE  x \in DOMAIN log /\ x \in Pending /\ Follows(generation, x)
<1>0. SttTypeOK /\ JournalInv /\ InStep /\ generation \in Generations
  BY TypeParts DEF SttInv, SentInv, ControlType
<1>1. /\ journal \in Seq(DOMAIN log) /\ DOMAIN log \in SUBSET Nat /\ Increasing(journal)
      /\ cursor \in 0..Len(journal) /\ DOMAIN log = 1..Len(log) /\ Len(log) \in Nat
  BY <1>0, Sizes DEF JournalInv
<1>2. x \in DOMAIN log /\ x \in Pending /\ \A y \in Pending : x <= y
  BY <1>1, Cut DEF Pending
<1>3. /\ Audio \cup Commits = DOMAIN log
      /\ \A c \in DOMAIN log : IsAudio(c) <=> c \in Audio
  BY <1>0, <1>1, LogSets
<1> DEFINE s == sent[generation]
<1>4. s \in Seq(DOMAIN log)
  BY <1>0 DEF SttTypeOK
<1>5. /\ Cardinality(Audio \ Pending) = offset[generation] + Cardinality(Chunks(s))
      /\ s # <<>> =>
           /\ \A y \in Pending : y > LastOf(s)
           /\ IsAudio(LastOf(s)) =>
                /\ \A b \in Audio : b > LastOf(s) => b \in Pending
                /\ \A b \in Audio : \A c \in Commits : LastOf(s) < c /\ c < b =>
                      \E d \in Commits : d \in Pending /\ LastOf(s) < d /\ d < b
  BY <1>0 DEF InStep
<1>6. ASSUME IsAudio(x)
      PROVE  Rank(x) = offset[generation] + Cardinality(Chunks(s))
  <2>1. x \in Audio /\ \A y \in Pending : y \in Audio => x <= y
    BY <1>2, <1>3, <1>6
  <2> QED
    BY <1>0, <1>2, <1>5, <2>1, NextRank
<1>7. ASSUME s # <<>>
      PROVE  /\ LastOf(s) < x
             /\ IsAudio(LastOf(s)) /\ IsAudio(x) => x = LastOf(s) + 1
  <2> DEFINE l == LastOf(s)
  <2>1. l \in DOMAIN log
    BY <1>4, <1>7 DEF LastOf
  <2>2. l < x
    BY <1>1, <1>2, <1>5, <1>7, <2>1
  <2>3. ASSUME IsAudio(l), IsAudio(x), x # l + 1
        PROVE  FALSE
    <3> HIDE DEF l
    <3> PICK N : N = Len(log)
      OBVIOUS
    <3>1. l \in 1..N /\ x \in 1..N /\ N \in Nat
      BY <1>1, <1>2, <2>1
    <3>2. l + 1 \in 1..N /\ l < l + 1 /\ l + 1 < x
      BY <2>2, <2>3, <3>1
    <3>3. l + 1 \in Audio \cup Commits
      BY <1>1, <1>3, <3>2
    <3>4. CASE l + 1 \in Audio
      <4>1. l + 1 > l
        BY <3>1
      <4>2. l + 1 \in Pending
        BY <1>5, <1>7, <2>3, <3>4, <4>1 DEF l
      <4>3. x <= l + 1
        BY <1>2, <4>2
      <4> QED
        BY <3>1, <3>2, <4>3
    <3>5. CASE l + 1 \in Commits
      <4>1. x \in Audio
        BY <1>2, <1>3, <2>3
      <4>2. PICK d \in Commits : d \in Pending /\ l < d /\ d < x
        BY <1>5, <1>7, <2>3, <3>2, <3>5, <4>1 DEF l
      <4>3. x <= d /\ d \in Nat
        BY <1>1, <1>2, <1>3, <4>2
      <4> QED
        BY <3>1, <4>2, <4>3
    <3> QED
      BY <3>3, <3>4, <3>5
  <2> QED
    BY <2>2, <2>3
<1> QED
  BY <1>2, <1>6, <1>7 DEF Follows

\* The parts that do not depend on the log or on what was sent.
LEMMA SameFollows ==
    ASSUME UNCHANGED <<log, sent, offset>>
    PROVE  /\ \A g, c : Follows(g, c)' <=> Follows(g, c)
           /\ GapFree' <=> GapFree
           /\ Audio' = Audio /\ Commits' = Commits
           /\ \A s : Chunks(s)' = Chunks(s)
BY DEF Follows, GapFree, Audio, Commits, IsAudio, Chunks, LastOf, Rank

LEMMA StillSent ==
    ASSUME SttInv, UNCHANGED <<log, journal, cursor, sent>>, Still
    PROVE  SentInv'
<1>0. SentInv
  BY DEF SttInv
<1>1. /\ UNCHANGED <<generation, offset>> /\ (active' => active)
      /\ runner'.pc = "writing" => runner' = runner
  BY DEF Still
<1>2. /\ \A g, c : Follows(g, c)' <=> Follows(g, c)
      /\ GapFree' <=> GapFree
      /\ Audio' = Audio /\ Commits' = Commits
      /\ \A s : Chunks(s)' = Chunks(s)
  BY <1>1, SameFollows
<1>3. Written' = Written /\ Pending' = Pending
  BY DEF Written, Pending, Before, After
<1>4. GapFree' /\ Unopened'
  BY <1>0, <1>1, <1>2 DEF SentInv, Unopened
<1>5. InStep'
  BY <1>0, <1>1, <1>2, <1>3 DEF SentInv, InStep, LastOf, IsAudio, Chunks
<1>6. InFlight'
  <2> SUFFICES ASSUME runner'.pc = "writing" PROVE InFlight'
    BY DEF InFlight
  <2>1. runner' = runner /\ runner.pc = "writing"
    BY <1>1
  <2>2. Follows(runner.gen, runner.cmd)'
    BY <1>0, <1>1, <2>1 DEF SentInv, InFlight, Follows, LastOf, IsAudio, Chunks, Rank, Audio
  <2> QED
    BY <1>0, <1>1, <2>1, <2>2 DEF SentInv, InFlight, Current
<1> QED
  BY <1>4, <1>5, <1>6 DEF SentInv

LEMMA AgeSent ==
    ASSUME SttInv, Age
    PROVE  SentInv'
<1>1. UNCHANGED <<log, journal, cursor, sent, generation, offset, active, runner>>
  BY DEF Age, streamVars, outputVars
<1> QED
  BY <1>1, StillSent DEF Still

\* The failure of a generation leaves no active one.
LEMMA FailsSent ==
    ASSUME SttInv, UNCHANGED <<log, sent, generation, offset>>, active' = FALSE,
           runner'.pc = "writing" => runner' = runner
    PROVE  SentInv'
<1>0. SentInv
  BY DEF SttInv
<1>1. GapFree' /\ Unopened'
  BY <1>0, SameFollows DEF SentInv, Unopened
<1>2. InFlight'
  <2> SUFFICES ASSUME runner'.pc = "writing" PROVE InFlight'
    BY DEF InFlight
  <2>1. runner' = runner /\ runner.pc = "writing"
    OBVIOUS
  <2>2. Follows(runner.gen, runner.cmd)'
    BY <1>0, <2>1 DEF SentInv, InFlight, Follows, LastOf, IsAudio, Chunks, Rank, Audio
  <2> QED
    BY <1>0, <2>1, <2>2 DEF SentInv, InFlight, Current
<1> QED
  BY <1>1, <1>2 DEF SentInv, InStep

\* A write starts.
LEMMA RunSent ==
    ASSUME SttInv, RunJournal
    PROVE  SentInv'
<1>0. SentInv /\ ControlType /\ SttTypeOK
  BY TypeParts DEF SttInv
<1>1. UNCHANGED <<log, journal, cursor, sent, generation, offset, active>>
  BY DEF RunJournal, journalVars, streamVars, outputVars
<1>2. CASE runner'.pc # "writing"
  BY <1>1, <1>2, StillSent DEF Still
<1>3. CASE runner'.pc = "writing"
  <2>1. /\ ~(cursor >= Len(journal)) /\ active
        /\ runner' = [pc |-> "writing", gen |-> generation, cmd |-> journal[cursor + 1]]
    <3>1. Idle.pc = "waiting" /\ \A p : [Idle EXCEPT !.pc = p].pc = p
      BY <1>0, Fields
    <3> QED
      BY <1>3, <3>1 DEF RunJournal
  <2>2. cursor < Len(journal)
    BY <1>0, <2>1, Sizes
  <2> DEFINE x == journal[cursor + 1]
  <2>3. x \in DOMAIN log /\ x \in Pending /\ Follows(generation, x)
    BY <2>1, <2>2, NextFollows
  <2> HIDE DEF x
  <2>4. runner'.gen = generation /\ runner'.cmd = x
    BY <2>1 DEF x
  <2>5. Follows(runner.gen, runner.cmd)'
    BY <1>1, <2>3, <2>4 DEF Follows, LastOf, IsAudio, Chunks, Rank, Audio
  <2>6. generation \in 1..generation
    BY <1>0 DEF ControlType, Generations
  <2>7. InFlight'
    BY <1>1, <2>2, <2>3, <2>4, <2>5, <2>6 DEF InFlight, x
  <2>8. Written' = Written /\ Pending' = Pending /\ Audio' = Audio /\ Commits' = Commits
    BY <1>1 DEF Written, Pending, Before, After, Audio, IsAudio, Commits
  <2>9. InStep'
    BY <1>0, <1>1, <2>8 DEF SentInv, InStep, LastOf, IsAudio, Chunks
  <2>10. GapFree' /\ Unopened'
    BY <1>0, <1>1, SameFollows DEF SentInv, Unopened
  <2> QED
    BY <2>7, <2>9, <2>10 DEF SentInv
<1> QED
  BY <1>2, <1>3

\* The next generation becomes the active one.
LEMMA AdoptSent ==
    ASSUME SttInv, Adopt, ~Ended
    PROVE  SentInv' /\ offset' \in [Generations -> 0..MaxCommands]
<1>0. SentInv /\ ControlType /\ SttTypeOK /\ JournalInv /\ Replay /\ Recovering /\ JournalType
  BY TypeParts DEF SttInv
<1>1. /\ UNCHANGED <<log, journal, cursor, sent>> /\ generation' = generation + 1 /\ active' = TRUE
      /\ offset' = [offset EXCEPT ![generation + 1] = AudioOffset] /\ runner' = Signalled
      /\ rec.pc = "opened"
  BY DEF Adopt, RecoveryFrame
<1>2. cursor = replayStart /\ generation < MaxGenerations
  BY <1>0, <1>1 DEF Replay, Recovering
<1>3. generation \in Generations /\ generation \in Nat /\ generation + 1 \in Generations
  BY <1>0, <1>2, Limits DEF ControlType, Generations
<1>4. AudioOffset = Cardinality(Audio \ Pending) /\ AudioOffset \in 0..MaxCommands
  BY <1>0, <1>2, OffsetFacts
<1>5. /\ offset \in [Generations -> 0..MaxCommands]
      /\ offset' \in [Generations -> 0..MaxCommands]
      /\ offset'[generation + 1] = AudioOffset
      /\ \A g \in Generations : g # generation + 1 => offset'[g] = offset[g]
  BY <1>0, <1>1, <1>3, <1>4 DEF JournalType
<1>6. sent[generation + 1] = <<>>
  BY <1>0, <1>3 DEF SentInv, Unopened
<1>7. Audio' = Audio /\ Commits' = Commits /\ Pending' = Pending
  BY <1>1 DEF Audio, IsAudio, Commits, Pending, After
<1>8. InStep'
  <2>1. Chunks(<<>>)' = {}
    BY DEF Chunks
  <2>2. Cardinality({}) = 0
    BY FS_EmptySet
  <2>3. Cardinality(Audio \ Pending) \in Nat
    BY <1>0, FiniteLog
  <2>4. Cardinality(Audio' \ Pending') = offset'[generation'] + Cardinality(Chunks(sent[generation])')
    <3>1. sent'[generation'] = <<>>
      BY <1>1, <1>6
    <3>2. Chunks(sent[generation])' = {}
      BY <3>1 DEF Chunks
    <3> QED
      BY <1>1, <1>4, <1>5, <1>7, <2>2, <2>3, <3>2
  <2> QED
    BY <1>1, <1>6, <2>4 DEF InStep
<1>9. Unopened'
  BY <1>0, <1>1, <1>3 DEF SentInv, Unopened, Generations
<1>10. GapFree'
  <2> SUFFICES ASSUME NEW g \in Generations, NEW i \in DOMAIN sent[g]
               PROVE  /\ IsAudio(sent[g][i]) => Rank(sent[g][i]) = offset'[g]
                                  + Cardinality({k \in 1..(i - 1) : IsAudio(sent[g][k])})
                      /\ i > 1 => /\ sent[g][i - 1] < sent[g][i]
                                  /\ IsAudio(sent[g][i - 1]) /\ IsAudio(sent[g][i])
                                       => sent[g][i] = sent[g][i - 1] + 1
    BY <1>1 DEF GapFree, IsAudio, Rank, Audio
  <2>1. g # generation + 1
    <3>1. DOMAIN <<>> = {}
      OBVIOUS
    <3> QED
      BY <1>6, <3>1
  <2>2. offset'[g] = offset[g]
    BY <1>5, <2>1
  <2> QED
    BY <1>0, <2>2 DEF SentInv, GapFree
<1>11. InFlight'
  <2> SUFFICES ASSUME runner'.pc = "writing" PROVE InFlight'
    BY DEF InFlight
  <2>1. runner' = runner /\ runner.pc = "writing"
    BY <1>0, <1>1, Fields
  <2>2. runner.gen \in 1..generation /\ runner.cmd \in DOMAIN log /\ Follows(runner.gen, runner.cmd)
    BY <1>0, <2>1 DEF SentInv, InFlight
  <2>3. /\ runner.gen \in Generations /\ runner.gen # generation + 1
        /\ runner.gen \in 1..(generation + 1)
    BY <1>3, <2>2, Limits DEF Generations
  <2>4. offset'[runner.gen] = offset[runner.gen]
    BY <1>5, <2>3
  <2>5. Follows(runner.gen, runner.cmd)'
    BY <1>1, <2>1, <2>2, <2>4 DEF Follows, LastOf, IsAudio, Chunks, Rank, Audio
  <2> QED
    BY <1>1, <2>1, <2>2, <2>3, <2>5 DEF InFlight, Current
<1> QED
  BY <1>5, <1>8, <1>9, <1>10, <1>11 DEF SentInv

\* A command more in the log: nothing that was sent is judged differently.
LEMMA LongerLog ==
    ASSUME SttTypeOK, NEW kind \in {"audio", "commit"}, log' = Append(log, kind),
           UNCHANGED <<sent, offset>>
    PROVE  /\ \A c \in DOMAIN log : (IsAudio(c)' <=> IsAudio(c)) /\ Rank(c)' = Rank(c)
           /\ \A g \in Generations : Chunks(sent[g])' = Chunks(sent[g])
           /\ \A g \in Generations, c \in DOMAIN log : Follows(g, c) => Follows(g, c)'
           /\ GapFree => GapFree'
<1> DEFINE new == Len(log) + 1
<1>1. /\ \A c \in DOMAIN log : log'[c] = log[c]
      /\ Audio' = Audio \cup (IF kind = "audio" THEN {new} ELSE {})
  BY LogAppended
<1>2. \A c \in DOMAIN log : c < new /\ c \in Nat
  BY Sizes
<1>3. new \in Nat
  BY Sizes
<1> HIDE DEF new
<1>4. \A c \in DOMAIN log : IsAudio(c)' <=> IsAudio(c)
  BY <1>1 DEF IsAudio
<1>5. ASSUME NEW c \in DOMAIN log
      PROVE  Rank(c)' = Rank(c)
  <2>1. {a \in Audio' : a < c} = {a \in Audio : a < c}
    BY <1>1, <1>2, <1>3
  <2> QED
    BY <2>1 DEF Rank
<1>6. ASSUME NEW g \in Generations
      PROVE  /\ sent[g] \in Seq(DOMAIN log)
             /\ \A i \in 1..Len(sent[g]) : sent[g][i] \in DOMAIN log
             /\ DOMAIN sent[g] = 1..Len(sent[g]) /\ Len(sent[g]) \in Nat
  <2>1. sent[g] \in Seq(DOMAIN log)
    BY DEF SttTypeOK
  <2> QED
    BY <2>1, ElementOfSeq
<1>7. \A g \in Generations : Chunks(sent[g])' = Chunks(sent[g])
  BY <1>4, <1>6 DEF Chunks, IsAudio
<1>8. ASSUME NEW g \in Generations, NEW c \in DOMAIN log, Follows(g, c)
      PROVE  Follows(g, c)'
  <2>1. sent[g] # <<>> => LastOf(sent[g]) \in DOMAIN log
    BY <1>6 DEF LastOf
  <2>2. sent[g] # <<>> => (IsAudio(LastOf(sent[g]))' <=> IsAudio(LastOf(sent[g])))
    BY <1>4, <2>1 DEF IsAudio, LastOf
  <2>3. Chunks(sent[g])' = Chunks(sent[g])
    BY <1>7
  <2>4. (IsAudio(c)' <=> IsAudio(c)) /\ Rank(c)' = Rank(c)
    BY <1>4, <1>5
  <2>5. LastOf(sent[g])' = LastOf(sent[g])
    BY DEF LastOf
  <2> QED
    BY <1>8, <2>2, <2>3, <2>4, <2>5 DEF Follows
<1>9. ASSUME GapFree
      PROVE  GapFree'
  <2> SUFFICES ASSUME NEW g \in Generations, NEW i \in DOMAIN sent[g]
               PROVE  /\ IsAudio(sent[g][i])' => Rank(sent[g][i])' = offset[g]
                                  + Cardinality({k \in 1..(i - 1) : IsAudio(sent[g][k])'})
                      /\ i > 1 => /\ sent[g][i - 1] < sent[g][i]
                                  /\ IsAudio(sent[g][i - 1])' /\ IsAudio(sent[g][i])'
                                       => sent[g][i] = sent[g][i - 1] + 1
    BY DEF GapFree, IsAudio, Rank
  <2>1. i \in 1..Len(sent[g]) /\ \A k \in 1..(i - 1) : k \in 1..Len(sent[g])
    BY <1>6
  <2>2. \A k \in 1..Len(sent[g]) : /\ IsAudio(sent[g][k])' <=> IsAudio(sent[g][k])
                                   /\ Rank(sent[g][k])' = Rank(sent[g][k])
    <3> SUFFICES ASSUME NEW k \in 1..Len(sent[g])
                 PROVE  /\ IsAudio(sent[g][k])' <=> IsAudio(sent[g][k])
                        /\ Rank(sent[g][k])' = Rank(sent[g][k])
      OBVIOUS
    <3>1. sent[g][k] \in DOMAIN log
      BY <1>6
    <3>2. {a \in Audio' : a < sent[g][k]} = {a \in Audio : a < sent[g][k]}
      BY <1>1, <1>2, <1>3, <3>1
    <3> QED
      BY <1>1, <3>1, <3>2 DEF IsAudio, Rank
  <2>3. {k \in 1..(i - 1) : IsAudio(sent[g][k])'} = {k \in 1..(i - 1) : IsAudio(sent[g][k])}
    BY <2>1, <2>2
  <2>4. i > 1 => i - 1 \in 1..Len(sent[g])
    BY <2>1
  <2> QED
    BY <1>9, <2>1, <2>2, <2>3, <2>4 DEF GapFree
<1> QED
  BY <1>4, <1>5, <1>7, <1>8, <1>9

LEMMA AdmitSent ==
    ASSUME SttInv, NEW kind \in {"audio", "commit"}, Admit(kind)
    PROVE  SentInv'
<1>0. SentInv /\ ControlType /\ SttTypeOK /\ JournalInv
  BY TypeParts DEF SttInv
<1> DEFINE c == Compacted(cursor, old, SettledIn(commits))
           new == Len(log) + 1
           s == sent[generation]
<1>1. /\ UNCHANGED <<sent, generation, offset>> /\ runner' = Signalled /\ cursor' = c.cursor
  BY DEF Admit, outputVars
<1>2. runner'.pc = "writing" => runner' = runner
  BY <1>0, <1>1, Fields
<1>3. \/ /\ log' = Append(log, kind) /\ journal' = Append(c.journal, new) /\ UNCHANGED active
      \/ UNCHANGED log /\ active' = FALSE
  BY DEF Admit, FailTerminal, CloseActive
<1>4. CASE UNCHANGED log /\ active' = FALSE
  BY <1>1, <1>2, <1>4, FailsSent
<1>5. CASE /\ log' = Append(log, kind) /\ journal' = Append(c.journal, new) /\ UNCHANGED active
  <2>1. /\ \A d \in DOMAIN log : (IsAudio(d)' <=> IsAudio(d)) /\ Rank(d)' = Rank(d)
        /\ \A g \in Generations : Chunks(sent[g])' = Chunks(sent[g])
        /\ \A g \in Generations, d \in DOMAIN log : Follows(g, d) => Follows(g, d)'
        /\ GapFree => GapFree'
    BY <1>0, <1>1, <1>5, LongerLog
  <2>2. GapFree' /\ Unopened'
    BY <1>0, <1>1, <2>1 DEF SentInv, Unopened
  <2>3. /\ DOMAIN log' = DOMAIN log \cup {new}
        /\ Audio' = Audio \cup (IF kind = "audio" THEN {new} ELSE {})
        /\ Commits' = Commits \cup (IF kind = "commit" THEN {new} ELSE {})
        /\ Audio \subseteq DOMAIN log /\ Commits \subseteq DOMAIN log /\ new \notin DOMAIN log
    BY <1>0, <1>5, LogAppended
  <2>4. new \in Nat /\ DOMAIN log \in SUBSET Nat /\ \A d \in DOMAIN log : d < new
    BY <1>0, Sizes
  <2>5. Written' \subseteq Written /\ Pending' = Pending \cup {new}
    <3>1. \/ log' = log
          \/ Pending' = Pending \cup {new}
      BY AdmitJournal
    <3>2. Written' \subseteq Written
      BY AdmitJournal
    <3>3. log' # log
      <4>1. DOMAIN log' # DOMAIN log
        BY <2>3
      <4> QED
        BY <4>1
    <3> QED
      BY <3>1, <3>2, <3>3
  <2>6. /\ Written \subseteq DOMAIN log /\ Pending \subseteq DOMAIN log
        /\ Keeps(Audio, Commits, Written, Pending, old, SettledIn(commits), Accepted)
    BY <1>0, JournalSets DEF JournalInv
  <2>7. InFlight'
    <3> SUFFICES ASSUME runner'.pc = "writing" PROVE InFlight'
      BY DEF InFlight
    <3>1. runner' = runner /\ runner.pc = "writing"
      BY <1>2
    <3>2. /\ runner.gen \in 1..generation /\ runner.cmd \in DOMAIN log
          /\ Follows(runner.gen, runner.cmd)
          /\ Current => cursor < Len(journal) /\ runner.cmd = journal[cursor + 1]
      BY <1>0, <3>1 DEF SentInv, InFlight
    <3>3. runner.gen \in Generations
      BY <1>0, <3>2, Limits DEF ControlType, Generations
    <3>4. Follows(runner.gen, runner.cmd)'
      <4>1. \A g \in Generations, d \in DOMAIN log : Follows(g, d) => Follows(g, d)'
        BY <2>1
      <4> PICK h, y : h = runner.gen /\ y = runner.cmd
        OBVIOUS
      <4>2. Follows(h, y)'
        BY <3>2, <3>3, <4>1
      <4>3. runner'.gen = h /\ runner'.cmd = y
        BY <3>1
      <4> QED
        BY <4>2, <4>3 DEF Follows
    <3>5. ASSUME Current
          PROVE  c.cursor < Len(journal') /\ runner.cmd = journal'[c.cursor + 1]
      <4>1. Shrinks(c, cursor, old, SettledIn(commits))
        BY <1>0, Sizes, Compaction DEF JournalInv
      <4> HIDE DEF c
      <4>2. /\ c.journal \in Seq(DOMAIN log) /\ c.cursor \in 0..Len(c.journal)
            /\ c.cursor < Len(c.journal) /\ c.journal[c.cursor + 1] = runner.cmd
        BY <3>2, <3>5, <4>1 DEF Shrinks
      <4>3. /\ Len(journal') = Len(c.journal) + 1 /\ Len(c.journal) \in Nat
            /\ \A i \in 1..Len(c.journal) : journal'[i] = c.journal[i]
        <5>1. c.journal \in Seq(DOMAIN log \cup {new})
          BY <4>2
        <5> QED
          BY <1>5, <5>1, AppendProperties
      <4>4. c.cursor + 1 \in 1..Len(c.journal)
        BY <4>2, <4>3
      <4> QED
        BY <4>2, <4>3, <4>4
    <3>6. Current' => Current
      BY <1>1, <1>5, <3>1 DEF Current
    <3>7. runner.cmd \in DOMAIN log'
      BY <2>3, <3>2
    <3> QED
      BY <1>1, <3>1, <3>2, <3>4, <3>5, <3>6, <3>7 DEF InFlight
  <2> HIDE DEF new
  <2>8. ASSUME active'
        PROVE  /\ Cardinality(Audio' \ Pending') = offset[generation] + Cardinality(Chunks(s)')
               /\ s # <<>> =>
                    /\ \A x \in Written' : x <= LastOf(s)
                    /\ \A x \in Pending' : x > LastOf(s)
                    /\ IsAudio(LastOf(s))' =>
                         /\ \A b \in Audio' : b > LastOf(s) => b \in Pending'
                         /\ \A b \in Audio' : \A d \in Commits' : LastOf(s) < d /\ d < b =>
                               \E e \in Commits' : e \in Pending' /\ LastOf(s) < e /\ e < b
    <3>0. active /\ generation \in Generations
      BY <1>0, <1>5, <2>8 DEF ControlType
    <3>1. /\ Cardinality(Audio \ Pending) = offset[generation] + Cardinality(Chunks(s))
          /\ s # <<>> =>
               /\ \A x \in Written : x <= LastOf(s)
               /\ \A x \in Pending : x > LastOf(s)
               /\ IsAudio(LastOf(s)) =>
                    /\ \A b \in Audio : b > LastOf(s) => b \in Pending
                    /\ \A b \in Audio : \A d \in Commits : LastOf(s) < d /\ d < b =>
                          \E e \in Commits : e \in Pending /\ LastOf(s) < e /\ e < b
      BY <1>0, <3>0 DEF SentInv, InStep
    <3>2. Audio' \ Pending' = Audio \ Pending
      BY <2>3, <2>5
    <3>3. Chunks(s)' = Chunks(s)
      BY <2>1, <3>0, <1>1
    <3>4. ASSUME s # <<>>
          PROVE  /\ \A x \in Written' : x <= LastOf(s)
                 /\ \A x \in Pending' : x > LastOf(s)
                 /\ IsAudio(LastOf(s))' =>
                      /\ \A b \in Audio' : b > LastOf(s) => b \in Pending'
                      /\ \A b \in Audio' : \A d \in Commits' : LastOf(s) < d /\ d < b =>
                            \E e \in Commits' : e \in Pending' /\ LastOf(s) < e /\ e < b
      <4> DEFINE l == LastOf(s)
      <4>1. l \in DOMAIN log
        <5>1. s \in Seq(DOMAIN log)
          BY <1>0, <3>0 DEF SttTypeOK
        <5> QED
          BY <3>4, <5>1 DEF LastOf
      <4>2. l \in Nat /\ l < new /\ (IsAudio(l)' <=> IsAudio(l))
        <5>1. LastOf(s)' = LastOf(s)
          BY <1>1 DEF LastOf
        <5>2. log'[l] = log[l]
          BY <1>0, <1>5, <4>1, LogAppended
        <5>3. l \in Nat /\ l < new
          BY <2>4, <4>1
        <5> QED
          BY <5>1, <5>2, <5>3 DEF IsAudio
      <4>3. /\ \A x \in Written : x <= l
            /\ \A x \in Pending : x > l
            /\ IsAudio(l) =>
                 /\ \A b \in Audio : b > l => b \in Pending
                 /\ \A b \in Audio : \A d \in Commits : l < d /\ d < b =>
                       \E e \in Commits : e \in Pending /\ l < e /\ e < b
        BY <3>1, <3>4
      <4> HIDE DEF l
      <4>4. (\A x \in Written' : x <= l) /\ \A x \in Pending' : x > l
        BY <2>4, <2>5, <4>2, <4>3
      <4>5. ASSUME IsAudio(l), NEW b \in Audio', b > l
            PROVE  b \in Pending'
        BY <2>3, <2>5, <4>3, <4>5
      <4>6. ASSUME IsAudio(l), NEW b \in Audio', NEW d \in Commits', l < d, d < b
            PROVE  \E e \in Commits' : e \in Pending' /\ l < e /\ e < b
        <5>1. d \in Commits
          BY <2>3, <2>4, <4>6
        <5>2. CASE b \in Audio
          BY <2>3, <2>5, <4>3, <4>6, <5>1, <5>2
        <5>3. CASE b \notin Audio
          <6>1. b = new
            BY <2>3, <5>3
          <6>2. CASE d \in SettledIn(commits)
            <7>1. PICK e \in Commits : e \in Written \cup Pending /\ e \in SettledIn(commits) /\ d <= e
              BY <2>6, <5>1, <6>2 DEF Keeps
            <7>2. e \in DOMAIN log /\ d \in DOMAIN log
              BY <2>3, <5>1, <7>1
            <7>3. e \in Nat /\ d \in Nat /\ e < new
              BY <2>4, <7>2
            <7>4. l < e
              BY <4>2, <4>6, <7>1, <7>3
            <7>5. e \notin Written
              BY <4>2, <4>3, <7>3, <7>4
            <7> QED
              BY <2>3, <2>5, <6>1, <7>1, <7>3, <7>4, <7>5
          <6>3. CASE d \notin SettledIn(commits)
            <7>1. d \in Pending
              BY <2>6, <5>1, <6>3 DEF Keeps
            <7> QED
              BY <2>3, <2>5, <4>6, <5>1, <7>1
          <6> QED
            BY <6>2, <6>3
        <5> QED
          BY <5>2, <5>3
      <4> QED
        <5>1. IsAudio(LastOf(s))' <=> IsAudio(l)
          BY <4>2 DEF l
        <5>2. \A b \in Audio' : IsAudio(l) /\ b > l => b \in Pending'
          BY <4>5
        <5>3. \A b \in Audio' : \A d \in Commits' : IsAudio(l) /\ l < d /\ d < b =>
                            \E e \in Commits' : e \in Pending' /\ l < e /\ e < b
          BY <4>6
        <5> QED
          BY <4>4, <5>1, <5>2, <5>3 DEF l
    <3> QED
      BY <3>1, <3>2, <3>3, <3>4
  <2>9. InStep'
    BY <1>1, <2>8 DEF InStep, LastOf
  <2> QED
    BY <2>2, <2>7, <2>9 DEF SentInv
<1> QED
  BY <1>3, <1>4, <1>5

LEMMA WriteSent ==
    ASSUME SttInv, WriteAccepted
    PROVE  SentInv'
<1>0. SentInv /\ ControlType /\ SttTypeOK /\ JournalInv
  BY TypeParts DEF SttInv
<1> DEFINE x == runner.cmd
           h == runner.gen
<1>1. /\ runner.pc = "writing" /\ sent' = [sent EXCEPT ![h] = Append(@, x)]
      /\ UNCHANGED <<log, offset, generation, active>> /\ runner' = [Idle EXCEPT !.pc = "check"]
  BY DEF WriteAccepted, streamVars
<1>2. h \in Generations /\ x \in DOMAIN log
  BY WriteJournal
<1>3. h \in 1..generation /\ Follows(h, x)
  BY <1>0, <1>1 DEF SentInv, InFlight
<1>4. Current <=> h = generation /\ active
  BY DEF Current
<1> HIDE DEF x, h
<1>5. /\ sent' \in [Generations -> Seq(DOMAIN log)]
      /\ sent'[h] = Append(sent[h], x)
      /\ \A g \in Generations : g # h => sent'[g] = sent[g]
  BY <1>0, <1>1, <1>2, SentAppended
<1>6. InFlight'
  <2>1. runner'.pc = "check"
    BY <1>0, <1>1, Fields
  <2> QED
    BY <2>1 DEF InFlight
<1>7. Unopened'
  <2>1. generation \in Nat
    BY <1>0 DEF ControlType, Generations
  <2> QED
    BY <1>0, <1>1, <1>3, <1>5, <2>1 DEF SentInv, Unopened, Generations
<1>8. Audio' = Audio /\ Commits' = Commits
  BY <1>1 DEF Audio, IsAudio, Commits
<1>9. GapFree'
  <2>1. \A g \in Generations : Gapless(sent[g], offset[g])
    BY <1>0, GapFreeParts DEF SentInv
  <2>2. Gapless(Append(sent[h], x), offset[h])
    BY <1>0, <1>2, <1>3, <2>1, GapAppended
  <2>3. \A g \in Generations : Gapless(sent'[g], offset[g])
    BY <1>5, <2>1, <2>2
  <2>4. \A g \in Generations : DOMAIN sent'[g] = 1..Len(sent'[g])
    BY <1>5
  <2> SUFFICES ASSUME NEW g \in Generations, NEW i \in 1..Len(sent'[g])
               PROVE  /\ IsAudio(sent'[g][i]) => Rank(sent'[g][i]) = offset[g]
                                  + Cardinality({k \in 1..(i - 1) : IsAudio(sent'[g][k])})
                      /\ i > 1 => /\ sent'[g][i - 1] < sent'[g][i]
                                  /\ IsAudio(sent'[g][i - 1]) /\ IsAudio(sent'[g][i])
                                       => sent'[g][i] = sent'[g][i - 1] + 1
    <3>1. /\ \A c : (log[c] = "audio")' <=> log[c] = "audio"
          /\ log' = log /\ offset' = offset
      BY <1>1
    <3>2. \A g \in Generations : \A i \in DOMAIN sent'[g] : i \in 1..Len(sent'[g])
      BY <2>4
    <3> QED
      BY <1>8, <3>1, <3>2 DEF GapFree, IsAudio, Rank
  <2> QED
    BY <2>3 DEF Gapless
<1>10. InStep'
  <2>1. CASE ~Current
    <3> SUFFICES ASSUME active PROVE InStep'
      BY <1>1 DEF InStep
    <3>1. h # generation /\ generation \in Generations
      BY <1>0, <1>4, <2>1 DEF ControlType
    <3>2. sent'[generation] = sent[generation]
      BY <1>5, <3>1
    <3>3. UNCHANGED <<journal, cursor>>
      BY <2>1, WriteJournal
    <3>4. Written' = Written /\ Pending' = Pending
      BY <3>3 DEF Written, Pending, Before, After
    <3> QED
      BY <1>0, <1>1, <1>8, <3>2, <3>4 DEF SentInv, InStep, IsAudio, LastOf, Chunks
  <2>2. CASE Current
    <3>1. /\ x \in Pending /\ (\A y \in Pending : x <= y) /\ Pending' = Pending \ {x}
          /\ Written' \subseteq Written \cup {x}
      BY <2>2, WriteJournal DEF x
    <3>2. /\ Keeps(Audio, Commits, Written, Pending, old, SettledIn(commits), Accepted)
          /\ Written \subseteq DOMAIN log /\ Pending \subseteq DOMAIN log /\ DOMAIN log \in SUBSET Nat
      BY <1>0, JournalSets, Sizes DEF JournalInv
    <3>3. Audio \in SUBSET Nat /\ Commits \in SUBSET Nat /\ (IsAudio(x) <=> x \in Audio)
      BY <1>0, <1>2, LogSets
    <3> DEFINE s == sent[h]
               t == Append(s, x)
    <3>4. s \in Seq(DOMAIN log) /\ sent'[generation'] = t /\ generation' = h
      BY <1>0, <1>1, <1>2, <1>4, <1>5, <2>2 DEF SttTypeOK
    <3>5. /\ Cardinality(Chunks(t)) = Cardinality(Chunks(s)) + (IF x \in Audio THEN 1 ELSE 0)
          /\ Cardinality(Chunks(s)) \in Nat /\ LastOf(t) = x
      BY <1>0, <1>2, <3>4, ChunksAppended
    <3>6. Cardinality(Audio \ Pending) = offset[h] + Cardinality(Chunks(s))
      BY <1>0, <1>4, <2>2 DEF SentInv, InStep
    <3> HIDE DEF s, t
    <3>7. Cardinality(Audio \ Pending') = offset[h] + Cardinality(Chunks(t))
      <4>1. IsFiniteSet(Audio \ Pending) /\ Cardinality(Audio \ Pending) \in Nat
        <5>1. IsFiniteSet(Audio \ Pending)
          BY <1>0, FiniteLog
        <5> QED
          BY <5>1, FS_CardinalityType
      <4>2. offset[h] \in Nat
        BY <1>0, <1>2, Limits DEF SttTypeOK
      <4>3. CASE x \in Audio
        <5>1. Audio \ Pending' = (Audio \ Pending) \cup {x} /\ x \notin Audio \ Pending
          BY <3>1, <4>3
        <5>2. Cardinality(Audio \ Pending') = Cardinality(Audio \ Pending) + 1
          BY <4>1, <5>1, FS_AddElement
        <5> QED
          BY <3>5, <3>6, <4>1, <4>2, <4>3, <5>2
      <4>4. CASE x \notin Audio
        <5>1. Audio \ Pending' = Audio \ Pending
          BY <3>1, <4>4
        <5>2. Cardinality(Chunks(t)) = Cardinality(Chunks(s))
          BY <3>5, <4>4
        <5> QED
          BY <3>6, <5>1, <5>2
      <4> QED
        BY <4>3, <4>4
    <3>8. /\ \A y \in Written' : y <= x
          /\ \A y \in Pending' : y > x
      <4>1. \A y \in Written : y < x
        BY <3>1, <3>2 DEF Keeps
      <4> QED
        BY <3>1, <3>2, <4>1
    <3>9. ASSUME x \in Audio, NEW b \in Audio, b > x
          PROVE  b \in Pending'
      <4>1. b \in Written \cup Pending
        BY <3>1, <3>2, <3>3, <3>9 DEF Keeps
      <4>2. b \notin Written
        BY <3>1, <3>2, <3>3, <3>9 DEF Keeps
      <4> QED
        BY <3>1, <3>3, <3>9, <4>1, <4>2
    <3>10. ASSUME x \in Audio, NEW b \in Audio, NEW c \in Commits, x < c, c < b
           PROVE  \E d \in Commits : d \in Pending' /\ x < d /\ d < b
      <4>1. b > x
        BY <3>3, <3>10
      <4>2. b \in Pending
        BY <3>1, <3>9, <3>10, <4>1
      <4>3. PICK d \in Commits : d \in Written \cup Pending /\ x < d /\ d < b
        BY <3>1, <3>2, <3>10, <4>2 DEF Keeps
      <4>4. d \notin Written /\ d # x
        BY <3>1, <3>2, <3>3, <4>3 DEF Keeps
      <4> QED
        BY <3>1, <4>3, <4>4
    <3>11. Chunks(sent[generation])' = Chunks(t) /\ LastOf(sent[generation])' = x
      <4>1. Chunks(sent[generation])' = Chunks(t)
        BY <1>1, <3>4 DEF Chunks, IsAudio
      <4>2. LastOf(sent[generation])' = LastOf(t)
        BY <3>4 DEF LastOf
      <4> QED
        BY <3>5, <4>1, <4>2
    <3>12. IsAudio(LastOf(sent[generation]))' <=> x \in Audio
      <4>1. LastOf(sent[generation])' = x
        BY <3>11
      <4>2. log' = log
        BY <1>1
      <4> QED
        BY <3>3, <4>1, <4>2 DEF IsAudio
    <3>13. \A b \in Audio : x \in Audio /\ b > x => b \in Pending'
      BY <3>9
    <3>14. \A b \in Audio : \A c \in Commits : x \in Audio /\ x < c /\ c < b =>
              \E d \in Commits : d \in Pending' /\ x < d /\ d < b
      BY <3>10
    <3> QED
      BY <1>1, <1>8, <3>4, <3>7, <3>8, <3>11, <3>12, <3>13, <3>14 DEF InStep
  <2> QED
    BY <2>1, <2>2
<1> QED
  BY <1>6, <1>7, <1>9, <1>10 DEF SentInv


-----------------------------------------------------------------------------
(***************************************************************************)
(* The replay: what was undelivered or uncertain when a generation failed  *)
(* is before the boundary until the next one was sent it.                  *)
(***************************************************************************)
Spoken ==
    /\ spoke \subseteq 1..generation
    /\ \A g \in spoke : mustReplay[g] \subseteq Range(sent[g])

\* Once the stream ended only what was published matters.
LEMMA ReplayOver ==
    ASSUME Recovering', Ended', Spoken'
    PROVE  Replay'
BY DEF Recovering, Spoken, Replay

\* A step that touches neither the journal nor what was sent.
LEMMA ReplayQuiet ==
    ASSUME Replay,
           UNCHANGED <<journal, cursor, replayStart, replayBoundary, sent, mustReplay>>,
           UNCHANGED <<spoke, generation, held, active, closed, terminal>>,
           state' = state \/ state' \notin {"healthy", "probationary"},
           wait' = wait \/ wait'.set = FALSE,
           rec'.pc = "stable" => rec.pc = "stable" \/ cursor >= replayBoundary
    PROVE  Replay'
<1>1. Owed' = Owed /\ Ended' = Ended
  BY DEF Owed, Between, Ended
<1>2. \A g : Range(sent[g])' = Range(sent'[g])
  BY DEF Range
<1>3. wait'.set => wait' = wait
  OBVIOUS
<1> QED
  BY <1>1, <1>2, <1>3 DEF Replay

\* A generation fails: the next one owes the fresh audio, which is all behind the cursor.
LEMMA ReplayFails ==
    ASSUME SttInv, NEW b \in BOOLEAN, Fails(b), Recovering'
    PROVE  Replay'
<1>0. /\ SttTypeOK /\ ControlType /\ JournalType /\ JournalInv /\ Replay
  BY TypeParts DEF SttInv
<1> DEFINE s == ReplayFrom
<1>1. /\ UNCHANGED <<log, journal, old, sent, spoke, generation>> /\ cursor' = s
      /\ replayStart' = s /\ replayBoundary' = Len(journal)
      /\ mustReplay' = [g \in Generations |-> IF g = generation + 1 THEN Audio \ old ELSE mustReplay[g]]
      /\ state' \in {"failed", "recovering"} /\ wait' = NoWait /\ active' = FALSE
  BY DEF Fails, GenerationFailure, FailTerminal, CloseActive
<1>2. wait'.set = FALSE
  BY <1>0, <1>1, Fields
<1>3. Spoken'
  <2>1. \A g \in spoke : g \in Generations /\ g # generation + 1
    BY <1>0, Limits DEF ControlType, Replay, Generations
  <2>2. \A g \in spoke : mustReplay'[g] = mustReplay[g]
    BY <1>1, <2>1
  <2> QED
    BY <1>0, <1>1, <2>2 DEF Spoken, Replay, Range
<1>4. Audio \ old \subseteq Owed'
  <2>1. s \in 0..cursor /\ (s > 0 => journal[s] \in old)
    BY <1>0, ReplayFromFacts
  <2>2. /\ Len(journal) \in Nat /\ cursor \in 0..Len(journal) /\ Increasing(journal)
        /\ DOMAIN log \in SUBSET Nat
        /\ \A i \in 1..Len(journal) : journal[i] \in DOMAIN log /\ journal[i] \in Nat
    BY <1>0, Sizes DEF JournalInv
  <2>3. Owed' = After(journal, s)
    BY <1>1 DEF Owed, Between, After
  <2>4. /\ Keeps(Audio, Commits, Written, Pending, old, SettledIn(commits), Accepted)
        /\ old \subseteq Audio
    BY <1>0 DEF JournalInv, JournalType
  <2> HIDE DEF s
  <2> SUFFICES ASSUME NEW a \in Audio, a \notin old PROVE a \in After(journal, s)
    BY <2>3
  <2>5. a \in Written \cup Pending
    BY <2>4 DEF Keeps
  <2>6. PICK i \in 1..Len(journal) : a = journal[i]
    BY <2>2, <2>5 DEF Written, Pending, Before, After
  <2>7. ~(i <= s)
    <3> SUFFICES ASSUME i <= s PROVE FALSE
      OBVIOUS
    <3>1. s > 0 /\ s \in 1..Len(journal)
      BY <2>1, <2>2, <2>6
    <3>2. journal[s] \in old /\ journal[s] \in Audio
      BY <2>1, <2>4, <3>1
    <3>3. i # s
      BY <2>6, <3>2
    <3>4. a < journal[s]
      BY <2>1, <2>2, <2>6, <3>1, <3>3 DEF Increasing
    <3> QED
      BY <2>4, <3>2, <3>4 DEF Keeps
  <2> QED
    BY <2>1, <2>2, <2>6, <2>7 DEF After
<1>5. generation' + 1 \in Generations => mustReplay'[generation' + 1] \subseteq Owed'
  BY <1>1, <1>4
<1>6. /\ state' \notin {"healthy", "probationary"} /\ cursor' = replayStart'
  BY <1>1
<1> QED
  BY <1>2, <1>3, <1>5, <1>6 DEF Replay, Spoken

\* A command is admitted: compaction moves the boundary with the entries.
LEMMA ReplayAdmit ==
    ASSUME SttInv, NEW kind \in {"audio", "commit"}, Admit(kind), Recovering'
    PROVE  Replay'
<1>0. SttTypeOK /\ ControlType /\ JournalInv /\ Replay
  BY TypeParts DEF SttInv
<1> DEFINE c == Compacted(cursor, old, SettledIn(commits))
           new == Len(log) + 1
<1>1. /\ UNCHANGED <<sent, spoke, mustReplay, generation, held>>
      /\ cursor' = c.cursor /\ replayStart' = c.replayStart /\ replayBoundary' = c.replayBoundary
  BY DEF Admit, outputVars
<1>2. \/ Ended'
      \/ /\ journal' = Append(c.journal, new) /\ wait' = c.wait
         /\ UNCHANGED <<terminal, closed, state, rec, active>>
  BY DEF Admit, FailTerminal, Ended
<1>3. /\ cursor \in 0..Len(journal) /\ Len(journal) \in Nat /\ Increasing(journal)
  BY <1>0, Sizes DEF JournalInv
<1>4. Shrinks(c, cursor, old, SettledIn(commits))
  BY <1>0, <1>3, Compaction
<1> HIDE DEF c, new
<1>5. Spoken'
  BY <1>0, <1>1 DEF Spoken, Replay, Range
<1>6. CASE Ended'
  BY <1>5, <1>6, ReplayOver
<1>7. CASE /\ journal' = Append(c.journal, new) /\ wait' = c.wait
           /\ UNCHANGED <<terminal, closed, state, rec, active>>
  <2>1. Owed' = Owed
    <3>1. /\ c.journal \in Seq(DOMAIN log) /\ c.cursor \in 0..Len(c.journal)
          /\ c.replayBoundary \in 0..Len(c.journal)
          /\ Between(c.journal, c.cursor, c.replayBoundary) = Owed
      BY <1>4 DEF Shrinks, Owed
    <3>2. \A i \in 1..Len(c.journal) : Append(c.journal, new)[i] = c.journal[i]
      BY <3>1, AppendProperties
    <3>3. \A i \in (c.cursor + 1)..c.replayBoundary : i \in 1..Len(c.journal)
      BY <3>1
    <3>4. Between(Append(c.journal, new), c.cursor, c.replayBoundary)
             = Between(c.journal, c.cursor, c.replayBoundary)
      BY <3>2, <3>3 DEF Between
    <3> QED
      BY <1>1, <1>7, <3>1, <3>4 DEF Owed
  <2>2. wait'.set => wait'.boundary = replayBoundary'
    <3>1. wait \in WaitType
      BY <1>0 DEF ControlType
    <3>2. CASE wait.set
      <4>1. wait' = [wait EXCEPT !.boundary = c.replayBoundary]
        BY <1>0, <1>4, <1>7, <3>2 DEF Shrinks, Replay
      <4> QED
        BY <1>1, <3>1, <4>1 DEF WaitType
    <3>3. CASE ~wait.set
      BY <1>4, <1>7, <3>3 DEF Shrinks
    <3> QED
      BY <3>2, <3>3
  <2>3. /\ cursor >= replayBoundary => cursor' >= replayBoundary'
        /\ cursor = replayStart => cursor' = replayStart'
        /\ replayBoundary = 0 => replayBoundary' = 0
    BY <1>1, <1>4 DEF Shrinks
  <2>4. Ended' = Ended
    BY <1>7 DEF Ended
  <2>5. Range(sent[generation])' = Range(sent[generation])
    BY <1>1 DEF Range
  <2> QED
    BY <1>0, <1>1, <1>5, <1>7, <2>1, <2>2, <2>3, <2>4, <2>5 DEF Replay, Spoken
<1> QED
  BY <1>2, <1>6, <1>7

\* A write is accepted: what is no longer owed was sent.
LEMMA ReplayWrite ==
    ASSUME SttInv, WriteAccepted, Recovering'
    PROVE  Replay'
<1>0. SttTypeOK /\ ControlType /\ JournalInv /\ Replay /\ Recovering
  BY TypeParts DEF SttInv
<1> DEFINE x == runner.cmd
           h == runner.gen
<1>1. /\ sent' = [sent EXCEPT ![h] = Append(@, x)]
      /\ UNCHANGED <<state, generation, active, closed, terminal, held, spoke, mustReplay>>
  BY DEF WriteAccepted, streamVars
<1>2. h \in Generations /\ x \in DOMAIN log
  BY WriteJournal
<1>c. Current <=> h = generation /\ active
  BY DEF Current
<1>w. CASE ~Current
  <2>1. UNCHANGED <<journal, cursor, replayStart, replayBoundary, wait, rec>>
    BY <1>w DEF WriteAccepted
  <2> HIDE DEF x, h
  <2>2. \A g \in Generations : Range(sent[g]) \subseteq Range(sent'[g])
    BY <1>0, <1>1, <1>2, SentAppended
  <2>3. Owed' = Owed /\ Ended' = Ended
    BY <1>1, <2>1 DEF Owed, Between, Ended
  <2>4. spoke \subseteq Generations /\ generation \in Generations
    BY <1>0 DEF ControlType
  <2>5. \A g : Range(sent[g])' = Range(sent'[g])
    BY DEF Range
  <2> QED
    BY <1>0, <1>1, <2>1, <2>2, <2>3, <2>4, <2>5 DEF Replay
<1>r. CASE Current
  <2> DEFINE done == SettledIn([d \in Commits |-> IF d = x /\ ~Settled(d) THEN "resolved" ELSE commits[d]])
             aged == old \ {x}
             c == Compacted(cursor + 1, aged, done)
             stable == wait.set /\ wait.stable /\ cursor + 1 >= wait.boundary
  <2>1. /\ journal' = c.journal /\ cursor' = c.cursor /\ replayBoundary' = c.replayBoundary
        /\ wait' = IF stable THEN NoWait ELSE c.wait
        /\ rec' = IF stable THEN [rec EXCEPT !.pc = "stable"] ELSE rec
    BY <1>r DEF WriteAccepted
  <2>2. cursor < Len(journal) /\ x = journal[cursor + 1]
    <3>1. runner.pc = "writing"
      BY DEF WriteAccepted
    <3> QED
      BY <1>r, <3>1 DEF SttInv, SentInv, InFlight
  <2>3. /\ cursor + 1 \in 0..Len(journal) /\ Len(journal) \in Nat /\ cursor \in Nat
        /\ replayBoundary \in Nat /\ Increasing(journal)
    BY <1>0, <2>2, Sizes DEF JournalInv
  <2> HIDE DEF x, h, done, aged
  <2>4. Shrinks(c, cursor + 1, aged, done)
    BY <1>0, <2>3, Compaction
  <2> HIDE DEF c
  <2>5. Owed \subseteq Owed' \cup {x}
    <3>1. Owed' = Between(journal, cursor + 1, replayBoundary)
      BY <2>1, <2>4 DEF Shrinks, Owed
    <3>2. \A i \in (cursor + 1)..replayBoundary : i = cursor + 1 \/ i \in ((cursor + 1) + 1)..replayBoundary
      BY <2>3
    <3> QED
      BY <2>2, <3>1, <3>2 DEF Owed, Between
  <2>6. /\ \A g \in Generations : Range(sent[g]) \subseteq Range(sent'[g])
        /\ Range(sent'[generation]) = Range(sent[generation]) \cup {x}
    BY <1>0, <1>1, <1>2, <1>c, <1>r, SentAppended
  <2>7. wait'.set => wait'.boundary = replayBoundary' /\ ~stable
    <3>1. wait \in WaitType
      BY <1>0 DEF ControlType
    <3>2. CASE stable
      BY <1>0, <2>1, <3>2, Fields
    <3>3. CASE ~stable /\ wait.set
      <4>1. wait' = [wait EXCEPT !.boundary = c.replayBoundary]
        BY <1>0, <2>1, <2>4, <3>3 DEF Shrinks, Replay
      <4> QED
        BY <2>1, <3>1, <3>3, <4>1 DEF WaitType
    <3>4. CASE ~stable /\ ~wait.set
      BY <2>1, <2>4, <3>4 DEF Shrinks
    <3> QED
      BY <3>2, <3>3, <3>4
  <2>8. rec'.pc = "stable" /\ state = "probationary" => cursor' >= replayBoundary'
    <3> SUFFICES ASSUME rec'.pc = "stable", state = "probationary" PROVE cursor + 1 >= replayBoundary
      BY <2>1, <2>4 DEF Shrinks
    <3>1. CASE stable
      BY <1>0, <3>1 DEF Replay
    <3>2. CASE ~stable
      BY <1>0, <2>1, <2>3, <3>2 DEF Replay
    <3> QED
      BY <3>1, <3>2
  <2>9. replayBoundary = 0 => replayBoundary' = 0
    BY <2>1, <2>4 DEF Shrinks
  <2>10. spoke \subseteq Generations /\ generation \in Generations
    BY <1>0 DEF ControlType
  <2>11. \A g : Range(sent[g])' = Range(sent'[g])
    BY DEF Range
  <2>12. active'
    BY <1>1, <1>c, <1>r
  <2> QED
    BY <1>0, <1>1, <2>5, <2>6, <2>7, <2>8, <2>9, <2>10, <2>11, <2>12 DEF Replay
<1> QED
  BY <1>w, <1>r

LEMMA ReplayStep ==
    ASSUME SttInv, [SttNext]_vars
    PROVE  Replay'
<1>0. SttTypeOK /\ ControlType /\ Replay /\ Recovering /\ Closing
  BY TypeParts DEF SttInv
<1>r. Recovering'
  BY RecoveringStep
<1>f. /\ Interrupted.pc = (IF wait.set THEN "failed" ELSE rec.pc)
      /\ \A p : At(p).pc = p
      /\ NoRecovery.pc = "none" /\ NoWait.set = FALSE
      /\ Returned.pc = "finish" /\ [NoRecovery EXCEPT !.pc = "close"].pc = "close"
  BY <1>0, Fields
<1>s. Spoken /\ generation \in Generations /\ generation \in 1..generation
  BY <1>0, Limits DEF Spoken, Replay, ControlType, Generations
<1>e. ASSUME Ended', UNCHANGED <<spoke, generation, mustReplay, sent>>
      PROVE  Replay'
  <2>1. Spoken'
    BY <1>s, <1>e DEF Spoken, Range
  <2> QED
    BY <1>r, <1>e, <2>1, ReplayOver
<1>g. ASSUME GiveUp, UNCHANGED <<spoke, generation, mustReplay, sent>>
      PROVE  Replay'
  <2>1. Ended'
    BY <1>g DEF GiveUp, FailTerminal, Ended
  <2> QED
    BY <1>g, <1>e, <2>1
<1>p. ASSUME spoke' = spoke \/ (spoke' = spoke \cup {generation}
                                   /\ mustReplay[generation] \subseteq Range(sent[generation])),
             UNCHANGED <<generation, mustReplay, sent>>
      PROVE  Spoken'
  <2>1. \A g \in spoke' : g \in 1..generation /\ mustReplay[g] \subseteq Range(sent[g])
    BY <1>s, <1>p DEF Spoken
  <2>2. \A g : Range(sent[g])' = Range(sent[g])
    BY <1>p DEF Range
  <2> QED
    BY <1>p, <2>1, <2>2 DEF Spoken
<1> DEFINE Fixed == /\ UNCHANGED <<journal, cursor, replayStart, replayBoundary, sent, mustReplay>>
                    /\ UNCHANGED <<spoke, generation, held, closed>>
<1>t. ASSUME NEW source \in BOOLEAN, Retry(source), Fixed
      PROVE  Replay'
  <2>1. CASE GiveUp
    BY <1>g, <1>t, <2>1
  <2>2. CASE /\ rec'.pc = (IF failedClose = "none" THEN "sleep" ELSE "close")
             /\ UNCHANGED <<terminal, state, wait, commits, active, streams, closer, runner>>
    <3>1. rec'.pc # "stable"
      BY <2>2
    <3> QED
      BY <1>0, <1>t, <2>2, <3>1, ReplayQuiet
  <2> QED
    BY <1>0, <1>t, <2>1, <2>2, RetryFacts
<1>1. CASE Close
  <2>1. CASE EndNow
    BY <1>e, <1>1, <2>1 DEF Close, EndNow, Ended, Unended, outputVars
  <2>2. CASE ~EndNow
    BY <1>0, <1>1, <2>2, ReplayQuiet DEF Close, Unended, outputVars
  <2> QED
    BY <2>1, <2>2
<1>2. CASE Abort \/ Drained \/ DrainTimeout
  BY <1>e, <1>2 DEF Abort, Drained, DrainTimeout, EndNow, Ended, Unended, outputVars
<1>3. CASE CloseTail
  <2>1. closed
    BY <1>0, <1>3 DEF CloseTail, Closing
  <2> QED
    BY <1>e, <1>3, <2>1 DEF CloseTail, Ended, outputVars
<1>4. CASE Age
  BY <1>0, <1>4, ReplayQuiet DEF Age, streamVars, recoveryVars, closeVars, outputVars
<1>5. CASE RunJournal
  BY <1>0, <1>5, ReplayQuiet DEF RunJournal, journalVars, streamVars, recoveryVars, closeVars, outputVars
<1>6. ASSUME NEW b \in BOOLEAN, Fails(b)
      PROVE  Replay'
  BY <1>r, <1>6, ReplayFails
<1>7. ASSUME NEW b \in BOOLEAN, StreamFails(b) \/ WriteFails(b)
      PROVE  Replay'
  <2>1. CASE StreamFails(b)
    <3>1. Signalled.pc = "writing" => Signalled = runner
      BY <1>0, Fields
    <3> QED
      BY <1>6, <2>1, <3>1 DEF StreamFails, Fails
  <2>2. CASE WriteFails(b) /\ Current /\ ~Ended
    <3>1. runner'.pc = "check"
      BY <1>0, <2>2, Fields DEF WriteFails
    <3> QED
      BY <1>6, <2>2, <3>1 DEF WriteFails, Fails, Current
  <2>3. CASE WriteFails(b) /\ ~(Current /\ ~Ended)
    BY <1>0, <2>3, ReplayQuiet DEF WriteFails, journalVars, streamVars, recoveryVars, closeVars
  <2> QED
    BY <1>7, <2>1, <2>2, <2>3
<1>8. ASSUME NEW b \in BOOLEAN, Endpoint(b)
      PROVE  Replay'
  <2>1. UNCHANGED <<journal, cursor, replayStart, replayBoundary, sent, mustReplay, generation, closed>>
    BY <1>8 DEF Endpoint
  <2>2. \/ spoke' = spoke
        \/ state = "healthy" /\ spoke' = spoke \cup {generation}
    BY <1>8 DEF Endpoint
  <2>3. Spoken'
    <3>1. state = "healthy" => mustReplay[generation] \subseteq Range(sent[generation])
      BY <1>0 DEF Replay
    <3> QED
      BY <1>p, <2>1, <2>2, <3>1
  <2>4. CASE FailTerminal(Interrupted)
    BY <1>r, <2>3, <2>4, ReplayOver DEF FailTerminal, Ended
  <2>5. CASE UNCHANGED <<terminal, state, wait, rec, commits, active, streams, closer, runner>>
    <3>1. state = "healthy" => held' = 0
      <4> SUFFICES ASSUME state = "healthy" PROVE held' = 0
        OBVIOUS
      <4>1. replayBoundary = 0 /\ held = 0 /\ cursor \in Nat
        BY <1>0, Sizes DEF Replay
      <4>2. ~(state # "healthy" \/ cursor < replayBoundary)
        BY <4>1
      <4> QED
        BY <1>8, <4>1, <4>2 DEF Endpoint
    <3>2. Owed' = Owed /\ Ended' = Ended
      BY <2>1, <2>5 DEF Owed, Between, Ended
    <3>3. Range(sent[generation])' = Range(sent[generation])
      BY <2>1 DEF Range
    <3> QED
      BY <1>0, <2>1, <2>3, <2>5, <3>1, <3>2, <3>3 DEF Replay, Spoken
  <2> QED
    BY <1>8, <2>4, <2>5 DEF Endpoint
<1>9. CASE FailedStreamCloses
  BY <1>0, <1>9, ReplayQuiet DEF FailedStreamCloses, journalVars, streamVars, closeVars, outputVars
<1>10. CASE RecoverAfterClose
  <2>1. CASE GiveUp
    BY <1>g, <1>10, <2>1 DEF RecoverAfterClose, RecoveryFrame, Unmoved
  <2>2. CASE GoTo(At("sleep"))
    <3>1. rec'.pc # "stable"
      BY <1>f, <2>2 DEF GoTo
    <3> QED
      BY <1>0, <1>10, <2>2, <3>1, ReplayQuiet DEF RecoverAfterClose, RecoveryFrame, Unmoved, GoTo
  <2> QED
    BY <1>10, <2>1, <2>2 DEF RecoverAfterClose
<1>11. CASE RecoverAfterSleep
  <2>1. CASE GiveUp
    BY <1>g, <1>11, <2>1 DEF RecoverAfterSleep, RecoveryFrame, Unmoved
  <2>2. CASE ~GiveUp
    <3>1. /\ rec' = [rec EXCEPT !.pc = "open", !.attempts = @ + 1] /\ state' = "opening"
          /\ UNCHANGED <<terminal, wait, active>>
      BY <1>11, <2>2 DEF RecoverAfterSleep
    <3>2. rec'.pc = "open"
      BY <1>0, <3>1 DEF ControlType, RecType
    <3> QED
      BY <1>0, <1>11, <3>1, <3>2, ReplayQuiet DEF RecoverAfterSleep, RecoveryFrame, Unmoved
  <2> QED
    BY <2>1, <2>2
<1>12. CASE OpenSucceeds
  <2>1. rec'.pc # "stable"
    BY <1>f, <1>12 DEF OpenSucceeds
  <2> QED
    BY <1>0, <1>12, <2>1, ReplayQuiet DEF OpenSucceeds, journalVars, closeVars, outputVars
<1>13. CASE Adopt /\ Ended
  BY <1>e, <1>13 DEF Adopt, RecoveryFrame, Ended
<1>14. CASE Adopt /\ ~Ended
  <2>1. /\ generation' = generation + 1 /\ active' = TRUE /\ state' = "probationary"
        /\ wait'.boundary = replayBoundary /\ rec'.pc = "wait"
        /\ UNCHANGED <<journal, cursor, replayStart, replayBoundary, sent, mustReplay, spoke>>
    BY <1>f, <1>14 DEF Adopt, RecoveryFrame
  <2>2. ~active /\ generation + 1 \in Generations /\ rec.pc = "opened"
    BY <1>0, <1>s, <1>14, Limits DEF Adopt, Recovering, Generations
  <2>3. mustReplay[generation + 1] \subseteq Owed
    BY <1>0, <1>14, <2>2 DEF Replay
  <2>4. Owed' = Owed
    BY <2>1 DEF Owed, Between
  <2>5. 1..generation \subseteq 1..(generation + 1)
    BY <1>s, Limits DEF Generations
  <2> QED
    BY <1>0, <2>1, <2>3, <2>4, <2>5 DEF Replay, Range
<1>15. CASE StableTimer
  <2>1. UNCHANGED <<journalVars, streamVars, closeVars, outputVars>>
    BY <1>15 DEF StableTimer
  <2>2. CASE cursor >= wait.boundary /\ wait' = NoWait /\ rec' = At("stable")
    <3>1. cursor >= replayBoundary
      BY <1>0, <1>15, <2>2 DEF StableTimer, Replay
    <3> QED
      BY <1>0, <1>f, <2>1, <2>2, <3>1, ReplayQuiet DEF journalVars, streamVars, closeVars, outputVars
  <2>3. CASE wait' = [wait EXCEPT !.stable = TRUE] /\ UNCHANGED rec
    <3>1. wait'.set = wait.set /\ wait'.boundary = wait.boundary
      BY <1>0, <2>3 DEF ControlType, WaitType
    <3>2. Owed' = Owed /\ Ended' = Ended
      BY <2>1 DEF Owed, Between, Ended, journalVars, closeVars
    <3>3. \A g : Range(sent[g])' = Range(sent[g])
      BY <2>1 DEF Range, outputVars
    <3> QED
      BY <1>0, <2>1, <2>3, <3>1, <3>2, <3>3 DEF Replay, journalVars, streamVars, closeVars, outputVars
  <2> QED
    BY <1>15, <2>2, <2>3 DEF StableTimer
<1>16. CASE DeadlineTimer
  BY <1>0, <1>f, <1>16, ReplayQuiet DEF DeadlineTimer, journalVars, streamVars, closeVars, outputVars
<1>17. ASSUME NEW b \in BOOLEAN, OpenFails(b)
       PROVE  Replay'
  <2>1. Fixed /\ restart \in BOOLEAN
    BY <1>0, <1>17 DEF OpenFails, RecoveryFrame, Unmoved, ControlType
  <2> QED
    BY <1>g, <1>t, <1>17, <2>1 DEF OpenFails
<1>18. ASSUME NEW b \in BOOLEAN, RecoverStable(b)
       PROVE  Replay'
  <2>1. CASE ~active \/ state # "probationary"
    <3>1. Fixed
      BY <1>18, <2>1 DEF RecoverStable, RecoveryFrame, Unmoved
    <3> QED
      BY <1>t, <1>18, <2>1, <3>1 DEF RecoverStable
  <2>2. CASE ~(~active \/ state # "probationary")
    <3>1. /\ replayStart' = cursor /\ replayBoundary' = 0 /\ held' = 0
          /\ spoke' = spoke \/ spoke' = spoke \cup {generation}
          /\ UNCHANGED <<journal, cursor, sent, mustReplay, generation, closed>>
      BY <1>18, <2>2 DEF RecoverStable, RecoveryFrame
    <3>2. mustReplay[generation] \subseteq Range(sent[generation])
      <4>1. cursor >= replayBoundary /\ cursor \in Nat /\ replayBoundary \in Nat
        BY <1>0, <1>18, <2>2, Sizes DEF RecoverStable, Replay
      <4>2. Owed = {}
        BY <4>1 DEF Owed, Between
      <4> QED
        BY <1>0, <2>2, <4>2 DEF Replay
    <3>3. Spoken'
      BY <1>p, <3>1, <3>2
    <3>4. CASE GiveUp
      BY <1>r, <3>3, <3>4, ReplayOver DEF GiveUp, FailTerminal, Ended
    <3>5. CASE state' = "healthy" /\ rec' = Returned /\ UNCHANGED <<terminal, wait, active>>
      <4>1. wait'.set = FALSE /\ active'
        BY <1>0, <1>18, <2>2, <3>5 DEF RecoverStable, Recovering, ControlType, WaitType
      <4> QED
        BY <3>1, <3>2, <3>3, <3>5, <4>1 DEF Replay, Spoken, Range
    <3> QED
      BY <1>18, <2>2, <3>4, <3>5 DEF RecoverStable
  <2> QED
    BY <2>1, <2>2
<1>19. CASE RecoverFailed
  <2>1. Fixed /\ restart \in BOOLEAN
    BY <1>0, <1>19 DEF RecoverFailed, RecoveryFrame, Unmoved, ControlType
  <2> QED
    BY <1>g, <1>t, <1>19, <2>1 DEF RecoverFailed
<1>20. CASE RecoverEnded
  BY <1>e, <1>20 DEF RecoverEnded, RecoveryFrame, Unmoved, Ended
<1>21. CASE RecoverFinally
  <2>1. rec'.pc # "stable"
    BY <1>f, <1>21 DEF RecoverFinally
  <2> QED
    BY <1>0, <1>21, <2>1, ReplayQuiet DEF RecoverFinally, RecoveryFrame, Unmoved
<1>22. CASE UNCHANGED vars
  BY <1>0, <1>22, ReplayQuiet DEF vars, journalVars, streamVars, recoveryVars, closeVars, outputVars
<1>23. ASSUME NEW kind \in {"audio", "commit"}, Admit(kind)
       PROVE  Replay'
  BY <1>r, <1>23, ReplayAdmit
<1>24. CASE WriteAccepted
  BY <1>r, <1>24, ReplayWrite
<1> QED
  BY <1>1, <1>2, <1>3, <1>4, <1>5, <1>7, <1>8, <1>9, <1>10, <1>11, <1>12, <1>13, <1>14, <1>15,
     <1>16, <1>17, <1>18, <1>19, <1>20, <1>21, <1>22, <1>23, <1>24
     DEF SttNext, SendAudio, Commit, WriteOutcome, RecoverStep

-----------------------------------------------------------------------------
(***************************************************************************)
(* The inductive invariant.                                                *)
(***************************************************************************)
LEMMA SttStart ==
    ASSUME SttInit
    PROVE  SttInv
<1> USE DEF SttInit
<1>0. 1 \in Generations /\ 0 \in 0..MaxCommands /\ 0 \in Nat
  BY Limits DEF Generations
<1>1. Audio = {} /\ Commits = {} /\ Ended = FALSE /\ DOMAIN log = {} /\ Len(journal) = 0
  BY DEF Audio, IsAudio, Commits, Ended
<1>2. /\ log \in Seq({"audio", "commit"}) /\ Len(log) <= MaxCommands
      /\ journal \in Seq(DOMAIN log)
  BY Limits
<1>3. JournalType
  <2>1. old \subseteq Audio /\ commits \in [Commits -> {"pending", "resolved", "rejected"}]
    <3>1. <<>> \in [{} -> {"pending", "resolved", "rejected"}]
      BY IsASeq
    <3> QED
      BY <1>1, <3>1
  <2>2. {cursor, replayStart, replayBoundary} \subseteq 0..Len(journal)
    BY <1>1
  <2>3. /\ offset \in [Generations -> 0..MaxCommands]
        /\ mustReplay \in [Generations -> SUBSET Audio]
    BY <1>0
  <2>4. sent \in [Generations -> Seq(DOMAIN log)]
    <3>1. <<>> \in Seq(DOMAIN log)
      OBVIOUS
    <3> QED
      BY <3>1
  <2> QED
    BY <1>2, <2>1, <2>2, <2>3, <2>4 DEF JournalType
<1>4. ControlType
  <2>1. Idle \in RunnerType
    BY Limits DEF Idle, RunnerType
  <2>2. NoRecovery \in RecType
    BY Limits DEF NoRecovery, RecType
  <2>3. NoWait \in WaitType
    BY Limits DEF NoWait, WaitType
  <2>4. streams \subseteq 1..(MaxGenerations + 1) /\ held \in 0..MaxBufferedCommands
    BY Limits
  <2> QED
    BY <1>0, <2>1, <2>2, <2>3, <2>4 DEF ControlType
<1>5. SttTypeOK
  BY <1>3, <1>4, TypeParts
<1>6. Written = {} /\ Pending = {} /\ Accepted = {} /\ SettledIn(commits) = {}
  <2>1. Written = {} /\ Pending = {}
    BY <1>1 DEF Written, Pending, Before, After
  <2>2. DOMAIN commits = {}
    BY <1>1, <1>3 DEF JournalType
  <2>3. \A g \in Generations : Range(sent[g]) = {}
    <3>1. DOMAIN <<>> = {}
      OBVIOUS
    <3> QED
      BY <3>1 DEF Range
  <2>4. Accepted = {}
    BY <2>3 DEF Accepted
  <2> QED
    BY <2>1, <2>2, <2>4 DEF SettledIn
<1>7. JournalInv
  <2>1. Increasing(journal)
    BY <1>1 DEF Increasing
  <2>2. old = {}
    OBVIOUS
  <2> QED
    BY <1>1, <1>6, <2>1, <2>2 DEF JournalInv, Keeps
<1>8. SentInv
  <2>1. sent[1] = <<>> /\ offset[1] = 0
    BY <1>0
  <2>2. Chunks(<<>>) = {}
    BY DEF Chunks
  <2>3. Cardinality(Audio \ Pending) = 0 + Cardinality(Chunks(<<>>))
    BY <1>1, <2>2, FS_EmptySet
  <2>4. InStep
    BY <2>1, <2>3 DEF InStep
  <2>5. GapFree
    <3>1. \A g \in Generations : DOMAIN sent[g] = {}
      OBVIOUS
    <3> QED
      BY <3>1 DEF GapFree
  <2> QED
    BY <2>4, <2>5 DEF SentInv, InFlight, Idle, Unopened
<1>9. Replay
  <2>1. \A g \in Generations : mustReplay[g] = {}
    OBVIOUS
  <2> QED
    BY <1>0, <1>1, <2>1 DEF Replay, NoWait, NoRecovery
<1>10. Recovering /\ Streams /\ Closing
  BY <1>1 DEF Recovering, Streams, Closing, Ended, NoWait, NoRecovery, Idle
<1>11. CommitsAreBarriers
  BY <1>1 DEF CommitsAreBarriers
<1> QED
  BY <1>5, <1>7, <1>8, <1>9, <1>10, <1>11 DEF SttInv

\* The journal and the sequences sent, by the kind of step.
LEMMA JournalStep ==
    ASSUME SttInv, [SttNext]_vars
    PROVE  JournalType' /\ JournalInv' /\ SentInv' /\ CommitsAreBarriers'
<1>1. CASE Age
  BY <1>1, AgeJournal, AgeSent
<1>2. ASSUME NEW kind \in {"audio", "commit"}, Admit(kind)
      PROVE  JournalType' /\ JournalInv' /\ SentInv' /\ CommitsAreBarriers'
  BY <1>2, AdmitJournal, AdmitSent
<1>3. CASE WriteAccepted
  BY <1>3, WriteJournal, WriteSent
<1>4. ASSUME NEW b \in BOOLEAN, Fails(b)
      PROVE  JournalType' /\ JournalInv' /\ SentInv' /\ CommitsAreBarriers'
  <2>1. /\ UNCHANGED <<log, sent, generation, offset>> /\ active' = FALSE
        /\ runner'.pc = "writing" => runner' = runner
    BY <1>4 DEF Fails, GenerationFailure, FailTerminal, CloseActive
  <2> QED
    BY <1>4, <2>1, FailsJournal, FailsSent
<1>5. CASE Calm /\ (RunJournal \/ (Adopt /\ ~Ended) \/ Still)
  <2>1. UNCHANGED <<log, journal, cursor, sent>> /\ offset \in [Generations -> 0..MaxCommands]
    BY <1>5, TypeParts DEF Calm, SttInv, JournalType
  <2>2. SentInv' /\ offset' \in [Generations -> 0..MaxCommands]
    <3>1. CASE RunJournal
      BY <2>1, <3>1, RunSent DEF RunJournal, streamVars
    <3>2. CASE Adopt /\ ~Ended
      BY <3>2, AdoptSent
    <3>3. CASE Still
      BY <2>1, <3>3, StillSent DEF Still
    <3> QED
      BY <1>5, <3>1, <3>2, <3>3
  <2> QED
    BY <1>5, <2>2, CalmJournal
<1> QED
  BY <1>1, <1>2, <1>3, <1>4, <1>5, Classified

LEMMA SttStep ==
    ASSUME SttInv, [SttNext]_vars
    PROVE  SttInv'
<1>1. SttTypeOK'
  BY JournalStep, ControlTypeStep, TypeParts
<1> QED
  BY <1>1, JournalStep, ReplayStep, RecoveringStep, StreamsStep, ClosingStep DEF SttInv

\* Every reachable state satisfies the inductive invariant.
THEOREM SttInvariant == SttSpec => []SttInv
<1>1. SttInit => SttInv
  BY SttStart
<1>2. SttInv /\ [SttNext]_vars => SttInv'
  BY SttStep
<1> QED
  BY <1>1, <1>2, PTL DEF SttSpec

\* SttTypeOK: whatever compaction, replay and failure do to the three indices of the
\* journal, they stay inside it.
THEOREM SttTypes == SttSpec => []SttTypeOK
<1>1. SttInv => SttTypeOK
  BY DEF SttInv
<1> QED
  BY <1>1, SttInvariant, PTL

\* GapFree: every generation is sent a stretch of the log, from its offset on, without
\* a gap, a repetition or a change of order, and with a commit wherever one separated
\* two chunks.
THEOREM NoGaps == SttSpec => []GapFree
<1>1. SttInv => GapFree
  BY DEF SttInv, SentInv
<1> QED
  BY <1>1, SttInvariant, PTL

\* ReplayInFull: a generation is declared healthy and publishes an endpoint only once
\* it has been sent all that was undelivered or uncertain when its predecessor failed.
THEOREM ReplaysInFull == SttSpec => []ReplayInFull
<1>1. SttInv => ReplayInFull
  BY DEF SttInv, Replay, ReplayInFull
<1> QED
  BY <1>1, SttInvariant, PTL

\* NoAudioLost: a chunk the journal no longer holds was accepted, and so was every
\* chunk once close() returned without a failure.
THEOREM AudioIsKept == SttSpec => []NoAudioLost
<1>1. ASSUME SttInv
      PROVE  NoAudioLost
  <2>1. SttTypeOK /\ JournalInv /\ Closing /\ CommitsAreBarriers
    BY <1>1 DEF SttInv
  <2>2. /\ Keeps(Audio, Commits, Written, Pending, old, SettledIn(commits), Accepted)
        /\ cursor \in 0..Len(journal) /\ Len(journal) \in Nat
    BY <2>1, Sizes DEF JournalInv
  <2>3. \A a \in Audio : a \in Pending \/ a \in Accepted
    BY <2>2 DEF Keeps
  <2>4. \A a \in Audio \ Accepted : \E i \in (cursor + 1)..Len(journal) : journal[i] = a
    BY <2>3 DEF Pending, After
  <2>5. ASSUME closed, ~terminal, ~aborted
        PROVE  Audio \subseteq Accepted /\ \A c \in Commits : commits[c] = "resolved"
    <3>1. cursor >= Len(journal) /\ \A c \in Commits : commits[c] = "resolved"
      BY <2>1, <2>5 DEF Closing
    <3>2. Pending = {}
      BY <2>2, <3>1 DEF Pending, After
    <3> QED
      BY <2>3, <3>1, <3>2
  <2> QED
    BY <2>4, <2>5 DEF NoAudioLost
<1>2. SttInv => NoAudioLost
  BY <1>1
<1> QED
  BY <1>2, SttInvariant, PTL

\* CommitsAreBarriers: a commit is answered only when all the audio before it was
\* accepted, refused only when the stream ended, and never left open by an end.
THEOREM CommitsAnswered == SttSpec => []CommitsAreBarriers
<1>1. SttInv => CommitsAreBarriers
  BY DEF SttInv
<1> QED
  BY <1>1, SttInvariant, PTL

\* NothingLeaks: a terminal failure and the end of close() and abort() leave no
\* provider stream open but the one the recovery loop is about to close.
THEOREM StreamsAreClosed == SttSpec => []NothingLeaks
<1>1. ASSUME SttInv
      PROVE  NothingLeaks
  <2>1. Streams
    BY <1>1 DEF SttInv
  <2> QED
    BY <2>1 DEF Streams, NothingLeaks
<1>2. SttInv => NothingLeaks
  BY <1>1
<1> QED
  BY <1>2, SttInvariant, PTL

\* NobodySleepsThroughWork: the journal loop, the recovery loop and close() never wait
\* for a signal that was given before they began to wait.
THEOREM NobodySleeps == SttSpec => []NobodySleepsThroughWork
<1>1. ASSUME SttInv
      PROVE  NobodySleepsThroughWork
  <2>1. SttTypeOK /\ Recovering /\ Closing
    BY <1>1 DEF SttInv
  <2>2. closer = "draining" => ~Ended /\ cursor < Len(journal) /\ runner.pc # "done"
    <3>1. cursor \in Nat /\ Len(journal) \in Nat
      BY <2>1, Sizes
    <3> QED
      BY <2>1, <3>1 DEF Closing
  <2> QED
    BY <2>1, <2>2 DEF Recovering, Closing, NobodySleepsThroughWork
<1>2. SttInv => NobodySleepsThroughWork
  BY <1>1
<1> QED
  BY <1>2, SttInvariant, PTL
=============================================================================
