---------------------------- MODULE RecoveryProofs ----------------------------
(***************************************************************************)
(* Proofs about the recovery of a session's usage (SessionRecovery), for   *)
(* any length of the log, any owners of its entries and any limits: no     *)
(* wakeup is lost, and what is shown as complete is complete.              *)
(*                                                                         *)
(* The argument: as long as no gap was reported, what was found is counted *)
(* or was put off, and every entry that was asked for is found, or the     *)
(* replay, the walk from the leaf or the next look at the leaf will find   *)
(* it.  A walk stops at the first entry that was found, so that rests on   *)
(* two more facts: the replay goes from the oldest entry up, and below an  *)
(* entry that was found nothing is missing but what the walk still has to  *)
(* come to.                                                                *)
(***************************************************************************)
EXTENDS MCUsage, UsageProofs, SequenceTheorems

-----------------------------------------------------------------------------
(* The inductive invariant *)

Once(s) == \A i, j \in 1..Len(s) : s[i] = s[j] => i = j

RecType(r) ==
    /\ r \in RecoveryState
    /\ Len(r.seen) <= SeenCapacity /\ Once(r.seen)
    /\ Len(r.queue) <= QueueLimit /\ Len(r.deferred) <= Orphans
    /\ IsFiniteSet(r.pending) /\ Cardinality(r.pending) <= Orphans
    /\ r.discoveryStopped => r.gap

Found(r) == {e \in Entries : Contains(r.seen, e)}

(* An entry that a walk has yet to come to: in the slice, or on the way from
   the cursor, which ends at the first entry that was found. *)
InWalk(r, e) ==
    \/ e \in Range(r.leafQueue)
    \/ /\ r.cursor # 0 /\ e <= r.cursor
       /\ \A j \in e..r.cursor : j \notin Found(r)

(* Nothing is known to be missing; and a stop has not been overtaken. *)
Exact(r) == ~r.gap /\ ~r.truncated /\ (r.closing => Owns(r))

PhaseInv(r) ==
    /\ r.awaiting => r.pc \in {"live", "background"}
    /\ (Draining(r) \/ r.scheduled \/ r.state = "ready") /\ ~r.closing => r.initialized
    /\ r.state = "ready" => ~r.gap
    /\ r.discoveryStopped => ~r.boundaryDirty
    /\ ~r.replaying => r.replay = <<>>
    /\ r.truncated /\ ~r.replaying /\ ~r.closing => r.gap
    /\ Walking(r) => r.leafDirty \/ r.pc = "leaf"
    /\ r.pc = "leaf" => ~r.leafDirty
    /\ r.closing => ~r.replaying

(* Nothing waits for a wakeup that was lost; a snapshot that is due has its
   timer, or a slice that sees to it. *)
ProbeInv(r) ==
    r.pc \in {"idle", "live", "background"} /\ ~r.closing /\ Owns(r) /\ r.boundaryDirty
        => r.timer \/ r.replaying \/ r.leafDirty
WorkInv(r) ==
    r.initialized /\ ~r.closing /\ Owns(r) /\ ~Draining(r) =>
        (RunnableQueue(r) \/ r.backfill \/ r.replaying \/ r.leafDirty \/ r.deferred # <<>>
            => r.scheduled)
Retried(r) == r.pc = "background" /\ ~r.closing /\ ~r.replaying /\ More(r) => r.deferred = <<>>
ControlInv(r) == PhaseInv(r) /\ ProbeInv(r) /\ WorkInv(r) /\ Retried(r)

(* What was found is counted, or was put off. *)
Remembered(r, C) == ~r.gap /\ ~r.closing => Found(r) \subseteq C \cup Range(r.deferred)
(* The replay is what is left of the log, from its oldest entry on. *)
Replayed(r) ==
    Exact(r) => \A i \in DOMAIN r.replay :
                   /\ r.replay[i] = r.replay[1] + (i - 1)
                   /\ \A e \in 1..(r.replay[1] - 1) : e \in Found(r)
(* What is older than an entry that was found is found, or in the walk. *)
Downward(r, k) ==
    Exact(r) /\ (r.closing => k # 0) =>
       \A j \in Found(r) \cup Range(r.leafQueue) : \A e \in 1..j : e \in Found(r) \/ InWalk(r, e)
Ahead(r) == \A j \in Range(r.leafQueue) : j > r.cursor
(* Every entry that was asked for has been found, or something will find it. *)
Findable(r, k) ==
    Exact(r) => \A e \in 1..k : \/ e \in Found(r) \/ e \in Range(r.replay) \/ InWalk(r, e)
                                \/ r.leafDirty /\ ~Walking(r)
Unasked(r, k) == r.closing /\ r.truncated => k = 0
Coverage(r, k, C) ==
    Remembered(r, C) /\ Replayed(r) /\ Downward(r, k) /\ Ahead(r) /\ Findable(r, k) /\ Unasked(r, k)

RecoveryInv == known <= log /\ ControlInv(rec) /\ Coverage(rec, known, counted)

-----------------------------------------------------------------------------
(* Types *)

LEMMA OnceCounts ==
    ASSUME NEW S, NEW s \in Seq(S), Once(s)
    PROVE  Cardinality(Range(s)) = Len(s)
<1>1. IsFiniteSet(1..Len(s)) /\ Cardinality(1..Len(s)) = Len(s)
  <2>1. Len(s) \in Nat OBVIOUS
  <2>2. QED BY <2>1, FS_Interval
<1>2. Range(s) = {s[i] : i \in 1..Len(s)}
  BY DEF Range
<1>3. s \in Bijection(1..Len(s), Range(s))
  BY <1>2 DEF Once, Bijection, Injection, Surjection, IsInjective, Range
<1>4. ExistsBijection(1..Len(s), Range(s))
  BY <1>3 DEF ExistsBijection
<1>5. QED
  BY <1>1, <1>4, FS_Bijection

LEMMA OnceAppend ==
    ASSUME NEW S, NEW s \in Seq(S), NEW e \in S, Once(s), ~Contains(s, e)
    PROVE  Once(Append(s, e))
BY DEF Once, Contains
LEMMA OnceTail ==
    ASSUME NEW S, NEW s \in Seq(S), Once(s), s # <<>>
    PROVE  Once(Tail(s))
BY HeadTailProperties DEF Once
LEMMA TailHasNoMore ==
    ASSUME NEW S, NEW s \in Seq(S), NEW e, ~Contains(s, e), s # <<>>
    PROVE  ~Contains(Tail(s), e) /\ Tail(s) \in Seq(S) /\ Len(Tail(s)) = Len(s) - 1
BY HeadTailProperties DEF Contains

LEMMA GapType == ASSUME NEW r, RecType(r) PROVE RecType(Gap(r))
BY DEF RecType, Gap, RecoveryState
LEMMA ScheduleType == ASSUME NEW r, RecType(r) PROVE RecType(Schedule(r))
<1>1. RecType([r EXCEPT !.scheduled = TRUE])
  BY DEF RecType, RecoveryState
<1>2. QED BY <1>1 DEF Schedule
LEMMA LookType == ASSUME NEW r, RecType(r) PROVE RecType(LookAtLeaf(r))
<1>1. RecType([r EXCEPT !.leafDirty = TRUE])
  BY DEF RecType, RecoveryState
<1>2. QED BY <1>1, ScheduleType DEF LookAtLeaf

LEMMA Smallest ==
    ASSUME NEW S, S \subseteq Nat, NEW n \in S
    PROVE  \E k \in S : \A m \in S : k <= m
<1>1. PICK k \in S : \A m \in S : <<m, k>> \notin OpToRel(<, Nat)
  BY NatLessThanWellFounded, WFMin
<1>2. \A m \in S : ~(m < k)
  BY <1>1, Zenon DEF OpToRel
<1>3. \A m \in S : m \in Nat /\ k \in Nat
  OBVIOUS
<1>4. QED
  BY <1>2, <1>3

(* A slice of the walk takes the entries from some a to where it starts. *)
LEMMA SliceIs ==
    ASSUME NEW r \in RecoveryState, log \in 0..MaxEntries,
           NEW from, from = IF r.cursor # 0 THEN r.cursor ELSE log
    PROVE  \E a \in 1..from + 1 :
             /\ LeafSlice(r).leafQueue \in Seq(Entries)
             /\ Range(LeafSlice(r).leafQueue) = a..from
             /\ \A k \in a..from : k \notin Found(r)
             /\ LeafSlice(r).cursor \in 0..(a - 1)
             /\ \A e \in 1..from : (\A j \in e..from : j \notin Found(r))
                    => e \in a..from \/ (LeafSlice(r).cursor # 0 /\ e <= LeafSlice(r).cursor)
<1> USE RecoveryAssumption
<1>0. from \in Nat /\ from <= MaxEntries /\ MaxEntries \in Nat
  BY DEF RecoveryState
<1> DEFINE U == Unseen(r, from)
           older == {k \in U : k + RecoveryPerTick <= from}
           walk == Cardinality(U \ older)
<1>1. /\ LeafSlice(r).leafQueue = [i \in 1..walk |-> from - walk + i]
      /\ LeafSlice(r).cursor = IF older = {} THEN 0 ELSE from - RecoveryPerTick
  BY DEF LeafSlice, RecoveryState
<1>2. \A k \in 1..from : k \in U <=> \A j \in k..from : j \notin Found(r)
  BY <1>0 DEF Unseen, Found, Entries
<1>3. U \subseteq 1..from
  BY DEF Unseen
<1> HIDE DEF U
<1>4. CASE U = {}
  <2>1. U \ older = {} /\ older = {}
    BY <1>4
  <2>2. walk = 0
    BY <2>1, FS_EmptySet
  <2>3. from + 1 \in 1..from + 1
    BY <1>0
  <2>4. LeafSlice(r).leafQueue = <<>> /\ LeafSlice(r).cursor = 0
    <3>1. [i \in 1..0 |-> from - 0 + i] = <<>>
      BY <1>0
    <3> HIDE DEF walk, older
    <3>2. QED
      BY <1>1, <2>1, <2>2, <3>1
  <2>5. <<>> = [i \in 1..(from - (from + 1) + 1) |-> (from + 1) - 1 + i] /\ Range(<<>>) = {} /\ (from + 1)..from = {}
    BY <1>0 DEF Range
  <2>6. \A e \in 1..from : ~ \A j \in e..from : j \notin Found(r)
    BY <1>2, <1>4
  <2>7. <<>> \in Seq(Entries) /\ 0 \in 0..((from + 1) - 1)
    BY <1>0
  <2> HIDE DEF walk, older
  <2>8. QED
    BY <2>3, <2>4, <2>5, <2>6, <2>7, ZenonT(60)
<1>5. CASE U # {}
  <2>1. PICK lo \in U : \A m \in U : lo <= m
    <3>1. U \subseteq Nat
      BY <1>0, <1>3
    <3>2. QED
      BY <3>1, <1>5, Smallest
  <2>2. U = lo..from /\ lo \in 1..from
    <3>1. lo \in 1..from
      BY <1>3
    <3>2. \A k \in lo..from : k \in U
      BY <1>0, <1>2, <3>1
    <3>3. \A k \in U : k \in lo..from
      BY <1>0, <1>3, <2>1, <3>1
    <3>4. QED
      BY <3>1, <3>2, <3>3
  <2> DEFINE a == IF lo + RecoveryPerTick <= from THEN from - RecoveryPerTick + 1 ELSE lo
  <2>3. a \in 1..from /\ a >= lo
    BY <1>0, <2>2
  <2>4. U \ older = a..from
    BY <1>0, <2>2
  <2>5. walk = from - a + 1
    <3> HIDE DEF a, older
    <3>1. a \in Int /\ from \in Int /\ ~(a > from)
      BY <1>0, <2>3
    <3>2. Cardinality(a..from) = from - a + 1
      BY <3>1, FS_Interval
    <3>3. QED
      BY <2>4, <3>2
  <2>6. LeafSlice(r).cursor = IF lo + RecoveryPerTick <= from THEN a - 1 ELSE 0
    <3>1. older = {} <=> ~(lo + RecoveryPerTick <= from)
      BY <1>0, <2>2, SMTT(30)
    <3>2. QED
      BY <1>0, <1>1, <2>2, <3>1
  <2> DEFINE q == [i \in 1..(from - a + 1) |-> a - 1 + i]
  <2>7. LeafSlice(r).leafQueue = q
    <3>1. \A i \in 1..(from - a + 1) : from - walk + i = a - 1 + i
      BY <1>0, <2>3, <2>5
    <3> HIDE DEF walk, a
    <3>2. QED
      BY <1>1, <2>5, <3>1
  <2> HIDE DEF a, older
  <2>8. q \in Seq(Entries)
    <3>1. \A i \in 1..(from - a + 1) : a - 1 + i \in Entries
      BY <1>0, <2>3 DEF Entries
    <3>2. from - a + 1 \in Nat
      BY <1>0, <2>3
    <3>3. QED
      BY <3>1, <3>2, IsASeq
  <2>9. Range(q) = a..from
    <3>1. \A i \in 1..(from - a + 1) : q[i] \in a..from
      BY <1>0, <2>3
    <3>2. \A k \in a..from : k - a + 1 \in 1..(from - a + 1) /\ q[k - a + 1] = k
      BY <1>0, <2>3
    <3>3. DOMAIN q = 1..(from - a + 1)
      OBVIOUS
    <3> HIDE DEF q
    <3>4. QED
      BY <3>1, <3>2, <3>3 DEF Range
  <2>10. \A k \in a..from : k \notin Found(r)
    BY <1>0, <1>2, <2>2, <2>3
  <2>11. LeafSlice(r).cursor \in 0..(a - 1)
    BY <1>0, <2>3, <2>6
  <2>12. \A e \in 1..from : (\A j \in e..from : j \notin Found(r))
                    => e \in a..from \/ (LeafSlice(r).cursor # 0 /\ e <= LeafSlice(r).cursor)
    BY <1>0, <1>2, <2>2, <2>3, <2>6 DEF a
  <2>13. a \in 1..from + 1
    BY <1>0, <2>3
  <2>14. QED
    BY <2>7, <2>8, <2>9, <2>10, <2>11, <2>12, <2>13
<1>6. QED
  BY <1>4, <1>5

LEMMA ReplayIs ==
    ASSUME log \in 0..MaxEntries
    PROVE  /\ Replay(log) \in Seq(Entries)
           /\ log <= SeenCapacity => Replay(log) = [i \in 1..log |-> i]
<1> DEFINE all == [e \in 1..log |-> e]
<1>1. all \in Seq(Entries) /\ Len(all) = log
  BY RecoveryAssumption DEF Entries
<1> DEFINE m == IF log > SeenCapacity THEN log - SeenCapacity + 1 ELSE 1
<1>2. m \in 1..Len(all) + 1
  BY <1>1, RecoveryAssumption
<1> HIDE DEF all, m
<1>3. SubSeq(all, m, log) \in Seq(Entries)
  BY <1>1, <1>2, SubSeqProperties
<1>4. SubSeq(all, 1, Len(all)) = all
  BY <1>1, SubSeqFull
<1>5. log <= SeenCapacity => m = 1
  BY RecoveryAssumption DEF m
<1>6. QED
  BY <1>1, <1>3, <1>4, <1>5 DEF Replay, all, m

LEMMA CaptureType == ASSUME NEW r, RecType(r), log \in 0..MaxEntries PROVE RecType(Capture(r))
<1>1. RecType([r EXCEPT !.boundaryDirty = TRUE])
  BY DEF RecType, RecoveryState
<1>2. RecType([r EXCEPT !.replaying = TRUE, !.replay = Replay(log), !.truncated = log > SeenCapacity,
                   !.rested = FALSE, !.boundaryDirty = FALSE])
  <2>1. Replay(log) \in Seq(Entries) /\ (log > SeenCapacity) \in BOOLEAN
    BY ReplayIs
  <2>2. ASSUME NEW q \in Seq(Entries), NEW b \in BOOLEAN
        PROVE  RecType([r EXCEPT !.replaying = TRUE, !.replay = q, !.truncated = b,
                                 !.rested = FALSE, !.boundaryDirty = FALSE])
    <3> DEFINE t == [r EXCEPT !.replaying = TRUE, !.replay = q, !.truncated = b,
                              !.rested = FALSE, !.boundaryDirty = FALSE]
    <3>1. t \in RecoveryState
      BY DEF RecType, RecoveryState
    <3>2. /\ t.seen = r.seen /\ t.queue = r.queue /\ t.deferred = r.deferred /\ t.pending = r.pending
          /\ t.discoveryStopped = r.discoveryStopped /\ t.gap = r.gap
      BY DEF RecType, RecoveryState
    <3> HIDE DEF t
    <3>3. RecType(t)
      BY <3>1, <3>2 DEF RecType
    <3>4. QED
      BY <3>3 DEF t
  <2>3. QED
    BY <2>1, <2>2
<1>3. QED
  BY <1>1, <1>2 DEF Capture

(* What reading an entry leaves alone, *)
Kept(r, s) ==
    /\ s.owner = r.owner /\ s.initialized = r.initialized /\ s.closing = r.closing
    /\ s.cancelled = r.cancelled /\ s.scheduled = r.scheduled /\ s.pc = r.pc
    /\ s.awaiting = r.awaiting /\ s.queue = r.queue /\ s.backfill = r.backfill
    /\ s.rested = r.rested /\ s.leafDirty = r.leafDirty /\ s.leafQueue = r.leafQueue
    /\ s.continuing = r.continuing /\ s.processed = r.processed /\ s.count = r.count
(* and what only a full index changes, when it stops the search. *)
Searching(r, s) ==
    /\ s.discoveryStopped = r.discoveryStopped /\ s.truncated = r.truncated
    /\ s.replaying = r.replaying /\ s.replay = r.replay /\ s.boundaryDirty = r.boundaryDirty
    /\ s.cursor = r.cursor /\ s.timer = r.timer
SearchStopped(s) ==
    /\ s.discoveryStopped /\ ~s.truncated /\ ~s.replaying /\ s.replay = <<>> /\ ~s.boundaryDirty
    /\ s.cursor = 0 /\ s.deferred = <<>> /\ ~s.timer /\ s.gap /\ s.state # "ready"

LEMMA GapIs ==
    ASSUME NEW r \in RecoveryState
    PROVE  /\ Gap(r) \in RecoveryState /\ Kept(r, Gap(r)) /\ Searching(r, Gap(r))
           /\ Gap(r).seen = r.seen /\ Gap(r).deferred = r.deferred
           /\ Gap(r).gap /\ Gap(r).state # "ready"
           /\ Gap(r).pending = r.pending
<1>1. Gap(r) \in RecoveryState /\ Kept(r, Gap(r)) /\ Searching(r, Gap(r))
  BY DEF Gap, RecoveryState, Kept, Searching
<1>2. QED
  BY <1>1 DEF Gap, RecoveryState

LEMMA StopDiscoveryIs ==
    ASSUME NEW r \in RecoveryState
    PROVE  LET s == StopDiscovery(r) IN
           /\ s \in RecoveryState /\ Kept(r, s) /\ s.seen = r.seen /\ s.pending = r.pending
           /\ r.discoveryStopped => s = r
           /\ ~r.discoveryStopped => SearchStopped(s)
<1> DEFINE s == [r EXCEPT !.discoveryStopped = TRUE, !.truncated = FALSE, !.replaying = FALSE,
                       !.replay = <<>>, !.boundaryDirty = FALSE, !.cursor = 0,
                       !.deferred = <<>>, !.idle = FALSE, !.timer = FALSE]
<1>1. s \in RecoveryState
  <2>1. <<>> \in Seq(Entries) /\ 0 \in 0..MaxEntries
    BY RecoveryAssumption
  <2>2. ASSUME NEW q \in Seq(Entries), NEW d \in Seq(Entries), NEW c \in 0..MaxEntries
        PROVE  [r EXCEPT !.discoveryStopped = TRUE, !.truncated = FALSE, !.replaying = FALSE,
                     !.replay = q, !.boundaryDirty = FALSE, !.cursor = c,
                     !.deferred = d, !.idle = FALSE, !.timer = FALSE] \in RecoveryState
    BY ZenonT(60) DEF RecoveryState
  <2>3. QED
    BY <2>1, <2>2
<1>2. Kept(r, s) /\ s.seen = r.seen /\ s.pending = r.pending
  BY DEF RecoveryState, Kept
<1>3. /\ s.discoveryStopped /\ ~s.truncated /\ ~s.replaying /\ s.replay = <<>> /\ ~s.boundaryDirty
      /\ s.cursor = 0 /\ s.deferred = <<>> /\ ~s.timer
  BY DEF RecoveryState
<1> HIDE DEF s
<1>4. /\ Gap(s) \in RecoveryState /\ Kept(s, Gap(s)) /\ Searching(s, Gap(s))
      /\ Gap(s).seen = s.seen /\ Gap(s).deferred = s.deferred
      /\ Gap(s).gap /\ Gap(s).state # "ready" /\ Gap(s).pending = s.pending
  BY <1>1, GapIs
<1>5. Kept(r, Gap(s)) /\ SearchStopped(Gap(s))
  BY <1>2, <1>3, <1>4 DEF Kept, Searching, SearchStopped
<1>6. CASE r.discoveryStopped
  BY <1>6 DEF StopDiscovery, Kept
<1>7. CASE ~r.discoveryStopped
  BY <1>2, <1>4, <1>5, <1>7 DEF StopDiscovery, s
<1>8. QED
  BY <1>6, <1>7

LEMMA StopDiscoveryType == ASSUME NEW r, RecType(r) PROVE RecType(StopDiscovery(r))
<1> DEFINE s == StopDiscovery(r)
<1>1. /\ s \in RecoveryState /\ Kept(r, s) /\ s.seen = r.seen /\ s.pending = r.pending
      /\ s = r \/ SearchStopped(s)
  BY StopDiscoveryIs DEF RecType
<1> HIDE DEF s
<1>2. s.seen = r.seen /\ s.queue = r.queue /\ s.pending = r.pending
  BY <1>1 DEF Kept
<1>3. ASSUME SearchStopped(s) PROVE RecType(s)
  <2>1. s.deferred = <<>> /\ s.gap
    BY <1>3 DEF SearchStopped
  <2>2. Len(s.deferred) = 0
    BY <2>1
  <2>3. QED
    BY <1>1, <1>2, <2>1, <2>2, RecoveryAssumption DEF RecType
<1>4. QED
  BY <1>1, <1>3 DEF s

LEMMA LeafSliceType == ASSUME NEW r, RecType(r), log \in 0..MaxEntries PROVE RecType(LeafSlice(r))
<1> DEFINE from == IF r.cursor # 0 THEN r.cursor ELSE log
<1>1. from \in 0..MaxEntries
  BY DEF RecType, RecoveryState
<1>2. LeafSlice(r).leafQueue \in Seq(Entries) /\ LeafSlice(r).cursor \in 0..MaxEntries
  <2>1. r \in RecoveryState /\ from \in Nat /\ from <= MaxEntries
    BY <1>1, RecoveryAssumption DEF RecType
  <2>2. PICK a \in 1..from + 1 : /\ LeafSlice(r).leafQueue \in Seq(Entries)
                                 /\ LeafSlice(r).cursor \in 0..(a - 1)
    <3> HIDE DEF from
    <3>1. from = IF r.cursor # 0 THEN r.cursor ELSE log
      BY DEF from
    <3>2. QED
      BY <2>1, <3>1, SliceIs
  <2> HIDE DEF from
  <2>3. QED
    BY <2>1, <2>2, RecoveryAssumption
<1>3. LeafSlice(r) = [r EXCEPT !.leafQueue = LeafSlice(r).leafQueue, !.cursor = LeafSlice(r).cursor]
  BY DEF LeafSlice, RecType, RecoveryState
<1>4. ASSUME NEW q \in Seq(Entries), NEW c \in 0..MaxEntries
      PROVE  RecType([r EXCEPT !.leafQueue = q, !.cursor = c])
  BY DEF RecType, RecoveryState
<1>5. QED
  BY <1>2, <1>3, <1>4

LEMMA RememberType ==
    ASSUME NEW r, RecType(r), NEW e \in Entries
    PROVE  RecType(Remember(r, e))
<1> USE RecoveryAssumption
<1>1. ASSUME NEW s, RecType(s), NEW q \in Seq(Entries), Len(q) <= SeenCapacity, Once(q)
      PROVE  RecType([s EXCEPT !.seen = q])
  BY <1>1 DEF RecType, RecoveryState
<1>2. CASE Contains(r.seen, e)
  BY <1>2 DEF Remember
<1>3. CASE ~Contains(r.seen, e) /\ Len(r.seen) < SeenCapacity
  <2>1. /\ Append(r.seen, e) \in Seq(Entries) /\ Len(Append(r.seen, e)) <= SeenCapacity
        /\ Once(Append(r.seen, e))
    BY <1>3, OnceAppend DEF RecType, RecoveryState
  <2>2. QED
    BY <1>1, <1>3, <2>1 DEF Remember
<1>4. CASE ~Contains(r.seen, e) /\ ~(Len(r.seen) < SeenCapacity)
  <2> DEFINE s == StopDiscovery(r)
  <2>1. RecType(s) /\ s.seen = r.seen
    <3>1. r \in RecoveryState
      BY DEF RecType
    <3>2. s.seen = r.seen
      BY <3>1 DEF StopDiscovery, Gap, RecoveryState
    <3>3. QED
      BY <3>2, StopDiscoveryType
  <2>2. r.seen \in Seq(Entries) /\ r.seen # <<>> /\ Len(r.seen) <= SeenCapacity /\ Once(r.seen)
    BY <1>4 DEF RecType, RecoveryState
  <2>3. Tail(r.seen) \in Seq(Entries) /\ Once(Tail(r.seen)) /\ ~Contains(Tail(r.seen), e)
        /\ Len(Tail(r.seen)) = Len(r.seen) - 1
    BY <1>4, <2>2, OnceTail, TailHasNoMore
  <2>4. /\ Append(Tail(r.seen), e) \in Seq(Entries) /\ Len(Append(Tail(r.seen), e)) <= SeenCapacity
        /\ Once(Append(Tail(r.seen), e))
    <3> DEFINE t == Tail(r.seen)
    <3> HIDE DEF t
    <3>1. t \in Seq(Entries) /\ Once(t) /\ ~Contains(t, e) /\ Len(t) <= SeenCapacity - 1
      BY <2>2, <2>3 DEF t
    <3>2. Once(Append(t, e)) /\ Append(t, e) \in Seq(Entries) /\ Len(Append(t, e)) <= SeenCapacity
      BY <3>1, OnceAppend
    <3>3. QED
      BY <3>2 DEF t
  <2>5. Remember(r, e) = IF r.replaying THEN s ELSE [s EXCEPT !.seen = Append(Tail(r.seen), e)]
    BY <1>4, <2>1 DEF Remember
  <2>6. QED
    BY <1>1, <2>1, <2>4, <2>5
<1>5. QED
  BY <1>2, <1>3, <1>4

LEMMA ProcessType ==
    ASSUME NEW r, RecType(r), NEW e \in Entries
    PROVE  RecType(Process(r, e))
<1> DEFINE m == Remember(r, e)
           s == [m EXCEPT !.pending = @ \ {e}, !.runs = @ \cup ({e} \cap Range(Owner))]
<1>1. RecType(m)
  BY RememberType
<1>2. RecType(s)
  <2>1. IsFiniteSet(m.pending \ {e}) /\ Cardinality(m.pending \ {e}) <= Orphans
    <3>1. /\ IsFiniteSet(m.pending) /\ Cardinality(m.pending) <= Orphans
          /\ m.pending \ {e} \subseteq m.pending
      BY <1>1 DEF RecType
    <3>2. Cardinality(m.pending \ {e}) <= Cardinality(m.pending) /\ IsFiniteSet(m.pending \ {e})
      BY <3>1, FS_Subset
    <3>3. QED
      BY <3>1, <3>2, FS_CardinalityType, RecoveryAssumption
  <2> HIDE DEF m
  <2>2. s.pending = m.pending \ {e} /\ s.pending \in SUBSET (1..MaxEntries + 1)
    BY <1>1 DEF RecType, RecoveryState
  <2>3. m.runs \cup ({e} \cap Range(Owner)) \in SUBSET Entries
    BY <1>1 DEF RecType, RecoveryState
  <2>4. QED
    BY <1>1, <2>1, <2>2, <2>3 DEF RecType, RecoveryState
<1>3. CASE Len(s.deferred) < Orphans
  <2> HIDE DEF s
  <2>1. Append(s.deferred, e) \in Seq(Entries) /\ Len(Append(s.deferred, e)) <= Orphans
    BY <1>2, <1>3, RecoveryAssumption DEF RecType, RecoveryState
  <2>2. RecType([s EXCEPT !.deferred = Append(@, e)])
    BY <1>2, <2>1 DEF RecType, RecoveryState
  <2>3. RecType(Gap(s))
    BY <1>2, GapType
  <2>4. QED
    BY <1>1, <1>2, <2>2, <2>3 DEF Process, s
<1>4. CASE ~(Len(s.deferred) < Orphans)
  <2> HIDE DEF s
  <2>1. RecType(Gap(s))
    BY <1>2, GapType
  <2>2. QED
    BY <1>1, <1>2, <1>4, <2>1 DEF Process, s
<1>5. QED
  BY <1>3, <1>4

(* What reading an entry does to the state of the search. *)
Reading(r, s, e) ==
    /\ s \in RecoveryState /\ Kept(r, s)
    /\ Searching(r, s) \/ SearchStopped(s)
    /\ ~s.gap => /\ Searching(r, s) /\ ~r.gap /\ s.state = r.state
                 /\ Contains(r.seen, e) => s = r
                 /\ ~Contains(r.seen, e) => /\ s.seen = Append(r.seen, e)
                                            /\ Resolved(r, e) => s.deferred = r.deferred
                                            /\ ~Resolved(r, e) => s.deferred = Append(r.deferred, e)
    /\ s.gap /\ s.state = "ready" => r.gap /\ r.state = "ready"
    /\ s.deferred \in {<<>>, r.deferred} \/ s.replaying

LEMMA RememberIs ==
    ASSUME NEW r \in RecoveryState, NEW e \in Entries, r.discoveryStopped => r.gap
    PROVE  LET s == Remember(r, e) IN
           /\ s \in RecoveryState /\ Kept(r, s)
           /\ \/ Searching(r, s) /\ s.gap = r.gap /\ s.state = r.state /\ s.deferred = r.deferred
              \/ SearchStopped(s)
           /\ ~s.gap => IF Contains(r.seen, e) THEN s = r ELSE s.seen = Append(r.seen, e)
<1> USE RecoveryAssumption
<1> DEFINE s == Remember(r, e)
           d == StopDiscovery(r)
<1>1. ASSUME NEW x \in RecoveryState, NEW q \in Seq(Entries)
      PROVE  LET y == [x EXCEPT !.seen = q] IN
             /\ y \in RecoveryState /\ Kept(x, y) /\ Searching(x, y) /\ y.gap = x.gap
             /\ y.state = x.state /\ y.deferred = x.deferred /\ y.seen = q
             /\ SearchStopped(x) => SearchStopped(y)
  <2> DEFINE y == [x EXCEPT !.seen = q]
  <2>1. /\ y \in RecoveryState /\ Kept(x, y) /\ Searching(x, y) /\ y.gap = x.gap
        /\ y.state = x.state /\ y.deferred = x.deferred /\ y.seen = q
    BY DEF RecoveryState, Kept, Searching
  <2> HIDE DEF y
  <2>2. SearchStopped(x) => SearchStopped(y)
    BY <2>1 DEF SearchStopped, Searching
  <2>3. QED
    BY <2>1, <2>2 DEF y
<1>2. r.seen \in Seq(Entries)
  BY DEF RecoveryState
<1>3. CASE Contains(r.seen, e)
  <2>1. s = r
    BY <1>3 DEF Remember
  <2>2. QED
    BY <1>3, <2>1 DEF Kept, Searching
<1>4. CASE ~Contains(r.seen, e) /\ Len(r.seen) < SeenCapacity
  <2>1. s = [r EXCEPT !.seen = Append(r.seen, e)] /\ Append(r.seen, e) \in Seq(Entries)
    BY <1>2, <1>4 DEF Remember
  <2> DEFINE y == [r EXCEPT !.seen = Append(r.seen, e)]
  <2>2. /\ y \in RecoveryState /\ Kept(r, y) /\ Searching(r, y) /\ y.gap = r.gap
        /\ y.state = r.state /\ y.deferred = r.deferred /\ y.seen = Append(r.seen, e)
    BY <1>1, <2>1
  <2> HIDE DEF y
  <2>3. s = y
    BY <2>1 DEF y
  <2> HIDE DEF s
  <2>4. /\ s \in RecoveryState /\ Kept(r, s)
        /\ Searching(r, s) /\ s.gap = r.gap /\ s.state = r.state /\ s.deferred = r.deferred
        /\ s.seen = Append(r.seen, e)
    BY <2>2, <2>3
  <2>5. QED
    BY <1>4, <2>4 DEF s
<1>5. CASE ~Contains(r.seen, e) /\ ~(Len(r.seen) < SeenCapacity)
  <2>1. /\ d \in RecoveryState /\ Kept(r, d) /\ d.seen = r.seen
        /\ r.discoveryStopped => d = r
        /\ ~r.discoveryStopped => SearchStopped(d)
    BY StopDiscoveryIs
  <2>2. s = IF r.replaying THEN d ELSE [d EXCEPT !.seen = Append(Tail(@), e)]
    BY <1>5 DEF Remember
  <2> HIDE DEF s, d
  <2>3. Append(Tail(d.seen), e) \in Seq(Entries)
    <3>1. r.seen # <<>>
      BY <1>2, <1>5
    <3>2. Tail(r.seen) \in Seq(Entries)
      BY <1>2, <3>1, HeadTailProperties
    <3>3. QED
      BY <2>1, <3>2
  <2> DEFINE y == [d EXCEPT !.seen = Append(Tail(@), e)]
  <2>4. /\ y \in RecoveryState /\ Kept(d, y) /\ Searching(d, y) /\ y.gap = d.gap
        /\ y.state = d.state /\ y.deferred = d.deferred
        /\ SearchStopped(d) => SearchStopped(y)
    BY <1>1, <2>1, <2>3
  <2> HIDE DEF y
  <2>5. s \in {d, y}
    BY <2>2 DEF y
  <2>6. /\ s \in RecoveryState /\ Kept(d, s) /\ Searching(d, s) /\ s.gap = d.gap
        /\ s.state = d.state /\ s.deferred = d.deferred
        /\ SearchStopped(d) => SearchStopped(s)
    BY <2>1, <2>4, <2>5 DEF Kept, Searching
  <2>7. Kept(r, s)
    BY <2>1, <2>6 DEF Kept
  <2>8. CASE r.discoveryStopped
    BY <2>1, <2>6, <2>7, <2>8 DEF s
  <2>9. CASE ~r.discoveryStopped
    <3>1. SearchStopped(s)
      BY <2>1, <2>6, <2>9
    <3>2. s.gap
      BY <3>1 DEF SearchStopped
    <3>3. QED
      BY <2>6, <2>7, <3>1, <3>2 DEF s
  <2>10. QED
    BY <2>8, <2>9
<1>6. QED
  BY <1>3, <1>4, <1>5

LEMMA ProcessIs ==
    ASSUME NEW r \in RecoveryState, NEW e \in Entries, r.discoveryStopped => r.gap
    PROVE  Reading(r, Process(r, e), e)
<1> USE RecoveryAssumption
<1> DEFINE m == Remember(r, e)
           s == [m EXCEPT !.pending = @ \ {e}, !.runs = @ \cup ({e} \cap Range(Owner))]
           p == Process(r, e)
<1>0. SUFFICES Reading(r, p, e)
  OBVIOUS
<1>1. /\ m \in RecoveryState /\ Kept(r, m)
      /\ \/ Searching(r, m) /\ m.gap = r.gap /\ m.state = r.state /\ m.deferred = r.deferred
         \/ SearchStopped(m)
      /\ ~m.gap => IF Contains(r.seen, e) THEN m = r ELSE m.seen = Append(r.seen, e)
  BY RememberIs
<1>2. CASE Contains(r.seen, e)
  <2>1. p = r
    BY <1>2 DEF Process
  <2>2. QED
    BY <1>2, <2>1 DEF Reading, Kept, Searching
<1>3. CASE ~Contains(r.seen, e)
  <2>1. p = IF ~Contains(m.seen, e) THEN m
            ELSE IF Resolved(r, e) THEN s
            ELSE IF s.replaying /\ ~s.closing /\ Len(s.deferred) < Orphans
                 THEN [s EXCEPT !.deferred = Append(@, e)]
            ELSE Gap(s)
    BY <1>3 DEF Process
  <2> HIDE DEF m, p
  <2>2. /\ s \in RecoveryState /\ Kept(m, s) /\ Searching(m, s) /\ s.gap = m.gap
        /\ s.state = m.state /\ s.deferred = m.deferred /\ s.seen = m.seen
    <3>1. m.pending \ {e} \in SUBSET (1..MaxEntries + 1)
          /\ m.runs \cup ({e} \cap Range(Owner)) \in SUBSET Entries
      BY <1>1 DEF RecoveryState
    <3>2. ASSUME NEW a \in SUBSET (1..MaxEntries + 1), NEW b \in SUBSET Entries
          PROVE  LET t == [m EXCEPT !.pending = a, !.runs = b] IN
                 /\ t \in RecoveryState /\ Kept(m, t) /\ Searching(m, t) /\ t.gap = m.gap
                 /\ t.state = m.state /\ t.deferred = m.deferred /\ t.seen = m.seen
      BY <1>1 DEF RecoveryState, Kept, Searching
    <3>3. QED
      BY <3>1, <3>2
  <2> HIDE DEF s
  <2>3. /\ Kept(r, s)
        /\ \/ Searching(r, s) /\ s.gap = r.gap /\ s.state = r.state /\ s.deferred = r.deferred
           \/ SearchStopped(s)
        /\ ~s.gap => s.seen = Append(r.seen, e)
    BY <1>1, <1>3, <2>2 DEF Kept, Searching, SearchStopped
  <2>4. SearchStopped(m) => m.gap /\ m.state # "ready" /\ m.deferred = <<>>
    BY DEF SearchStopped
  <2>5. SearchStopped(s) => s.gap /\ s.state # "ready" /\ s.deferred = <<>> /\ ~s.replaying
    BY DEF SearchStopped
  <2>6. CASE ~Contains(m.seen, e)
    <3>1. p = m
      BY <2>1, <2>6
    <3>2. m.gap
      <4>1. r.seen \in Seq(Entries)
        BY DEF RecoveryState
      <4>2. Contains(Append(r.seen, e), e)
        BY <4>1 DEF Contains
      <4>3. QED
        BY <1>1, <1>3, <2>6, <4>2
    <3>3. QED
      BY <1>1, <2>4, <3>1, <3>2 DEF Reading
  <2>7. CASE Contains(m.seen, e) /\ Resolved(r, e)
    <3>1. p = s
      BY <2>1, <2>7
    <3>2. QED
      BY <1>3, <2>2, <2>3, <2>5, <2>7, <3>1 DEF Reading
  <2>8. CASE Contains(m.seen, e) /\ ~Resolved(r, e) /\ s.replaying /\ ~s.closing /\ Len(s.deferred) < Orphans
    <3> DEFINE t == [s EXCEPT !.deferred = Append(@, e)]
    <3>1. p = t
      BY <2>1, <2>8
    <3>2. /\ t \in RecoveryState /\ Kept(s, t) /\ Searching(s, t) /\ t.gap = s.gap
          /\ t.state = s.state /\ t.deferred = Append(s.deferred, e) /\ t.seen = s.seen
      <4>1. Append(s.deferred, e) \in Seq(Entries)
        BY <2>2, SMTT(30) DEF RecoveryState
      <4>2. QED
        BY <2>2, <4>1 DEF RecoveryState, Kept, Searching
    <3> HIDE DEF t
    <3>3. ~SearchStopped(s) /\ t.replaying
      BY <2>5, <2>8, <3>2 DEF Searching
    <3>4. Kept(r, t) /\ Searching(r, t)
      BY <2>3, <3>2, <3>3 DEF Kept, Searching
    <3>5. QED
      BY <1>3, <2>3, <2>8, <3>1, <3>2, <3>3, <3>4 DEF Reading
  <2>9. CASE Contains(m.seen, e) /\ ~Resolved(r, e) /\ ~(s.replaying /\ ~s.closing /\ Len(s.deferred) < Orphans)
    <3> DEFINE t == Gap(s)
    <3>1. p = t
      BY <2>1, <2>9
    <3>2. /\ t \in RecoveryState /\ Kept(s, t) /\ Searching(s, t) /\ t.gap
          /\ t.state # "ready" /\ t.deferred = s.deferred /\ t.seen = s.seen
      BY <2>2, GapIs
    <3> HIDE DEF t
    <3>3. Kept(r, t) /\ (Searching(s, t) /\ SearchStopped(s) => SearchStopped(t)) /\ (Searching(r, s) => Searching(r, t))
      BY <2>3, <3>2 DEF Kept, Searching, SearchStopped
    <3>4. QED
      BY <2>3, <2>5, <3>1, <3>2, <3>3 DEF Reading
  <2>10. QED
    BY <2>6, <2>7, <2>8, <2>9
<1>4. QED
  BY <1>2, <1>3

LEMMA EndDrainType == ASSUME NEW r, RecType(r) PROVE RecType(EndDrain(r))
<1> DEFINE s == [r EXCEPT !.pc = "idle", !.awaiting = FALSE, !.count = 0,
                       !.continuing = FALSE, !.processed = FALSE]
<1>1. RecType(s)
  <2>1. r \in RecoveryState /\ 0 \in 0..RecoveryPerTick
    BY RecoveryAssumption DEF RecType
  <2>2. s \in RecoveryState
    BY <2>1 DEF RecoveryState
  <2>3. /\ s.seen = r.seen /\ s.queue = r.queue /\ s.deferred = r.deferred /\ s.pending = r.pending
        /\ s.discoveryStopped = r.discoveryStopped /\ s.gap = r.gap
    BY <2>1 DEF RecoveryState
  <2> HIDE DEF s
  <2>4. QED
    BY <2>2, <2>3 DEF RecType
<1>2. QED
  BY <1>1, ScheduleType DEF EndDrain

LEMMA StoppingType == ASSUME NEW r, RecType(r) PROVE RecType(Stopping(r)) /\ RecType(HasStopped(r))
<1>1. <<>> \in Seq(Entries) /\ Len(<<>>) = 0 /\ 0 \in 0..MaxEntries /\ <<>> \in Seq(Task)
      /\ IsFiniteSet({}) /\ Cardinality({}) = 0
  BY RecoveryAssumption, FS_EmptySet
<1>0. r \in RecoveryState
  BY DEF RecType
<1>2. RecType(Stopping(r))
  <2>1. Stopping(r) \in RecoveryState
    <3>1. ASSUME NEW q \in Seq(Entries), NEW d \in Seq(Entries), NEW w \in Seq(Entries),
                 NEW c \in 0..MaxEntries, NEW dirty \in BOOLEAN
          PROVE  [r EXCEPT !.closing = TRUE, !.idle = FALSE, !.timer = FALSE, !.scheduled = FALSE,
                         !.replaying = FALSE, !.replay = q, !.deferred = d,
                         !.boundaryDirty = FALSE, !.cursor = c, !.leafQueue = w,
                         !.leafDirty = dirty] \in RecoveryState
      <4> DEFINE t == [r EXCEPT !.closing = TRUE, !.idle = FALSE, !.timer = FALSE, !.scheduled = FALSE,
                                !.replaying = FALSE, !.boundaryDirty = FALSE, !.leafDirty = dirty]
      <4>1. t \in RecoveryState
        <5> DEFINE u == [r EXCEPT !.closing = TRUE, !.idle = FALSE, !.timer = FALSE, !.scheduled = FALSE]
        <5>1. u \in RecoveryState
          BY <1>0 DEF RecoveryState
        <5>2. t = [u EXCEPT !.replaying = FALSE, !.boundaryDirty = FALSE, !.leafDirty = dirty]
          BY <1>0 DEF RecoveryState
        <5> HIDE DEF u
        <5>3. [u EXCEPT !.replaying = FALSE, !.boundaryDirty = FALSE, !.leafDirty = dirty] \in RecoveryState
          BY <5>1 DEF RecoveryState
        <5>4. QED
          BY <5>2, <5>3
      <4>2. [r EXCEPT !.closing = TRUE, !.idle = FALSE, !.timer = FALSE, !.scheduled = FALSE,
                         !.replaying = FALSE, !.replay = q, !.deferred = d,
                         !.boundaryDirty = FALSE, !.cursor = c, !.leafQueue = w,
                         !.leafDirty = dirty]
            = [t EXCEPT !.replay = q, !.deferred = d, !.cursor = c, !.leafQueue = w]
        BY <1>0 DEF RecoveryState
      <4> HIDE DEF t
      <4>3. [t EXCEPT !.replay = q, !.deferred = d, !.cursor = c, !.leafQueue = w] \in RecoveryState
        BY <4>1 DEF RecoveryState
      <4>4. QED
        BY <4>2, <4>3
    <3>2. (r.initialized /\ Owns(r)) \in BOOLEAN
      OBVIOUS
    <3>3. QED
      BY <1>1, <3>1, <3>2 DEF Stopping
  <2>2. /\ Stopping(r).seen = r.seen /\ Stopping(r).queue = r.queue
        /\ Stopping(r).deferred = <<>> /\ Stopping(r).pending = r.pending
        /\ Stopping(r).discoveryStopped = r.discoveryStopped /\ Stopping(r).gap = r.gap
    BY <1>0 DEF RecoveryState, Stopping
  <2>3. QED
    BY <1>1, <2>1, <2>2, RecoveryAssumption DEF RecType
<1>3. RecType(HasStopped(r))
  <2>1. HasStopped(r) \in RecoveryState
    BY <1>0, <1>1 DEF RecoveryState, HasStopped
  <2>2. /\ HasStopped(r).seen = r.seen /\ HasStopped(r).queue = <<>>
        /\ HasStopped(r).deferred = r.deferred /\ HasStopped(r).pending = {}
        /\ HasStopped(r).discoveryStopped = r.discoveryStopped /\ HasStopped(r).gap = r.gap
    BY <1>0 DEF RecoveryState, HasStopped
  <2>3. QED
    BY <1>1, <2>1, <2>2, RecoveryAssumption DEF RecType
<1>4. QED
  BY <1>2, <1>3

LEMMA EnqueuedType ==
    ASSUME NEW q \in Seq(Task), NEW task \in Task
    PROVE  Enqueued(q, task) \in Seq(Task) /\ Len(Enqueued(q, task)) = Len(q) + 1
<1> DEFINE I == {i \in 1..Len(q) : q[i].background}
           at == FirstBackground(q)
<1>1. at = (IF I # {} THEN Min(I) ELSE 0)
  BY DEF FirstBackground, SelectInSeq
<1>2. at \in 0..Len(q)
  <2>1. ASSUME I # {} PROVE Min(I) \in I
    <3>1. I \subseteq Nat
      OBVIOUS
    <3>2. \E k \in I : \A m \in I : k <= m
      <4> HIDE DEF I
      <4>1. QED
        BY <2>1, <3>1, Smallest
    <3>3. QED
      BY <3>2 DEF Min
  <2>2. QED
    BY <1>1, <2>1
<1>3. Append(q, task) \in Seq(Task) /\ Len(Append(q, task)) = Len(q) + 1
  OBVIOUS
<1>4. ASSUME at # 0
      PROVE  InsertAt(q, at, task) \in Seq(Task) /\ Len(InsertAt(q, at, task)) = Len(q) + 1
  <2>1. at \in 1..Len(q)
    BY <1>2, <1>4
  <2> HIDE DEF at
  <2>2. SubSeq(q, 1, at - 1) \in Seq(Task) /\ Len(SubSeq(q, 1, at - 1)) = at - 1
    BY <2>1, SubSeqProperties
  <2>3. SubSeq(q, at, Len(q)) \in Seq(Task) /\ Len(SubSeq(q, at, Len(q))) = Len(q) - at + 1
    BY <2>1, SubSeqProperties
  <2>4. <<task>> \in Seq(Task) /\ Len(<<task>>) = 1
    OBVIOUS
  <2>5. SubSeq(q, 1, at - 1) \o <<task>> \in Seq(Task) /\ Len(SubSeq(q, 1, at - 1) \o <<task>>) = at
    BY <2>1, <2>2, <2>4
  <2>6. QED
    BY <2>1, <2>3, <2>5 DEF InsertAt
<1>5. QED
  BY <1>3, <1>4 DEF Enqueued

RecTypes ==
    /\ log \in 0..MaxEntries /\ counted \in SUBSET Entries /\ known \in 0..MaxEntries
    /\ events \in 0..MaxEvents
    /\ RecType(rec)

LEMMA TimedType ==
    ASSUME NEW r, RecType(r), NEW s \in Timed(r)
    PROVE  RecType(s)
<1>1. RecoveryPerTick \in 0..RecoveryPerTick
  BY RecoveryAssumption
<1>2. RecType([r EXCEPT !.count = RecoveryPerTick])
  BY <1>1 DEF RecType, RecoveryState
<1>3. QED
  BY <1>2 DEF Timed

LEMMA SpendType ==
    ASSUME NEW r, RecType(r), NEW n \in Nat, r.count + n <= RecoveryPerTick
    PROVE  RecType(Spend(r, n))
<1>1. r.count + n \in 0..RecoveryPerTick
  BY RecoveryAssumption DEF RecType, RecoveryState
<1>2. QED
  BY <1>1 DEF Spend, RecType, RecoveryState

LEMMA SpendOneType ==
    ASSUME NEW r, RecType(r), More(r)
    PROVE  RecType(Spend(r, 1))
<1>1. r.count + 1 <= RecoveryPerTick
  BY RecoveryAssumption DEF More, RecType, RecoveryState
<1>2. QED
  BY <1>1, SpendType

LEMMA EventTypes ==
    ASSUME RecTypes
    PROVE  /\ Initialize => RecType(rec')
           /\ Boundary => RecType(rec') /\ known' \in 0..MaxEntries /\ events' \in 0..MaxEvents
           /\ IdleProbe => RecType(rec') /\ known' \in 0..MaxEntries
           /\ BindRun => RecType(rec') /\ events' \in 0..MaxEvents
           /\ SessionReplaced => RecType(rec')
<1> USE RecoveryAssumption DEF RecTypes
<1>1. ASSUME Event PROVE events' \in 0..MaxEvents
  BY <1>1 DEF Event
<1>2. Asked \in 0..MaxEntries
  BY DEF Asked
<1>3. /\ RecType([rec EXCEPT !.initialized = TRUE, !.idle = TRUE])
      /\ RecType([rec EXCEPT !.boundaryDirty = TRUE])
  BY DEF RecType, RecoveryState
<1>6. RecType([rec EXCEPT !.owner = FALSE])
  BY DEF RecType, RecoveryState
<1>5. RecType([rec EXCEPT !.backfill = TRUE, !.state = IF @ = "ready" THEN "recovering" ELSE @])
  <2>1. ASSUME NEW st \in {"recovering", "ready", "partial"}
        PROVE  RecType([rec EXCEPT !.backfill = TRUE, !.state = st])
    BY DEF RecType, RecoveryState
  <2>2. (IF rec.state = "ready" THEN "recovering" ELSE rec.state) \in {"recovering", "ready", "partial"}
    BY DEF RecType, RecoveryState
  <2>3. QED
    BY <2>1, <2>2
<1>4. QED
  BY <1>1, <1>2, <1>3, <1>5, <1>6, ScheduleType, LookType
     DEF Initialize, Boundary, IdleProbe, BindRun, SessionReplaced

LEMMA NoteTypes ==
    ASSUME RecTypes, NEW e \in Entries
    PROVE  /\ NoteEntry(e) => RecType(rec') /\ known' \in 0..MaxEntries /\ events' \in 0..MaxEvents
           /\ PendingExpires(e) => RecType(rec')
<1> USE RecoveryAssumption DEF RecTypes
<1>1. ASSUME Event PROVE events' \in 0..MaxEvents
  BY <1>1 DEF Event
<1>2. Asked \in 0..MaxEntries
  BY DEF Asked
<1>3. ASSUME Cardinality(rec.pending) < Orphans
      PROVE  RecType([rec EXCEPT !.pending = @ \cup {e}])
  <2>1. IsFiniteSet(rec.pending) /\ Cardinality(rec.pending) \in Nat
    BY FS_CardinalityType DEF RecType
  <2>2. IsFiniteSet(rec.pending \cup {e})
        /\ Cardinality(rec.pending \cup {e}) <= Cardinality(rec.pending) + 1
    <3>1. Cardinality(rec.pending \cup {e})
            \in {Cardinality(rec.pending), Cardinality(rec.pending) + 1}
          /\ IsFiniteSet(rec.pending \cup {e})
      BY <2>1, FS_AddElement
    <3> DEFINE c == Cardinality(rec.pending \cup {e})
               d == Cardinality(rec.pending)
    <3> HIDE DEF c, d
    <3>2. c \in {d, d + 1} /\ d \in Nat => c <= d + 1
      OBVIOUS
    <3>3. QED
      BY <2>1, <3>1, <3>2 DEF c, d
  <2>3. Cardinality(rec.pending \cup {e}) <= Orphans
    <3>1. Cardinality(rec.pending \cup {e}) \in Nat
      BY <2>2, FS_CardinalityType
    <3>2. QED
      BY <1>3, <2>1, <2>2, <3>1
  <2>4. rec.pending \cup {e} \in SUBSET (1..MaxEntries + 1)
    BY SMTT(30) DEF RecType, RecoveryState, Entries
  <2>5. QED
    BY <2>2, <2>3, <2>4 DEF RecType, RecoveryState
<1>4. RecType([rec EXCEPT !.pending = @ \ {e}])
  <2>1. /\ IsFiniteSet(rec.pending) /\ Cardinality(rec.pending) <= Orphans
        /\ rec.pending \ {e} \subseteq rec.pending
    BY DEF RecType
  <2>2. Cardinality(rec.pending \ {e}) <= Cardinality(rec.pending) /\ IsFiniteSet(rec.pending \ {e})
    BY <2>1, FS_Subset
  <2>3. Cardinality(rec.pending \ {e}) <= Orphans
    BY <2>1, <2>2, FS_CardinalityType
  <2>4. rec.pending \ {e} \in SUBSET (1..MaxEntries + 1)
    BY DEF RecType, RecoveryState
  <2>5. QED
    BY <2>2, <2>3, <2>4 DEF RecType, RecoveryState
<1>5. QED
  BY <1>1, <1>2, <1>3, <1>4, GapType, LookType DEF NoteEntry, PendingExpires

LEMMA SnapshotTypes ==
    ASSUME RecTypes
    PROVE  /\ ReconcileSnapshot => RecType(rec') /\ known' \in 0..MaxEntries /\ events' \in 0..MaxEvents
           /\ IntervalPasses => RecType(rec')
<1> USE RecoveryAssumption DEF RecTypes
<1>1. ASSUME Event PROVE events' \in 0..MaxEvents
  BY <1>1 DEF Event
<1>2. Asked \in 0..MaxEntries
  BY DEF Asked
<1>3. ReconcileSnapshot => RecType(rec')
  <2>1. /\ RecType([rec EXCEPT !.boundaryDirty = FALSE, !.timer = FALSE])
        /\ RecType([rec EXCEPT !.state = "recovering", !.boundaryDirty = TRUE])
    BY ZenonT(60) DEF RecType, RecoveryState
  <2>2. QED
    BY <2>1, LookType, CaptureType DEF ReconcileSnapshot
<1>4. IntervalPasses => RecType(rec')
  <2> DEFINE r == [rec EXCEPT !.rested = TRUE]
  <2>1. RecType(r)
    BY DEF RecType, RecoveryState
  <2> HIDE DEF r
  <2>2. RecType([r EXCEPT !.timer = FALSE])
    BY <2>1, ZenonT(60) DEF RecType, RecoveryState
  <2>3. IntervalPasses =>
          rec' = (IF ~r.timer THEN r
                  ELSE Schedule(IF ~r.replaying /\ r.boundaryDirty /\ ~r.closing
                                THEN Capture([r EXCEPT !.timer = FALSE])
                                ELSE [r EXCEPT !.timer = FALSE]))
    BY DEF IntervalPasses, r
  <2>4. QED
    BY <2>1, <2>2, <2>3, ScheduleType, CaptureType
<1>5. QED
  BY <1>1, <1>2, <1>3, <1>4 DEF ReconcileSnapshot

LEMMA QueueTypes ==
    ASSUME RecTypes
    PROVE  /\ \A task \in Task : Enqueue(task) => RecType(rec') /\ events' \in 0..MaxEvents
           /\ LiveTask \/ BackgroundTask => RecType(rec')
<1> USE RecoveryAssumption DEF RecTypes
<1>1. ASSUME Event PROVE events' \in 0..MaxEvents
  BY <1>1 DEF Event
<1>q. ASSUME NEW r, RecType(r), NEW q \in Seq(Task), Len(q) <= QueueLimit
      PROVE  RecType([r EXCEPT !.queue = q])
  BY <1>q DEF RecType, RecoveryState
<1>r. rec.queue \in Seq(Task) /\ Len(rec.queue) <= QueueLimit
  BY DEF RecType, RecoveryState
<1>2. ASSUME NEW task \in Task, Enqueue(task) PROVE RecType(rec')
  <2>1. CASE Len(rec.queue) >= QueueLimit
    BY <1>2, <2>1, GapType DEF Enqueue
  <2>2. CASE ~(Len(rec.queue) >= QueueLimit)
    <3>1. Enqueued(rec.queue, task) \in Seq(Task) /\ Len(Enqueued(rec.queue, task)) <= QueueLimit
      <4>1. /\ Enqueued(rec.queue, task) \in Seq(Task)
            /\ Len(Enqueued(rec.queue, task)) = Len(rec.queue) + 1
        BY <1>r, EnqueuedType
      <4>2. Len(rec.queue) \in Nat
        BY <1>r
      <4>3. QED
        BY <2>2, <4>1, <4>2
    <3>2. RecType([rec EXCEPT !.queue = Enqueued(@, task)])
      BY <1>q, <3>1
    <3>3. QED
      BY <1>2, <2>2, <3>2, ScheduleType DEF Enqueue
  <2>3. QED
    BY <2>1, <2>2
<1>3. ASSUME NEW pc, RunTask(pc) PROVE RecType(rec')
  <2>1. rec.queue # <<>> /\ Head(rec.queue) \in Task /\ Tail(rec.queue) \in Seq(Task)
        /\ Len(Tail(rec.queue)) <= QueueLimit
    BY <1>3, <1>r, HeadTailProperties DEF RunTask
  <2>2. Head(rec.queue).events \in Nat /\ rec.count + Head(rec.queue).events <= RecoveryPerTick
    BY <1>3, <2>1 DEF RunTask, TickAllows, Task
  <2> DEFINE n == Head(rec.queue).events
             m == Spend(rec, n)
             r == [m EXCEPT !.queue = Tail(@), !.awaiting = TRUE]
  <2>3. RecType(m) /\ m.queue = rec.queue
    <3>1. m.queue = rec.queue
      BY DEF Spend, RecType, RecoveryState
    <3>2. QED
      BY <2>2, <3>1, SpendType
  <2>4. RecType(r)
    <3> HIDE DEF m
    <3>1. ASSUME NEW q \in Seq(Task), Len(q) <= QueueLimit
          PROVE  RecType([m EXCEPT !.queue = q, !.awaiting = TRUE])
      BY <2>3, <3>1 DEF RecType, RecoveryState
    <3>2. r = [m EXCEPT !.queue = Tail(m.queue), !.awaiting = TRUE]
      OBVIOUS
    <3>3. QED
      BY <2>1, <2>3, <3>1, <3>2
  <2>5. rec' \in Timed(r) \cup {EndDrain(Gap(r))}
    BY <1>3 DEF RunTask
  <2> HIDE DEF r
  <2>6. RecType(EndDrain(Gap(r)))
    BY <2>4, GapType, EndDrainType
  <2>7. QED
    BY <2>4, <2>5, <2>6, TimedType
<1>4. QED
  BY <1>1, <1>2, <1>3 DEF LiveTask, BackgroundTask, Enqueue

LEMMA StartDrainType == ASSUME NEW r, RecType(r) PROVE RecType(StartDrain(r))
<1>1. 0 \in 0..RecoveryPerTick
  BY RecoveryAssumption
<1>2. QED
  BY <1>1 DEF StartDrain, RecType, RecoveryState

LEMMA DrainTypes ==
    ASSUME RecTypes
    PROVE  /\ Drain \/ StartLeaf \/ EndLeaf \/ EndReplay \/ EndDeferred \/ FinishSlice \/ Abandon => RecType(rec')
<1> USE RecoveryAssumption DEF RecTypes
<1>1. Drain => RecType(rec')
  <2>1. RecType([rec EXCEPT !.scheduled = FALSE])
    BY DEF RecType, RecoveryState
  <2>2. QED
    BY StartDrainType, <2>1 DEF Drain
<1>2. StartLeaf => RecType(rec')
  <2>1. RecType(HeldBack(rec))
    <3>1. RecoveryPerTick \in 0..RecoveryPerTick
      OBVIOUS
    <3>2. RecType([rec EXCEPT !.count = RecoveryPerTick])
      BY <3>1 DEF RecType, RecoveryState
    <3>3. QED
      BY <3>2 DEF HeldBack
  <2> DEFINE r == [HeldBack(rec) EXCEPT !.awaiting = FALSE]
             s == [r EXCEPT !.pc = "leaf", !.leafDirty = FALSE, !.processed = FALSE,
                            !.continuing = Walking(r)]
  <2>2. RecType(r)
    BY <2>1, ZenonT(60) DEF RecType, RecoveryState
  <2>3. Walking(r) \in BOOLEAN
    BY DEF Walking
  <2>4. StartLeaf => rec' = (IF ~r.leafDirty THEN [r EXCEPT !.pc = "entries"]
                             ELSE IF s.leafQueue = <<>> THEN LeafSlice(s) ELSE s)
    BY DEF StartLeaf
  <2> HIDE DEF r
  <2>5. RecType([r EXCEPT !.pc = "entries"]) /\ RecType(s)
    <3>1. RecType([r EXCEPT !.pc = "entries"])
      BY <2>2 DEF RecType, RecoveryState
    <3>2. ASSUME NEW b \in BOOLEAN
          PROVE  RecType([r EXCEPT !.pc = "leaf", !.leafDirty = FALSE, !.processed = FALSE,
                                   !.continuing = b])
      <4> DEFINE t == [r EXCEPT !.pc = "leaf", !.leafDirty = FALSE, !.processed = FALSE,
                                !.continuing = b]
      <4>1. t \in RecoveryState
        BY <2>2, ZenonT(60) DEF RecType, RecoveryState
      <4>2. /\ t.seen = r.seen /\ t.queue = r.queue /\ t.deferred = r.deferred /\ t.pending = r.pending
            /\ t.discoveryStopped = r.discoveryStopped /\ t.gap = r.gap
        BY <2>2 DEF RecType, RecoveryState
      <4> HIDE DEF t
      <4>3. RecType(t)
        BY <2>2, <4>1, <4>2 DEF RecType
      <4>4. QED
        BY <4>3 DEF t
    <3>3. QED
      BY <2>3, <3>1, <3>2
  <2>6. QED
    BY <2>4, <2>5, LeafSliceType
<1>3. EndLeaf => RecType(rec')
  <2>1. ASSUME NEW b \in BOOLEAN
        PROVE  RecType([rec EXCEPT !.pc = "entries", !.leafDirty = b])
    BY DEF RecType, RecoveryState
  <2>2. (\/ Walking(rec)
         \/ ~rec.discoveryStopped /\ rec.processed /\ rec.continuing) \in BOOLEAN
    OBVIOUS
  <2>3. QED
    BY <2>1, <2>2 DEF EndLeaf
<1>4. EndReplay => RecType(rec')
  <2> DEFINE r == [rec EXCEPT !.pc = "deferred"]
  <2>1. RecType(r) /\ RecType([r EXCEPT !.replaying = FALSE])
    BY ZenonT(60) DEF RecType, RecoveryState
  <2>2. QED
    BY <2>1, StopDiscoveryType DEF EndReplay
<1>5. EndDeferred => RecType(rec')
  <2> DEFINE r == [rec EXCEPT !.pc = "background"]
  <2>1. RecType(r) /\ RecType([r EXCEPT !.timer = TRUE])
    BY DEF RecType, RecoveryState
  <2>2. QED
    BY <2>1, CaptureType DEF EndDeferred
<1>6. FinishSlice => RecType(rec')
  <2> DEFINE r == IF More(rec) THEN [rec EXCEPT !.backfill = FALSE] ELSE rec
  <2>1. RecType(r)
    <3>1. RecType([rec EXCEPT !.backfill = FALSE])
      BY DEF RecType, RecoveryState
    <3>2. QED
      BY <3>1
  <2>2. \/ ~FinishSlice \/ rec' = EndDrain(r)
        \/ rec' = EndDrain([r EXCEPT !.state = IF r.gap THEN "partial" ELSE "ready"])
    BY DEF FinishSlice
  <2> HIDE DEF r
  <2>3. RecType([r EXCEPT !.state = IF r.gap THEN "partial" ELSE "ready"])
    BY <2>1 DEF RecType, RecoveryState
  <2>4. QED
    BY <2>1, <2>2, <2>3, EndDrainType
<1>7. Abandon => RecType(rec')
  BY EndDrainType DEF Abandon
<1>8. QED
  BY <1>1, <1>2, <1>3, <1>4, <1>5, <1>6, <1>7

LEMMA CountedType ==
    ASSUME counted \in SUBSET Entries, NEW r, NEW e \in Entries
    PROVE  Counted(r, e) \in SUBSET Entries
BY DEF Counted

LEMMA EntryTypes ==
    ASSUME RecTypes
    PROVE  LeafEntry \/ ReplayEntry \/ RetryDeferred => RecType(rec') /\ counted' \in SUBSET Entries
<1> USE RecoveryAssumption DEF RecTypes
<1>0. /\ rec.leafQueue \in Seq(Entries) /\ rec.replay \in Seq(Entries) /\ rec.deferred \in Seq(Entries)
      /\ Len(rec.deferred) <= Orphans
  BY DEF RecType, RecoveryState
<1>t. ASSUME NEW q \in Seq(Entries), q # <<>>
      PROVE  Head(q) \in Entries /\ Tail(q) \in Seq(Entries) /\ Len(Tail(q)) = Len(q) - 1
  BY <1>t, HeadTailProperties
<1>1. ASSUME LeafEntry PROVE RecType(rec') /\ counted' \in SUBSET Entries
  <2> DEFINE e == Head(rec.leafQueue)
             m == Spend(rec, 1)
             r == [m EXCEPT !.leafQueue = Tail(@), !.processed = TRUE]
  <2>1. e \in Entries /\ Tail(rec.leafQueue) \in Seq(Entries)
    BY <1>0, <1>1, <1>t DEF LeafEntry
  <2>2. RecType(m) /\ m.leafQueue = rec.leafQueue
    <3>1. m.leafQueue = rec.leafQueue
      BY DEF Spend, RecType, RecoveryState
    <3>2. QED
      BY <1>1, <3>1, SpendOneType DEF LeafEntry
  <2>3. rec' \in Timed(Process(r, e)) /\ counted' = Counted(r, e)
    BY <1>1 DEF LeafEntry
  <2>4. RecType(r)
    <3> HIDE DEF m
    <3>1. ASSUME NEW q \in Seq(Entries)
          PROVE  RecType([m EXCEPT !.leafQueue = q, !.processed = TRUE])
      BY <2>2, <3>1 DEF RecType, RecoveryState
    <3>2. QED
      BY <2>1, <2>2, <3>1
  <2> HIDE DEF r, e
  <2>5. QED
    BY <2>1, <2>3, <2>4, ProcessType, TimedType, CountedType
<1>2. ASSUME ReplayEntry PROVE RecType(rec') /\ counted' \in SUBSET Entries
  <2> DEFINE e == Head(rec.replay)
             s == Process(Spend(rec, 1), e)
             x == [s EXCEPT !.replay = IF s.replaying THEN Tail(@) ELSE <<>>]
  <2>1. e \in Entries
    BY <1>0, <1>2, <1>t DEF ReplayEntry
  <2>2. RecType(Spend(rec, 1))
    BY <1>2, SpendOneType DEF ReplayEntry
  <2>3. rec' \in Timed(x) /\ counted' = Counted(rec, e)
    BY <1>2 DEF ReplayEntry
  <2>4. RecType(s)
    BY <2>1, <2>2, ProcessType
  <2>5. RecType(x)
    <3>1. s.replay \in Seq(Entries)
      BY <2>4 DEF RecType, RecoveryState
    <3>2. s.replaying => s.replay # <<>>
      <4>1. Spend(rec, 1) \in RecoveryState /\ (Spend(rec, 1).discoveryStopped => Spend(rec, 1).gap)
        BY <2>2 DEF RecType
      <4>2. Searching(Spend(rec, 1), s) \/ SearchStopped(s)
        BY <2>1, <4>1, ProcessIs DEF Reading
      <4>3. Spend(rec, 1).replay = rec.replay
        BY DEF Spend, RecType, RecoveryState
      <4> HIDE DEF s
      <4>4. QED
        BY <1>2, <4>2, <4>3 DEF Searching, SearchStopped, ReplayEntry
    <3> HIDE DEF s
    <3>3. (IF s.replaying THEN Tail(s.replay) ELSE <<>>) \in Seq(Entries)
      <4>1. s.replaying => Tail(s.replay) \in Seq(Entries)
        BY <3>1, <3>2, HeadTailProperties
      <4>2. <<>> \in Seq(Entries)
        OBVIOUS
      <4>3. QED
        BY <4>1, <4>2
    <3>4. ASSUME NEW q \in Seq(Entries)
          PROVE  RecType([s EXCEPT !.replay = q])
      BY <2>4 DEF RecType, RecoveryState
    <3>5. QED
      BY <3>3, <3>4
  <2>6. QED
    <3> HIDE DEF x, e
    <3>1. QED
      BY <2>1, <2>3, <2>5, TimedType, CountedType
<1>3. ASSUME RetryDeferred PROVE RecType(rec') /\ counted' \in SUBSET Entries
  <2> DEFINE e == Head(rec.deferred)
             m == Spend(rec, 1)
             r == [m EXCEPT !.deferred = Tail(@)]
  <2>1. e \in Entries /\ Tail(rec.deferred) \in Seq(Entries) /\ Len(Tail(rec.deferred)) <= Orphans
    BY <1>0, <1>3, <1>t DEF RetryDeferred
  <2>2. RecType(m) /\ m.deferred = rec.deferred
    <3>1. m.deferred = rec.deferred
      BY DEF Spend, RecType, RecoveryState
    <3>2. QED
      BY <1>3, <3>1, SpendOneType DEF RetryDeferred
  <2>3. \/ rec' \in Timed(r) /\ counted' = counted \cup {e}
        \/ rec' \in Timed(Gap(r)) /\ counted' = counted
    BY <1>3 DEF RetryDeferred
  <2>4. RecType(r)
    <3> HIDE DEF m
    <3>1. ASSUME NEW q \in Seq(Entries), Len(q) <= Orphans
          PROVE  RecType([m EXCEPT !.deferred = q])
      BY <2>2, <3>1 DEF RecType, RecoveryState
    <3>2. QED
      BY <2>1, <2>2, <3>1
  <2> HIDE DEF r, e
  <2>5. QED
    BY <2>1, <2>3, <2>4, TimedType, GapType
<1>4. QED
  BY <1>1, <1>2, <1>3

LEMMA StopTypes ==
    ASSUME RecTypes
    PROVE  /\ Stop => RecType(rec') /\ known' \in 0..MaxEntries
           /\ StopDrains \/ StopEnds \/ SessionReplaced => RecType(rec')
<1> USE RecoveryAssumption DEF RecTypes
<1>1. 0 \in 0..MaxEntries /\ 0 \in 0..RecoveryPerTick
  OBVIOUS
<1>2. Stop => RecType(rec') /\ known' \in 0..MaxEntries
  <2>1. RecType(Stopping(rec)) /\ RecType(HasStopped(Stopping(rec)))
    BY StoppingType
  <2>2. QED
    BY <1>1, <2>1 DEF Stop
<1>3. StopDrains => RecType(rec')
  BY StartDrainType DEF StopDrains
<1>4. StopEnds => RecType(rec')
  BY StoppingType DEF StopEnds
<1>5. QED
  BY <1>2, <1>3, <1>4, EventTypes

LEMMA RecTypesStep == ASSUME RecTypes, [RecoveryNext]_recoveryVars PROVE RecTypes'
<1> DEFINE S == RecType(rec')
<1>0. RecType(rec)' <=> S
  BY DEF RecType
<1>1. log' \in 0..MaxEntries
  <2>1. AppendEntry => log' \in 0..MaxEntries
    BY RecoveryAssumption DEF AppendEntry, RecTypes
  <2>2. log' = log \/ AppendEntry
    BY DEF RecoveryNext, recoveryVars, Initialize, Boundary, ReconcileSnapshot, IdleProbe,
           IntervalPasses, BindRun, Drain, DrainStep, LiveTask, BackgroundTask, RunTask, StartLeaf,
           LeafEntry, EndLeaf, ReplayEntry, EndReplay, RetryDeferred, EndDeferred, FinishSlice,
           Abandon, Stop, StopDrains, StopEnds, SessionReplaced, NoteEntry, PendingExpires, Enqueue
  <2>3. QED
    BY <2>1, <2>2 DEF RecTypes
<1>2. counted' \in SUBSET Entries
  <2>1. LeafEntry \/ ReplayEntry \/ RetryDeferred => counted' \in SUBSET Entries
    BY EntryTypes
  <2>2. counted' = counted \/ LeafEntry \/ ReplayEntry \/ RetryDeferred
    BY DEF RecoveryNext, recoveryVars, Initialize, Boundary, ReconcileSnapshot, IdleProbe,
           IntervalPasses, BindRun, Drain, DrainStep, LiveTask, BackgroundTask, RunTask, StartLeaf,
           EndLeaf, EndReplay, EndDeferred, FinishSlice, AppendEntry,
           Abandon, Stop, StopDrains, StopEnds, SessionReplaced, NoteEntry, PendingExpires, Enqueue
  <2>3. QED
    BY <2>1, <2>2 DEF RecTypes
<1>3. known' \in 0..MaxEntries
  <2>1. \/ known' = known \/ Boundary \/ IdleProbe \/ ReconcileSnapshot \/ Stop
        \/ \E e \in Entries : NoteEntry(e)
    BY DEF RecoveryNext, recoveryVars, Initialize,
           IntervalPasses, BindRun, Drain, DrainStep, LiveTask, BackgroundTask, RunTask, StartLeaf,
           LeafEntry, EndLeaf, ReplayEntry, EndReplay, RetryDeferred, EndDeferred, FinishSlice,
           Abandon, AppendEntry, StopDrains, StopEnds, SessionReplaced, PendingExpires, Enqueue
  <2>2. QED
    BY <2>1, EventTypes, NoteTypes, SnapshotTypes, StopTypes DEF RecTypes
<1>4. events' \in 0..MaxEvents
  <2>1. \/ events' = events \/ Boundary \/ BindRun \/ ReconcileSnapshot
        \/ \E e \in Entries : NoteEntry(e)
        \/ \E task \in Task : Enqueue(task)
    BY DEF RecoveryNext, recoveryVars, Initialize, IdleProbe,
           IntervalPasses, Drain, DrainStep, LiveTask, BackgroundTask, RunTask, StartLeaf,
           LeafEntry, EndLeaf, ReplayEntry, EndReplay, RetryDeferred, EndDeferred, FinishSlice,
           Abandon, AppendEntry, StopDrains, StopEnds, SessionReplaced, PendingExpires, Stop
  <2>2. QED
    BY <2>1, EventTypes, NoteTypes, SnapshotTypes, QueueTypes DEF RecTypes
<1>5. S
  <2>1. CASE UNCHANGED recoveryVars \/ AppendEntry
    BY <2>1 DEF recoveryVars, AppendEntry, RecTypes
  <2>2. CASE Initialize \/ Boundary \/ IdleProbe \/ BindRun \/ SessionReplaced
    BY <2>2, EventTypes
  <2>3. CASE \E e \in Entries : NoteEntry(e) \/ PendingExpires(e)
    BY <2>3, NoteTypes
  <2>4. CASE ReconcileSnapshot \/ IntervalPasses
    BY <2>4, SnapshotTypes
  <2>5. CASE (\E task \in Task : Enqueue(task)) \/ LiveTask \/ BackgroundTask
    BY <2>5, QueueTypes
  <2>6. CASE Drain \/ StartLeaf \/ EndLeaf \/ EndReplay \/ EndDeferred \/ FinishSlice \/ Abandon
    BY <2>6, DrainTypes
  <2>7. CASE LeafEntry \/ ReplayEntry \/ RetryDeferred
    BY <2>7, EntryTypes
  <2>8. CASE Stop \/ StopDrains \/ StopEnds
    BY <2>8, StopTypes
  <2>9. QED
    BY <2>1, <2>2, <2>3, <2>4, <2>5, <2>6, <2>7, <2>8 DEF RecoveryNext, DrainStep
<1>6. QED
  BY <1>0, <1>1, <1>2, <1>3, <1>4, <1>5 DEF RecTypes

LEMMA RecTypesInit == RecoveryInit => RecTypes
<1> SUFFICES ASSUME RecoveryInit PROVE RecTypes
  OBVIOUS
<1> USE RecoveryAssumption
<1>1. log \in 0..MaxEntries /\ known \in 0..MaxEntries /\ counted \in SUBSET Entries /\ events \in 0..MaxEvents
  BY DEF RecoveryInit
<1>2. rec = [owner |-> TRUE, initialized |-> FALSE, closing |-> FALSE, cancelled |-> FALSE,
              scheduled |-> FALSE, pc |-> "idle", awaiting |-> FALSE, count |-> 0,
              seen |-> <<>>, pending |-> {}, deferred |-> <<>>,
              queue |-> <<>>, backfill |-> FALSE, runs |-> {},
              replaying |-> TRUE, truncated |-> log > SeenCapacity, replay |-> Replay(log),
              boundaryDirty |-> FALSE, timer |-> FALSE, rested |-> FALSE,
              leafDirty |-> FALSE, cursor |-> 0, leafQueue |-> <<>>,
              continuing |-> FALSE, processed |-> FALSE,
              discoveryStopped |-> FALSE, idle |-> FALSE,
              state |-> "recovering", gap |-> FALSE]
  BY DEF RecoveryInit, Replay
<1>3. Replay(log) \in Seq(Entries) /\ (log > SeenCapacity) \in BOOLEAN
  BY <1>1, ReplayIs
<1>4. /\ 0 \in 0..RecoveryPerTick /\ 0 \in 0..MaxEntries /\ <<>> \in Seq(Entries) /\ <<>> \in Seq(Task)
      /\ {} \in SUBSET (1..MaxEntries + 1) /\ {} \in SUBSET Entries
  OBVIOUS
<1>5. rec \in RecoveryState
  <2> HIDE DEF Replay
  <2>1. ASSUME NEW c \in 0..RecoveryPerTick, NEW d \in 0..MaxEntries, NEW s \in Seq(Entries),
               NEW q \in Seq(Task), NEW p \in SUBSET (1..MaxEntries + 1), NEW u \in SUBSET Entries,
               NEW b \in BOOLEAN, NEW m \in Seq(Entries)
        PROVE  [owner |-> TRUE, initialized |-> FALSE, closing |-> FALSE, cancelled |-> FALSE,
              scheduled |-> FALSE, pc |-> "idle", awaiting |-> FALSE, count |-> c,
              seen |-> s, pending |-> p, deferred |-> s,
              queue |-> q, backfill |-> FALSE, runs |-> u,
              replaying |-> TRUE, truncated |-> b, replay |-> m,
              boundaryDirty |-> FALSE, timer |-> FALSE, rested |-> FALSE,
              leafDirty |-> FALSE, cursor |-> d, leafQueue |-> s,
              continuing |-> FALSE, processed |-> FALSE,
              discoveryStopped |-> FALSE, idle |-> FALSE,
              state |-> "recovering", gap |-> FALSE] \in RecoveryState
    BY DEF RecoveryState
  <2>2. QED
    BY <1>2, <1>3, <1>4, <2>1, ZenonT(60)
<1>6. /\ rec.seen = <<>> /\ rec.queue = <<>> /\ rec.deferred = <<>> /\ rec.pending = {}
      /\ ~rec.discoveryStopped
  BY <1>2
<1>7. Len(<<>>) = 0 /\ Once(<<>>) /\ IsFiniteSet({}) /\ Cardinality({}) = 0
  BY FS_EmptySet DEF Once
<1>8. RecType(rec)
  BY <1>5, <1>6, <1>7 DEF RecType
<1>9. QED
  BY <1>1, <1>8 DEF RecTypes

(* RecoveryTypeOK: the types and the capacities, and that an entry is
   remembered once. *)
THEOREM RecoveryTypesCorrect == RecoverySpec => []RecoveryTypeOK
<1>1. RecTypes => RecoveryTypeOK
  <2>1. ASSUME RecTypes PROVE Cardinality(Range(rec.seen)) = Len(rec.seen)
    <3>1. rec.seen \in Seq(Entries) /\ Once(rec.seen)
      BY <2>1 DEF RecTypes, RecType, RecoveryState
    <3>2. QED
      BY <3>1, OnceCounts
  <2>2. QED
    BY <2>1 DEF RecTypes, RecType, RecoveryTypeOK
<1>2. QED
  BY <1>1, RecTypesInit, RecTypesStep, PTL DEF RecoverySpec

-----------------------------------------------------------------------------
(* Control: what the helpers keep of it *)

LEMMA ScheduleControl ==
    ASSUME NEW r \in RecoveryState
    PROVE  /\ PhaseInv(r) => PhaseInv(Schedule(r))
           /\ ProbeInv(r) => ProbeInv(Schedule(r))
           /\ WorkInv(Schedule(r))
           /\ Retried(r) => Retried(Schedule(r))
<1> DEFINE s == [r EXCEPT !.scheduled = TRUE]
<1>1. CASE ~(r.initialized /\ ~r.closing /\ ~Draining(r) /\ Owns(r))
  <2>1. Schedule(r) = r
    BY <1>1 DEF Schedule
  <2>2. WorkInv(r)
    BY <1>1 DEF WorkInv
  <2>3. QED
    BY <2>1, <2>2
<1>2. CASE r.initialized /\ ~r.closing /\ ~Draining(r) /\ Owns(r)
  <2>1. Schedule(r) = s
    BY <1>2 DEF Schedule
  <2>2. PhaseInv(r) => PhaseInv(s)
    BY <1>2 DEF PhaseInv, RecoveryState, Draining, Walking
  <2>3. ProbeInv(r) => ProbeInv(s)
    BY DEF ProbeInv, RecoveryState, Owns
  <2>4. WorkInv(s)
    BY DEF WorkInv, RecoveryState
  <2>5. Retried(r) => Retried(s)
    BY DEF Retried, RecoveryState, More
  <2>6. QED
    BY <2>1, <2>2, <2>3, <2>4, <2>5
<1>3. QED
  BY <1>1, <1>2

LEMMA LookControl ==
    ASSUME NEW r \in RecoveryState
    PROVE  /\ PhaseInv(r) /\ r.pc # "leaf" => PhaseInv(LookAtLeaf(r))
           /\ ProbeInv(LookAtLeaf(r)) /\ WorkInv(LookAtLeaf(r))
           /\ Retried(r) => Retried(LookAtLeaf(r))
<1> DEFINE s == [r EXCEPT !.leafDirty = TRUE]
<1>1. s \in RecoveryState
  BY DEF RecoveryState
<1>2. PhaseInv(r) /\ r.pc # "leaf" => PhaseInv(s)
  BY DEF PhaseInv, RecoveryState, Draining, Walking
<1>3. ProbeInv(s)
  BY DEF ProbeInv, RecoveryState
<1>4. Retried(r) => Retried(s)
  BY DEF Retried, RecoveryState, More
<1> HIDE DEF s
<1>5. QED
  BY <1>1, <1>2, <1>3, <1>4, ScheduleControl DEF LookAtLeaf, s

LEMMA GapControl ==
    ASSUME NEW r \in RecoveryState
    PROVE  /\ PhaseInv(r) => PhaseInv(Gap(r))
           /\ ProbeInv(r) => ProbeInv(Gap(r))
           /\ WorkInv(r) => WorkInv(Gap(r))
           /\ Retried(r) => Retried(Gap(r))
<1> DEFINE s == Gap(r)
<1>1. /\ s \in RecoveryState /\ Kept(r, s) /\ Searching(r, s)
      /\ s.seen = r.seen /\ s.deferred = r.deferred
      /\ s.gap /\ s.state # "ready"
  BY GapIs
<1> HIDE DEF s
<1>2. PhaseInv(r) => PhaseInv(s)
  BY <1>1 DEF PhaseInv, Kept, Searching, Draining, Walking
<1>3. ProbeInv(r) => ProbeInv(s)
  BY <1>1 DEF ProbeInv, Kept, Searching, Owns
<1>4. WorkInv(r) => WorkInv(s)
  BY <1>1 DEF WorkInv, Kept, Searching, Owns, Draining, RunnableQueue
<1>5. Retried(r) => Retried(s)
  BY <1>1 DEF Retried, Kept, Searching, More
<1>6. QED
  BY <1>2, <1>3, <1>4, <1>5 DEF s

(* A snapshot of the log is taken only when none is being replayed. *)
LEMMA CaptureControl ==
    ASSUME NEW r \in RecoveryState, PhaseInv(r), ~r.closing, log \in 0..MaxEntries,
           ~r.replaying
    PROVE  /\ PhaseInv(Capture(r))
           /\ Owns(r) => ProbeInv(Capture(r))
           /\ r.scheduled \/ r.pc # "idle" \/ ~r.initialized => WorkInv(Capture(r))
           /\ Retried(r) => Retried(Capture(r))
           /\ Capture(r) \in RecoveryState
<1> DEFINE s == [r EXCEPT !.boundaryDirty = TRUE]
           t == [r EXCEPT !.replaying = TRUE, !.replay = Replay(log), !.truncated = log > SeenCapacity,
                          !.rested = FALSE, !.boundaryDirty = FALSE]
<1>1. CASE r.discoveryStopped
  <2>1. Capture(r) = r /\ ~r.boundaryDirty
    BY <1>1 DEF Capture, PhaseInv
  <2>2. ProbeInv(r)
    BY <2>1 DEF ProbeInv
  <2>3. r.scheduled \/ r.pc # "idle" \/ ~r.initialized => WorkInv(r)
    BY DEF WorkInv, Draining
  <2>4. QED
    BY <2>1, <2>2, <2>3
<1>2. CASE ~r.discoveryStopped /\ ~Owns(r)
  <2>1. Capture(r) = s
    BY <1>2 DEF Capture
  <2>2. PhaseInv(s)
    BY <1>2 DEF PhaseInv, RecoveryState, Draining, Walking
  <2>6. s \in RecoveryState
    BY DEF RecoveryState
  <2>3. r.scheduled \/ r.pc # "idle" \/ ~r.initialized => WorkInv(s)
    BY DEF WorkInv, Draining, RecoveryState
  <2>4. Retried(r) => Retried(s)
    BY DEF Retried, More, RecoveryState
  <2>5. QED
    BY <1>2, <2>1, <2>2, <2>3, <2>4, <2>6
<1>3. CASE ~r.discoveryStopped /\ Owns(r)
  <2>1. Capture(r) = t
    BY <1>3 DEF Capture
  <2>2. Replay(log) \in Seq(Entries) /\ (log > SeenCapacity) \in BOOLEAN
    BY ReplayIs
  <2>3. ASSUME NEW q \in Seq(Entries), NEW b \in BOOLEAN
        PROVE  LET x == [r EXCEPT !.replaying = TRUE, !.replay = q, !.truncated = b,
                          !.rested = FALSE, !.boundaryDirty = FALSE]
               IN  /\ PhaseInv(x) /\ ProbeInv(x) /\ x \in RecoveryState
                   /\ r.scheduled \/ r.pc # "idle" \/ ~r.initialized => WorkInv(x)
                   /\ Retried(x)
    <3> DEFINE x == [r EXCEPT !.replaying = TRUE, !.replay = q, !.truncated = b,
                          !.rested = FALSE, !.boundaryDirty = FALSE]
    <3>1. x \in RecoveryState
      BY DEF RecoveryState
    <3>2. PhaseInv(x)
      BY DEF PhaseInv, RecoveryState, Draining, Walking
    <3>3. ProbeInv(x) /\ Retried(x)
      BY DEF RecoveryState, ProbeInv, Retried
    <3>4. r.scheduled \/ r.pc # "idle" \/ ~r.initialized => WorkInv(x)
      BY DEF RecoveryState, WorkInv, Draining
    <3>5. QED
      BY <3>1, <3>2, <3>3, <3>4
  <2>4. QED
    BY <2>1, <2>2, <2>3
<1>4. QED
  BY <1>1, <1>2, <1>3

LEMMA StopDiscoveryPhase ==
    ASSUME NEW r \in RecoveryState, PhaseInv(r)
    PROVE  PhaseInv(StopDiscovery(r))
<1> DEFINE s == StopDiscovery(r)
<1>1. /\ s \in RecoveryState /\ Kept(r, s)
      /\ s = r \/ SearchStopped(s)
  BY StopDiscoveryIs
<1> HIDE DEF s
<1>2. SearchStopped(s) => PhaseInv(s)
  BY <1>1 DEF PhaseInv, Kept, SearchStopped, Draining, Walking
<1>3. QED
  BY <1>1, <1>2 DEF s

LEMMA ReadPhase ==
    ASSUME NEW r \in RecoveryState, PhaseInv(r), NEW s, NEW e, Reading(r, s, e)
    PROVE  PhaseInv(s)
<1>1. Kept(r, s) /\ s \in RecoveryState
  BY DEF Reading
<1>2. CASE SearchStopped(s)
  BY <1>1, <1>2 DEF PhaseInv, Kept, SearchStopped, Draining, Walking
<1>3. CASE Searching(r, s)
  <2>1. s.state = "ready" => r.state = "ready" /\ ~s.gap
    BY DEF Reading, PhaseInv
  <2>2. r.gap => s.gap
    BY DEF Reading
  <2>3. QED
    BY <1>1, <1>3, <2>1, <2>2 DEF PhaseInv, Kept, Searching, Draining, Walking
<1>4. QED
  BY <1>2, <1>3 DEF Reading

(* A slice that ends schedules the next, if there is work it could do. *)
LEMMA EndDrainControl ==
    ASSUME NEW r \in RecoveryState, PhaseInv(r), ProbeInv(r), r.pc \in {"live", "background"}
    PROVE  ControlInv(EndDrain(r))
<1> DEFINE s == [r EXCEPT !.pc = "idle", !.awaiting = FALSE, !.count = 0,
                       !.continuing = FALSE, !.processed = FALSE]
<1>1. s \in RecoveryState
  <2>1. 0 \in 0..RecoveryPerTick
    BY RecoveryAssumption
  <2>2. QED
    BY <2>1, ZenonT(60) DEF RecoveryState
<1>2. PhaseInv(s)
  BY DEF PhaseInv, RecoveryState, Draining, Walking
<1>3. ProbeInv(s)
  BY DEF ProbeInv, RecoveryState, Owns
<1>4. Retried(s)
  BY DEF Retried, RecoveryState
<1> DEFINE work == \/ RunnableQueue(s) \/ s.backfill
                   \/ ~s.closing /\ (s.replaying \/ s.leafDirty \/ s.deferred # <<>>)
<1>5. EndDrain(r) = IF work THEN Schedule(s) ELSE s
  BY DEF EndDrain
<1> HIDE DEF s
<1>6. ~work => WorkInv(s)
  BY DEF WorkInv
<1>7. QED
  BY <1>1, <1>2, <1>3, <1>4, <1>5, <1>6, ScheduleControl DEF ControlInv

-----------------------------------------------------------------------------
(* Coverage: what the helpers keep of it *)

(* What the coverage depends on. *)
SameSearch(r, s) ==
    /\ s.seen = r.seen /\ s.leafQueue = r.leafQueue /\ s.cursor = r.cursor
    /\ s.replay = r.replay /\ s.deferred = r.deferred /\ s.truncated = r.truncated
    /\ s.closing = r.closing /\ (Owns(s) => Owns(r)) /\ (r.gap => s.gap)
    /\ r.leafDirty => s.leafDirty

LEMMA CoverageSame ==
    ASSUME NEW r, NEW s, NEW k, NEW C, SameSearch(r, s), Coverage(r, k, C)
    PROVE  Coverage(s, k, C)
<1>1. /\ s.seen = r.seen /\ s.leafQueue = r.leafQueue /\ s.cursor = r.cursor
      /\ s.replay = r.replay /\ s.deferred = r.deferred /\ s.truncated = r.truncated
      /\ s.closing = r.closing /\ (Owns(s) => Owns(r)) /\ (r.gap => s.gap)
      /\ (r.leafDirty => s.leafDirty)
  BY DEF SameSearch
<1>2. Found(s) = Found(r) /\ (Exact(s) => Exact(r)) /\ (Walking(s) <=> Walking(r))
  BY <1>1 DEF Found, Exact, Walking
<1>3. \A e : InWalk(s, e) <=> InWalk(r, e)
  BY <1>1, <1>2 DEF InWalk
<1>4. Remembered(s, C)
  BY <1>1, <1>2 DEF Coverage, Remembered
<1>5. Replayed(s)
  BY <1>1, <1>2 DEF Coverage, Replayed
<1>6. Downward(s, k)
  BY <1>1, <1>2, <1>3 DEF Coverage, Downward
<1>7. Ahead(s) /\ Unasked(s, k)
  BY <1>1 DEF Coverage, Ahead, Unasked
<1>8. Findable(s, k)
  BY <1>1, <1>2, <1>3 DEF Coverage, Findable
<1>9. QED
  BY <1>4, <1>5, <1>6, <1>7, <1>8 DEF Coverage

(* A gap promises nothing any more. *)
LEMMA CoverageGap ==
    ASSUME NEW s, NEW k, NEW C, s.gap, Ahead(s), Unasked(s, k)
    PROVE  Coverage(s, k, C)
BY DEF Coverage, Remembered, Replayed, Downward, Findable, Exact

(* Asked for, and the leaf is to be looked at. *)
LEMMA CoverageAsked ==
    ASSUME NEW r, NEW s, NEW k, NEW C, SameSearch(r, s), Coverage(r, k, C),
           ~r.closing, s.leafDirty, NEW n
    PROVE  Coverage(s, IF Walking(r) THEN k ELSE n, C)
<1>1. Coverage(s, k, C)
  BY CoverageSame
<1>2. ~s.closing /\ (Walking(s) <=> Walking(r))
  BY DEF SameSearch, Walking
<1>3. Downward(s, n) /\ Unasked(s, n)
  BY <1>1, <1>2 DEF Coverage, Downward, Unasked
<1>4. ~Walking(r) => Findable(s, n)
  BY <1>2 DEF Findable
<1>5. QED
  BY <1>1, <1>3, <1>4 DEF Coverage

LEMMA CoverageCapture ==
    ASSUME NEW r \in RecoveryState, NEW k \in 0..log, NEW C, Coverage(r, k, C), PhaseInv(r),
           ~r.closing, ~r.replaying, log \in 0..MaxEntries
    PROVE  Coverage(Capture(r), k, C)
<1> DEFINE s == [r EXCEPT !.boundaryDirty = TRUE]
           t == [r EXCEPT !.replaying = TRUE, !.replay = Replay(log), !.truncated = log > SeenCapacity,
                          !.rested = FALSE, !.boundaryDirty = FALSE]
<1>1. CASE Capture(r) # t
  <2>1. Capture(r) = r \/ Capture(r) = s
    BY <1>1 DEF Capture
  <2>2. SameSearch(r, s) /\ SameSearch(r, r)
    BY DEF SameSearch, RecoveryState, Owns
  <2>3. QED
    BY <2>1, <2>2, CoverageSame
<1>2. CASE Capture(r) = t
  <2>0. SUFFICES Coverage(t, k, C)
    BY <1>2
  <2>1. /\ t.seen = r.seen /\ t.leafQueue = r.leafQueue /\ t.cursor = r.cursor
        /\ t.replay = Replay(log) /\ t.deferred = r.deferred /\ t.truncated = (log > SeenCapacity)
        /\ t.closing = r.closing /\ t.gap = r.gap /\ t.leafDirty = r.leafDirty
    BY DEF RecoveryState
  <2>2. log <= SeenCapacity => Replay(log) = [i \in 1..log |-> i]
    BY ReplayIs
  <2> HIDE DEF t
  <2>3. Exact(t) => log <= SeenCapacity
    <3>1. Exact(t) => ~(log > SeenCapacity)
      BY <2>1, Zenon DEF Exact
    <3>2. ~(log > SeenCapacity) => log <= SeenCapacity
      BY RecoveryAssumption
    <3>3. QED
      BY <3>1, <3>2
  <2>4. Exact(t) => Exact(r)
    BY <2>1 DEF Exact, PhaseInv
  <2>5. Found(t) = Found(r) /\ (\A e : InWalk(t, e) <=> InWalk(r, e))
    BY <2>1 DEF Found, InWalk
  <2>6. Remembered(t, C)
    BY <2>1, <2>5 DEF Coverage, Remembered
  <2>7. Replayed(t)
    <3>1. ASSUME Exact(t), NEW i \in DOMAIN t.replay
          PROVE  t.replay[i] = t.replay[1] + (i - 1) /\ t.replay[1] = 1
      <4>1. t.replay = [j \in 1..log |-> j] /\ i \in 1..log /\ log \in Nat
        BY <2>1, <2>2, <2>3, <3>1, RecoveryAssumption
      <4>2. 1 \in 1..log
        BY <4>1
      <4>3. QED
        BY <4>1, <4>2
    <3>2. QED
      BY <3>1 DEF Replayed
  <2>8. Downward(t, k)
    BY <2>1, <2>4, <2>5 DEF Coverage, Downward
  <2>9. Ahead(t) /\ Unasked(t, k)
    BY <2>1 DEF Coverage, Ahead, Unasked
  <2>10. Findable(t, k)
    <3>1. ASSUME Exact(t), NEW e \in 1..k PROVE e \in Range(t.replay)
      <4>1. t.replay = [j \in 1..log |-> j] /\ e \in 1..log
        BY <2>1, <2>2, <2>3, <3>1, RecoveryAssumption
      <4>2. QED
        BY <4>1 DEF Range
    <3>2. QED
      BY <3>1 DEF Findable
  <2>11. QED
    BY <2>6, <2>7, <2>8, <2>9, <2>10 DEF Coverage
<1>3. QED
  BY <1>1, <1>2

(* A slice of a walk: from is where it starts, a the oldest it takes. *)
LEMMA CoverageSlice ==
    ASSUME NEW r \in RecoveryState, NEW s \in RecoveryState, NEW k \in 0..log, NEW C,
           log \in 0..MaxEntries, Coverage(r, k, C), r.leafQueue = <<>>,
           s.seen = r.seen, s.replay = r.replay, s.deferred = r.deferred,
           s.truncated = r.truncated, s.closing = r.closing, Owns(s) => Owns(r), r.gap => s.gap,
           s.cursor = r.cursor, s.leafQueue = r.leafQueue
    PROVE  Coverage(LeafSlice(s), k, C)
<1> USE RecoveryAssumption
<1> DEFINE from == IF s.cursor # 0 THEN s.cursor ELSE log
           t == LeafSlice(s)
           c == t.cursor
<1>0. from \in Nat /\ from <= MaxEntries /\ MaxEntries \in Nat /\ r.cursor \in Nat /\ log \in Nat
      /\ k \in Nat /\ k <= log
  BY DEF RecoveryState
<1>1. PICK a \in 1..from + 1 :
             /\ Range(t.leafQueue) = a..from
             /\ \A j \in a..from : j \notin Found(s)
             /\ c \in 0..(a - 1)
             /\ \A e \in 1..from : (\A j \in e..from : j \notin Found(s))
                    => e \in a..from \/ (c # 0 /\ e <= c)
  <2> HIDE DEF from
  <2>1. from = IF s.cursor # 0 THEN s.cursor ELSE log
    BY DEF from
  <2>2. QED
    BY <2>1, SliceIs
<1>2. /\ t.seen = s.seen /\ t.replay = s.replay /\ t.deferred = s.deferred
      /\ t.truncated = s.truncated /\ t.closing = s.closing /\ t.gap = s.gap
      /\ t.owner = s.owner /\ t.cancelled = s.cancelled
  BY DEF LeafSlice, RecoveryState
<1>f. (s.cursor # 0 => from = r.cursor) /\ (s.cursor = 0 => from = log)
  OBVIOUS
<1> HIDE DEF from, t, c
<1>3. /\ Found(t) = Found(r) /\ Found(s) = Found(r) /\ (Exact(t) => Exact(r))
  BY <1>2 DEF Found, Exact, Owns
(* What is not found from e to where the slice starts is in the walk. *)
<1>4. ASSUME NEW e \in 1..from, \A j \in e..from : j \notin Found(r)
      PROVE  InWalk(t, e)
  <2>1. CASE e \in a..from
    BY <1>1, <2>1 DEF InWalk
  <2>2. CASE c # 0 /\ e <= c
    <3>1. \A j \in e..c : j \in e..from
      BY <1>0, <1>1
    <3>2. QED
      BY <1>3, <1>4, <2>2, <3>1 DEF InWalk, c
  <2>3. QED
    BY <1>1, <1>3, <1>4, <2>1, <2>2
<1>5. ASSUME NEW e \in Nat \ {0}, InWalk(r, e) PROVE InWalk(t, e)
  <2>1. Range(r.leafQueue) = {}
    BY DEF Range
  <2>2. r.cursor # 0 /\ e <= r.cursor /\ \A j \in e..r.cursor : j \notin Found(r)
    BY <1>5, <2>1 DEF InWalk
  <2>3. e \in 1..from /\ from = r.cursor
    BY <1>0, <1>f, <2>2
  <2>4. QED
    BY <1>4, <2>2, <2>3
(* Below an entry that was found, and below the slice: *)
<1>6. ASSUME Exact(t), r.closing => k # 0, NEW j \in Found(r) \cup Range(t.leafQueue), NEW e \in 1..j
      PROVE  e \in Found(t) \/ InWalk(t, e)
  <2>1. ASSUME NEW m \in Found(r), NEW x \in 1..m PROVE x \in Found(t) \/ InWalk(t, x)
    <3>1. x \in Found(r) \/ InWalk(r, x)
      BY <1>3, <1>6, <2>1 DEF Coverage, Downward
    <3>2. x \in Nat \ {0}
      BY <2>1 DEF Found, Entries
    <3>3. QED
      BY <1>3, <1>5, <3>1, <3>2
  <2>2. CASE j \in Found(r)
    BY <2>1, <2>2
  <2>3. CASE j \in a..from
    <3>1. e \in 1..from
      BY <1>0, <2>3
    <3>2. CASE \E m \in e..from : m \in Found(r)
      <4>1. PICK m \in Found(r) : m \in e..from
        BY <3>2
      <4>2. e \in 1..m
        BY <1>0, <3>1, <4>1
      <4>3. QED
        BY <2>1, <4>2
    <3>3. CASE ~ \E m \in e..from : m \in Found(r)
      BY <1>4, <3>1, <3>3
    <3>4. QED
      BY <3>2, <3>3
  <2>4. QED
    BY <1>1, <2>2, <2>3
<1>7. Remembered(t, C) /\ Replayed(t)
  BY <1>2, <1>3 DEF Coverage, Remembered, Replayed
<1>8. Downward(t, k)
  BY <1>2, <1>3, <1>6 DEF Downward
<1>9. Ahead(t) /\ Unasked(t, k)
  <2>1. \A j \in a..from : j > c
    BY <1>0, <1>1
  <2>2. QED
    BY <1>1, <1>2, <2>1 DEF Ahead, Unasked, Coverage, c
<1>10. Findable(t, k)
  <2>1. ASSUME Exact(t), NEW e \in 1..k
        PROVE  e \in Found(t) \/ e \in Range(t.replay) \/ InWalk(t, e)
    <3>1. e \in Found(r) \/ e \in Range(r.replay) \/ InWalk(r, e) \/ ~Walking(r)
      BY <1>3, <2>1 DEF Coverage, Findable
    <3>2. CASE InWalk(r, e)
      BY <1>0, <1>5, <3>2
    <3>3. CASE ~Walking(r)
      <4>1. r.cursor = 0 /\ from = log
        BY <1>f, <3>3 DEF Walking
      <4>2. e \in 1..from /\ k # 0
        BY <1>0, <2>1, <4>1
      <4>3. CASE \E m \in e..from : m \in Found(r)
        <5>1. PICK m \in Found(r) : m \in e..from
          BY <4>3
        <5>2. e \in 1..m
          BY <1>0, <4>2, <5>1
        <5>3. QED
          BY <1>6, <2>1, <4>2, <5>2
      <4>4. CASE ~ \E m \in e..from : m \in Found(r)
        BY <1>4, <4>2, <4>4
      <4>5. QED
        BY <4>3, <4>4
    <3>4. QED
      BY <1>2, <1>3, <3>1, <3>2, <3>3
  <2>2. QED
    BY <2>1 DEF Findable
<1>11. QED
  BY <1>7, <1>8, <1>9, <1>10 DEF Coverage, t

LEMMA RememberHas ==
    ASSUME NEW r \in RecoveryState, NEW e \in Entries
    PROVE  Contains(Remember(r, e).seen, e)
             <=> Contains(r.seen, e) \/ Len(r.seen) < SeenCapacity \/ ~r.replaying
<1> USE RecoveryAssumption
<1>1. ASSUME NEW q \in Seq(Entries) PROVE Contains(Append(q, e), e)
  BY DEF Contains
<1>2. r.seen \in Seq(Entries)
  BY DEF RecoveryState
<1>3. CASE Contains(r.seen, e)
  BY <1>3 DEF Remember
<1>4. CASE ~Contains(r.seen, e) /\ Len(r.seen) < SeenCapacity
  <2>1. Remember(r, e).seen = Append(r.seen, e)
    BY <1>4 DEF Remember, RecoveryState
  <2>2. QED
    BY <1>1, <1>2, <1>4, <2>1
<1>5. CASE ~Contains(r.seen, e) /\ ~(Len(r.seen) < SeenCapacity)
  <2> DEFINE d == StopDiscovery(r)
  <2>1. d \in RecoveryState /\ d.seen = r.seen
    BY StopDiscoveryIs
  <2>2. Remember(r, e) = IF r.replaying THEN d ELSE [d EXCEPT !.seen = Append(Tail(@), e)]
    BY <1>5 DEF Remember
  <2> HIDE DEF d
  <2>3. [d EXCEPT !.seen = Append(Tail(@), e)].seen = Append(Tail(r.seen), e)
    BY <2>1 DEF RecoveryState
  <2>4. Tail(r.seen) \in Seq(Entries)
    <3>1. r.seen # <<>>
      BY <1>2, <1>5
    <3>2. QED
      BY <1>2, <3>1, HeadTailProperties
  <2>5. Contains(Append(Tail(r.seen), e), e)
    BY <1>1, <2>4
  <2>6. QED
    BY <1>5, <2>1, <2>2, <2>3, <2>5
<1>6. QED
  BY <1>3, <1>4, <1>5

(* What was read and left no gap is found; and it is counted, or put off. *)
LEMMA ReadIs ==
    ASSUME NEW r \in RecoveryState, NEW x \in RecoveryState, NEW e \in Entries,
           x.seen = r.seen, x.replaying = r.replaying, x.runs = r.runs,
           x.discoveryStopped => x.gap, ~Process(x, e).gap
    PROVE  /\ Found(Process(x, e)) = Found(x) \cup {e}
           /\ counted \subseteq Counted(r, e)
           /\ Range(x.deferred) \subseteq Range(Process(x, e).deferred)
           /\ e \in Found(x) \cup Counted(r, e) \cup Range(Process(x, e).deferred)
<1> DEFINE s == Process(x, e)
<1>1. /\ Contains(x.seen, e) => s = x
      /\ ~Contains(x.seen, e) => /\ s.seen = Append(x.seen, e)
                                 /\ Resolved(x, e) => s.deferred = x.deferred
                                 /\ ~Resolved(x, e) => s.deferred = Append(x.deferred, e)
  BY ProcessIs DEF Reading
<1>2. x.seen \in Seq(Entries) /\ x.deferred \in Seq(Entries)
  BY DEF RecoveryState
<1>3. ASSUME NEW q \in Seq(Entries)
      PROVE  /\ \A z : Contains(Append(q, e), z) <=> Contains(q, z) \/ z = e
             /\ Range(Append(q, e)) = Range(q) \cup {e}
  <2>1. Append(q, e) \in Seq(Entries) /\ Len(Append(q, e)) = Len(q) + 1
        /\ \A i \in 1..Len(q) + 1 : Append(q, e)[i] = IF i <= Len(q) THEN q[i] ELSE e
    OBVIOUS
  <2>2. \A z : (\E i \in 1..Len(q) + 1 : Append(q, e)[i] = z) <=> (\E i \in 1..Len(q) : q[i] = z) \/ z = e
    <3>1. Len(q) \in Nat /\ Len(q) + 1 \in 1..Len(q) + 1 /\ ~(Len(q) + 1 <= Len(q))
      OBVIOUS
    <3>2. \A i \in 1..Len(q) : i \in 1..Len(q) + 1 /\ i <= Len(q)
      OBVIOUS
    <3>3. \A i \in 1..Len(q) + 1 : i <= Len(q) => i \in 1..Len(q)
      OBVIOUS
    <3> DEFINE a == Append(q, e)
    <3>4. \A i \in 1..Len(q) + 1 : a[i] = IF i <= Len(q) THEN q[i] ELSE e
      BY <2>1
    <3> HIDE DEF a
    <3>5. QED
      BY <3>1, <3>2, <3>3, <3>4 DEF a
  <2>3. \A z : Contains(Append(q, e), z) <=> Contains(q, z) \/ z = e
    BY <2>1, <2>2 DEF Contains
  <2>4. Range(Append(q, e)) = Range(q) \cup {e}
    <3>1. DOMAIN Append(q, e) = 1..Len(q) + 1 /\ DOMAIN q = 1..Len(q)
      BY <2>1
    <3>2. \A z : z \in Range(Append(q, e)) <=> z \in Range(q) \/ z = e
      BY <2>2, <3>1, Zenon DEF Range
    <3>3. QED
      BY <3>2
  <2>5. QED
    BY <2>3, <2>4
<1>4. counted \subseteq Counted(r, e)
  BY DEF Counted
<1> HIDE DEF s
<1>5. CASE Contains(x.seen, e)
  BY <1>1, <1>4, <1>5 DEF Found, s
<1>6. CASE ~Contains(x.seen, e)
  <2>1. Found(s) = Found(x) \cup {e}
    <3>1. \A z : Contains(s.seen, z) <=> Contains(x.seen, z) \/ z = e
      BY <1>1, <1>2, <1>3, <1>6
    <3>2. QED
      BY <3>1 DEF Found
  <2>2. Resolved(x, e) => e \in Counted(r, e)
    <3>1. Contains(Remember(x, e).seen, e)
      <4>1. ~Contains(Remember(x, e).seen, e) => s = Remember(x, e)
        BY <1>6 DEF Process, s
      <4>2. Contains(s.seen, e)
        BY <1>1, <1>2, <1>3, <1>6
      <4>3. QED
        BY <4>1, <4>2
    <3>2. Contains(Remember(r, e).seen, e)
      BY <3>1, RememberHas
    <3>3. Resolved(x, e) <=> Resolved(r, e)
      BY DEF Resolved
    <3>4. QED
      BY <1>6, <3>2, <3>3 DEF Counted
  <2>3. Range(x.deferred) \subseteq Range(s.deferred)
    BY <1>1, <1>2, <1>3, <1>6
  <2>4. ~Resolved(x, e) => e \in Range(s.deferred)
    BY <1>1, <1>2, <1>3, <1>6
  <2>5. QED
    BY <1>4, <2>1, <2>2, <2>3, <2>4 DEF s
<1>7. QED
  BY <1>5, <1>6

LEMMA HeadOfRange ==
    ASSUME NEW S, NEW q \in Seq(S), q # <<>>
    PROVE  /\ Range(q) = Range(Tail(q)) \cup {Head(q)}
           /\ Head(q) \in S /\ Tail(q) \in Seq(S) /\ Head(q) = q[1] /\ 1 \in DOMAIN q
           /\ Len(Tail(q)) = Len(q) - 1
           /\ \A i \in DOMAIN Tail(q) : i \in Nat /\ Tail(q)[i] = q[i + 1] /\ i + 1 \in DOMAIN q
<1>1. /\ Head(q) = q[1] /\ Head(q) \in S /\ Tail(q) \in Seq(S) /\ Len(Tail(q)) = Len(q) - 1
      /\ \A i \in 1..Len(q) - 1 : Tail(q)[i] = q[i + 1]
  BY HeadTailProperties
<1>2. Len(q) \in Nat /\ Len(q) >= 1 /\ DOMAIN q = 1..Len(q) /\ DOMAIN Tail(q) = 1..Len(q) - 1
  BY <1>1
<1>3. \A i \in DOMAIN Tail(q) : i \in Nat /\ Tail(q)[i] = q[i + 1] /\ i + 1 \in DOMAIN q
  BY <1>1, <1>2
<1>4. \A j \in DOMAIN q : j = 1 \/ (j - 1 \in DOMAIN Tail(q) /\ q[j] = Tail(q)[j - 1])
  BY <1>1, <1>2
<1>5. 1 \in DOMAIN q
  BY <1>2
<1>6. Range(q) = Range(Tail(q)) \cup {Head(q)}
  <2>1. ASSUME NEW z \in Range(q) PROVE z \in Range(Tail(q)) \cup {Head(q)}
    <3>1. PICK j \in DOMAIN q : z = q[j]
      BY DEF Range
    <3>2. CASE j = 1
      BY <1>1, <3>1, <3>2
    <3>3. CASE j - 1 \in DOMAIN Tail(q) /\ q[j] = Tail(q)[j - 1]
      BY <3>1, <3>3 DEF Range
    <3>4. QED
      BY <1>4, <3>2, <3>3
  <2>2. ASSUME NEW z \in Range(Tail(q)) PROVE z \in Range(q)
    <3>1. PICK i \in DOMAIN Tail(q) : z = Tail(q)[i]
      BY DEF Range
    <3>2. QED
      BY <1>3, <3>1 DEF Range
  <2>3. Head(q) \in Range(q)
    BY <1>1, <1>5 DEF Range
  <2>4. QED
    BY <2>1, <2>2, <2>3
<1>7. QED
  BY <1>1, <1>3, <1>5, <1>6

LEMMA CoverageLeafEntry ==
    ASSUME NEW r \in RecoveryState, NEW x \in RecoveryState, NEW k, NEW C, NEW D, NEW s, NEW e \in Entries,
           Coverage(r, k, C), r.leafQueue # <<>>, e = Head(r.leafQueue),
           x.leafQueue = Tail(r.leafQueue), x.seen = r.seen, x.replay = r.replay,
           x.deferred = r.deferred, x.truncated = r.truncated, x.closing = r.closing,
           x.gap = r.gap, x.cursor = r.cursor, x.owner = r.owner, x.cancelled = r.cancelled,
           Reading(x, s, e),
           ~s.gap => /\ Found(s) = Found(x) \cup {e} /\ C \subseteq D
                     /\ Range(x.deferred) \subseteq Range(s.deferred)
                     /\ e \in Found(x) \cup D \cup Range(s.deferred)
    PROVE  Coverage(s, k, D)
<1>1. /\ Range(r.leafQueue) = Range(x.leafQueue) \cup {e}
      /\ Range(x.leafQueue) \subseteq Entries
      /\ r.cursor \in Nat /\ \A j \in Entries : j \in Nat /\ j > 0
  <2>1. r.leafQueue \in Seq(Entries)
    BY DEF RecoveryState
  <2>2. Range(r.leafQueue) = Range(x.leafQueue) \cup {e} /\ x.leafQueue \in Seq(Entries)
    BY <2>1, HeadOfRange
  <2>3. Range(x.leafQueue) \subseteq Entries
    BY <2>2 DEF Range
  <2>4. r.cursor \in Nat /\ \A j \in Entries : j \in Nat /\ j > 0
    BY RecoveryAssumption DEF RecoveryState, Entries
  <2>5. QED
    BY <2>2, <2>3, <2>4
<1>2. s.leafQueue = x.leafQueue /\ s.closing = x.closing /\ s.owner = x.owner /\ s.cancelled = x.cancelled
  BY DEF Reading, Kept
<1>3. s.cursor \in {r.cursor, 0} /\ (s.truncated => r.truncated)
  BY DEF Reading, Searching, SearchStopped
<1>4. Ahead(s)
  BY <1>1, <1>2, <1>3 DEF Ahead, Coverage
<1>5. Unasked(s, k)
  BY <1>2, <1>3 DEF Unasked, Coverage
<1>6. CASE s.gap
  BY <1>4, <1>5, <1>6, CoverageGap
<1>7. CASE ~s.gap
  <2>1. /\ Found(s) = Found(r) \cup {e} /\ C \subseteq D
        /\ Range(r.deferred) \subseteq Range(s.deferred)
        /\ e \in Found(r) \cup D \cup Range(s.deferred)
    BY <1>7 DEF Found
  <2>2. /\ s.cursor = r.cursor /\ s.replay = r.replay /\ s.truncated = r.truncated /\ ~r.gap
    BY <1>7 DEF Reading, Searching
  <2>3. Exact(s) => Exact(r)
    BY <1>2, <2>2 DEF Exact, Owns
  <2>4. ASSUME NEW z, InWalk(r, z) PROVE z \in Found(s) \/ InWalk(s, z)
    <3>1. CASE z \in Range(r.leafQueue)
      BY <1>1, <1>2, <2>1, <3>1 DEF InWalk
    <3>2. CASE /\ r.cursor # 0 /\ z <= r.cursor
               /\ \A j \in z..r.cursor : j \notin Found(r)
      <4>1. e > r.cursor
        BY <1>1 DEF Coverage, Ahead
      <4>2. e \notin z..r.cursor
        BY <1>1, <4>1
      <4>3. QED
        BY <2>1, <2>2, <3>2, <4>2 DEF InWalk
    <3>3. QED
      BY <2>4, <3>1, <3>2 DEF InWalk
  <2>5. Remembered(s, D)
    <3>1. ~s.closing => Found(r) \subseteq C \cup Range(r.deferred)
      BY <1>2, <2>2 DEF Coverage, Remembered
    <3>2. QED
      BY <2>1, <3>1 DEF Remembered
  <2>6. Replayed(s)
    BY <2>1, <2>2, <2>3 DEF Replayed, Coverage
  <2>7. Downward(s, k)
    <3>1. ASSUME Exact(s), s.closing => k # 0, NEW j \in Found(s) \cup Range(s.leafQueue), NEW z \in 1..j
          PROVE  z \in Found(s) \/ InWalk(s, z)
      <4>1. j \in Found(r) \cup Range(r.leafQueue)
        BY <1>1, <1>2, <2>1
      <4>2. z \in Found(r) \/ InWalk(r, z)
        BY <1>2, <2>3, <3>1, <4>1 DEF Coverage, Downward
      <4>3. QED
        BY <2>1, <2>4, <4>2
    <3>2. QED
      BY <3>1 DEF Downward
  <2>8. Findable(s, k)
    <3>1. ASSUME Exact(s), NEW z \in 1..k
          PROVE  z \in Found(s) \/ z \in Range(s.replay) \/ InWalk(s, z)
      <4>1. z \in Found(r) \/ z \in Range(r.replay) \/ InWalk(r, z)
        BY <2>3, <3>1 DEF Coverage, Findable, Walking
      <4>2. QED
        BY <2>1, <2>2, <2>4, <4>1
    <3>2. QED
      BY <3>1 DEF Findable
  <2>9. QED
    BY <1>4, <1>5, <2>5, <2>6, <2>7, <2>8 DEF Coverage
<1>8. QED
  BY <1>6, <1>7

(* The next entry of the replay: everything older has been found. *)
LEMMA CoverageReplayEntry ==
    ASSUME NEW r \in RecoveryState, NEW x \in RecoveryState, NEW k \in Nat, NEW C, NEW D, NEW s, NEW e \in Entries,
           NEW y, Coverage(r, k, C), r.replay # <<>>, e = Head(r.replay),
           x.leafQueue = r.leafQueue, x.seen = r.seen, x.replay = r.replay,
           x.deferred = r.deferred, x.truncated = r.truncated, x.closing = r.closing, x.leafDirty = r.leafDirty,
           x.gap = r.gap, x.cursor = r.cursor, x.owner = r.owner, x.cancelled = r.cancelled,
           x.replaying = r.replaying, r.replaying,
           Reading(x, s, e),
           ~s.gap => /\ Found(s) = Found(x) \cup {e} /\ C \subseteq D
                     /\ Range(x.deferred) \subseteq Range(s.deferred)
                     /\ e \in Found(x) \cup D \cup Range(s.deferred),
           y.leafQueue = s.leafQueue, y.seen = s.seen, y.deferred = s.deferred,
           y.truncated = s.truncated, y.closing = s.closing, y.gap = s.gap, y.cursor = s.cursor,
           y.owner = s.owner, y.cancelled = s.cancelled, y.leafDirty = s.leafDirty,
           y.replay = IF s.replaying THEN Tail(s.replay) ELSE <<>>
    PROVE  Coverage(y, k, D)
<1>0. r.replay \in Seq(Entries)
  BY DEF RecoveryState
<1>1. /\ \A z \in Range(r.leafQueue) : z \in Nat /\ z > 0
      /\ r.cursor \in Nat /\ \A j \in Entries : j \in Nat /\ j > 0
  <2>1. r.leafQueue \in Seq(Entries)
    BY DEF RecoveryState
  <2>2. Range(r.leafQueue) \subseteq Entries
    BY <2>1 DEF Range
  <2>4. r.cursor \in Nat /\ \A j \in Entries : j \in Nat /\ j > 0
    BY RecoveryAssumption DEF RecoveryState, Entries
  <2>5. QED
    BY <2>2, <2>4
<1>2. /\ y.leafQueue = r.leafQueue /\ y.closing = r.closing /\ y.owner = r.owner
      /\ y.cancelled = r.cancelled /\ y.leafDirty = r.leafDirty
  BY DEF Reading, Kept
<1>3. y.cursor \in {r.cursor, 0} /\ (y.truncated => r.truncated)
  BY DEF Reading, Searching, SearchStopped
<1>4. Ahead(y)
  BY <1>1, <1>2, <1>3 DEF Ahead, Coverage
<1>5. Unasked(y, k)
  BY <1>2, <1>3 DEF Unasked, Coverage
<1>6. CASE y.gap
  BY <1>4, <1>5, <1>6, CoverageGap
<1>7. CASE ~y.gap
  <2>1. /\ Found(y) = Found(r) \cup {e} /\ C \subseteq D
        /\ Range(r.deferred) \subseteq Range(y.deferred)
        /\ e \in Found(r) \cup D \cup Range(y.deferred)
    BY <1>7 DEF Found
  <2>2. /\ y.cursor = r.cursor /\ y.truncated = r.truncated /\ ~r.gap
        /\ y.replay = Tail(r.replay)
    BY <1>7 DEF Reading, Searching
  <2>3. Exact(y) => Exact(r)
    BY <1>2, <2>2 DEF Exact, Owns
  <2>h. /\ Range(r.replay) = Range(y.replay) \cup {e}
        /\ e = r.replay[1] /\ 1 \in DOMAIN r.replay
        /\ \A i \in DOMAIN y.replay : i \in Nat /\ y.replay[i] = r.replay[i + 1] /\ i + 1 \in DOMAIN r.replay
    <3>1. /\ Range(r.replay) = Range(Tail(r.replay)) \cup {Head(r.replay)}
          /\ Head(r.replay) = r.replay[1] /\ 1 \in DOMAIN r.replay
          /\ \A i \in DOMAIN Tail(r.replay) :
                i \in Nat /\ Tail(r.replay)[i] = r.replay[i + 1] /\ i + 1 \in DOMAIN r.replay
      BY <1>0, HeadOfRange
    <3>2. QED
      BY <2>2, <3>1
  (* Everything up to the entry has been found now. *)
  <2>o. ASSUME Exact(y), NEW z \in 1..e PROVE z \in Found(y)
    <3>1. \A w \in 1..(r.replay[1] - 1) : w \in Found(r)
      BY <2>3, <2>h, <2>o DEF Coverage, Replayed
    <3>2. z = e \/ z \in 1..(e - 1)
      BY <1>1
    <3>3. QED
      BY <2>1, <2>h, <3>1, <3>2
  <2>4. ASSUME Exact(y), NEW z \in Nat \ {0}, InWalk(r, z) PROVE z \in Found(y) \/ InWalk(y, z)
    <3>1. CASE z \in Range(r.leafQueue)
      BY <1>2, <3>1 DEF InWalk
    <3>2. CASE /\ r.cursor # 0 /\ z <= r.cursor
               /\ \A j \in z..r.cursor : j \notin Found(r)
      <4>1. CASE z <= e
        <5>1. z \in 1..e
          BY <1>1, <4>1
        <5>2. QED
          BY <2>4, <2>o, <5>1
      <4>2. CASE ~(z <= e)
        <5>1. e \notin z..r.cursor
          BY <1>1, <4>2
        <5>2. QED
          BY <2>1, <2>2, <3>2, <5>1 DEF InWalk
      <4>3. QED
        BY <4>1, <4>2
    <3>3. QED
      BY <2>4, <3>1, <3>2 DEF InWalk
  <2>5. Remembered(y, D)
    <3>1. ~y.closing => Found(r) \subseteq C \cup Range(r.deferred)
      BY <1>2, <2>2 DEF Coverage, Remembered
    <3>2. QED
      BY <2>1, <3>1 DEF Remembered
  <2>6. Replayed(y)
    <3>1. ASSUME Exact(y), NEW i \in DOMAIN y.replay
          PROVE  /\ y.replay[i] = y.replay[1] + (i - 1)
                 /\ \A z \in 1..(y.replay[1] - 1) : z \in Found(y)
      <4>1. /\ i \in Nat /\ y.replay[i] = r.replay[i + 1] /\ i + 1 \in DOMAIN r.replay
        BY <2>h, <3>1
      <4>2. r.replay[i + 1] = e + ((i + 1) - 1)
        BY <2>3, <2>h, <3>1, <4>1 DEF Coverage, Replayed
      <4>3. 1 \in DOMAIN y.replay
        <5>1. y.replay \in Seq(Entries)
          BY <1>0, <2>2, HeadOfRange
        <5>2. QED
          BY <3>1, <5>1
      <4>4. y.replay[1] = r.replay[1 + 1] /\ 1 + 1 \in DOMAIN r.replay
        BY <2>h, <4>3
      <4>5. r.replay[1 + 1] = e + ((1 + 1) - 1)
        BY <2>3, <2>h, <3>1, <4>4 DEF Coverage, Replayed
      <4>6. y.replay[1] = e + 1 /\ y.replay[i] = e + i /\ e \in Nat
        BY <1>1, <4>1, <4>2, <4>4, <4>5
      <4>7. y.replay[1] - 1 = e /\ y.replay[i] = y.replay[1] + (i - 1)
        <5>1. (e + 1) - 1 = e /\ e + i = (e + 1) + (i - 1)
          BY <4>1, <4>6
        <5>2. QED
          BY <4>6, <5>1
      <4>8. QED
        BY <2>o, <3>1, <4>7
    <3>2. QED
      BY <3>1 DEF Replayed
  <2>7. Downward(y, k)
    <3>1. ASSUME Exact(y), y.closing => k # 0, NEW j \in Found(y) \cup Range(y.leafQueue), NEW z \in 1..j
          PROVE  z \in Found(y) \/ InWalk(y, z)
      <4>1. CASE j = e
        BY <2>o, <3>1, <4>1
      <4>2. CASE j \in Found(r) \cup Range(r.leafQueue)
        <5>1. z \in Found(r) \/ InWalk(r, z)
          BY <1>2, <2>3, <3>1, <4>2 DEF Coverage, Downward
        <5>2. z \in Nat \ {0}
          BY <1>1, <4>2 DEF Found
        <5>3. QED
          BY <2>1, <2>4, <3>1, <5>1, <5>2
      <4>3. QED
        BY <1>2, <2>1, <4>1, <4>2
    <3>2. QED
      BY <3>1 DEF Downward
  <2>8. Findable(y, k)
    <3>1. ASSUME Exact(y), NEW z \in 1..k
          PROVE  z \in Found(y) \/ z \in Range(y.replay) \/ InWalk(y, z) \/ (y.leafDirty /\ ~Walking(y))
      <4>1. z \in Found(r) \/ z \in Range(r.replay) \/ InWalk(r, z) \/ (r.leafDirty /\ ~Walking(r))
        BY <2>3, <3>1 DEF Coverage, Findable
      <4>2. z \in Nat \ {0} /\ (Walking(y) <=> Walking(r))
        BY <1>2, <2>2 DEF Walking
      <4>3. CASE z \in Range(r.replay)
        BY <2>1, <2>h, <4>3
      <4>4. CASE z \in Found(r) \/ InWalk(r, z)
        BY <2>1, <2>4, <3>1, <4>2, <4>4
      <4>5. CASE r.leafDirty /\ ~Walking(r)
        BY <1>2, <4>2, <4>5
      <4>6. QED
        BY <4>1, <4>3, <4>4, <4>5
    <3>2. QED
      BY <3>1 DEF Findable
  <2>9. QED
    BY <1>4, <1>5, <2>5, <2>6, <2>7, <2>8 DEF Coverage
<1>8. QED
  BY <1>6, <1>7

LEMMA SameSteps ==
    ASSUME NEW r \in RecoveryState
    PROVE  /\ SameSearch(r, r) /\ SameSearch(r, Gap(r)) /\ SameSearch(r, Schedule(r))
           /\ SameSearch(r, LookAtLeaf(r)) /\ LookAtLeaf(r).leafDirty
           /\ SameSearch(r, EndDrain(r)) /\ SameSearch(r, [r EXCEPT !.count = RecoveryPerTick])
<1>1. ASSUME NEW x \in RecoveryState
      PROVE  /\ SameSearch(x, x) /\ SameSearch(x, Schedule(x)) /\ Schedule(x).leafDirty = x.leafDirty
             /\ Schedule(x).owner = x.owner /\ Schedule(x).cancelled = x.cancelled
  <2> DEFINE y == [x EXCEPT !.scheduled = TRUE]
  <2>1. Schedule(x) \in {x, y}
    BY DEF Schedule
  <2>2. SameSearch(x, x)
    BY DEF SameSearch
  <2>3. SameSearch(x, y) /\ y.leafDirty = x.leafDirty
        /\ y.owner = x.owner /\ y.cancelled = x.cancelled
    BY DEF SameSearch, RecoveryState, Owns
  <2> HIDE DEF y
  <2>4. QED
    BY <2>1, <2>2, <2>3
<1>2. SameSearch(r, Gap(r))
  <2>1. Gap(r).truncated = r.truncated /\ Kept(r, Gap(r)) /\ Gap(r).gap
        /\ Searching(r, Gap(r)) /\ Gap(r).seen = r.seen /\ Gap(r).deferred = r.deferred
    BY GapIs DEF Searching
  <2>2. QED
    BY <2>1 DEF SameSearch, Kept, Searching, Owns
<1>3. SameSearch(r, LookAtLeaf(r)) /\ LookAtLeaf(r).leafDirty
  <2> DEFINE x == [r EXCEPT !.leafDirty = TRUE]
  <2>1. x \in RecoveryState /\ SameSearch(r, x) /\ x.leafDirty
    BY DEF SameSearch, RecoveryState, Owns
  <2> HIDE DEF x
  <2>2. SameSearch(x, Schedule(x)) /\ Schedule(x).leafDirty = x.leafDirty
    BY <1>1, <2>1
  <2>3. SameSearch(r, Schedule(x))
    BY <2>1, <2>2 DEF SameSearch
  <2>4. QED
    BY <2>1, <2>2, <2>3 DEF LookAtLeaf, x
<1>4. SameSearch(r, EndDrain(r))
  <2> DEFINE x == [r EXCEPT !.pc = "idle", !.awaiting = FALSE, !.count = 0,
                         !.continuing = FALSE, !.processed = FALSE]
  <2>1. SameSearch(r, x)
    BY DEF SameSearch, RecoveryState, Owns
  <2>2. x \in RecoveryState
    <3>1. 0 \in 0..RecoveryPerTick
      BY RecoveryAssumption
    <3>2. QED
      BY <3>1 DEF RecoveryState
  <2>3. EndDrain(r) \in {x, Schedule(x)}
    BY DEF EndDrain
  <2> HIDE DEF x
  <2>4. SameSearch(x, Schedule(x))
    BY <1>1, <2>2
  <2>5. SameSearch(r, Schedule(x))
    BY <2>1, <2>4 DEF SameSearch
  <2>6. QED
    BY <2>1, <2>3, <2>5
<1>5. SameSearch(r, [r EXCEPT !.count = RecoveryPerTick])
  BY DEF SameSearch, RecoveryState, Owns
<1>6. QED
  BY <1>1, <1>2, <1>3, <1>4, <1>5

LEMMA SameTwice ==
    ASSUME NEW r, NEW s, NEW t, SameSearch(r, s), SameSearch(s, t)
    PROVE  SameSearch(r, t)
BY DEF SameSearch

(* Time that is up changes nothing that was said. *)
LEMMA TimedControl ==
    ASSUME NEW r \in RecoveryState, ControlInv(r), NEW s \in Timed(r)
    PROVE  ControlInv(s) /\ SameSearch(r, s)
<1> DEFINE t == [r EXCEPT !.count = RecoveryPerTick]
<1>1. PhaseInv(t)
  BY DEF ControlInv, PhaseInv, RecoveryState, Draining, Walking
<1>2. ProbeInv(t)
  BY DEF ControlInv, ProbeInv, RecoveryState, Owns
<1>3. WorkInv(t)
  BY DEF ControlInv, WorkInv, RecoveryState, Owns, Draining, RunnableQueue
<1>4. Retried(t)
  <2>1. ~More(t)
    BY RecoveryAssumption DEF More, RecoveryState
  <2>2. QED
    BY <2>1 DEF Retried
<1>5. QED
  BY <1>1, <1>2, <1>3, <1>4, SameSteps DEF ControlInv, Timed

-----------------------------------------------------------------------------
(* Every step keeps the invariant *)

RecoveryIInv == RecTypes /\ RecoveryInv

LEMMA RecoveryFacts ==
    ASSUME RecoveryIInv
    PROVE  /\ rec \in RecoveryState /\ log \in 0..MaxEntries /\ known \in 0..log /\ known \in Nat
           /\ PhaseInv(rec) /\ ProbeInv(rec) /\ WorkInv(rec) /\ Retried(rec)
           /\ Coverage(rec, known, counted)
           /\ Free => rec.pc \in {"idle", "live", "background"}
<1>1. rec \in RecoveryState /\ log \in 0..MaxEntries /\ known \in 0..MaxEntries /\ known <= log
  BY DEF RecoveryIInv, RecTypes, RecType, RecoveryInv
<1>2. PhaseInv(rec) /\ ProbeInv(rec) /\ WorkInv(rec) /\ Retried(rec) /\ Coverage(rec, known, counted)
  BY DEF RecoveryIInv, RecoveryInv, ControlInv
<1>3. Free => rec.pc \in {"idle", "live", "background"}
  BY <1>2 DEF Free, PhaseInv, Draining
<1>4. known \in 0..log /\ known \in Nat
  BY <1>1, RecoveryAssumption
<1>5. QED
  BY <1>1, <1>2, <1>3, <1>4

LEMMA AskedCovers ==
    ASSUME RecoveryIInv, NEW s, SameSearch(rec, s), s.leafDirty, ~rec.closing, known' = Asked, log' = log
    PROVE  known' <= log' /\ Coverage(s, known', counted)
<1>1. known \in 0..log /\ log \in 0..MaxEntries /\ Coverage(rec, known, counted)
  BY RecoveryFacts
<1>2. Coverage(s, IF Walking(rec) THEN known ELSE log, counted)
  BY <1>1, CoverageAsked
<1>3. Asked <= log
  BY <1>1, RecoveryAssumption DEF Asked
<1>4. QED
  BY <1>2, <1>3 DEF Asked

LEMMA InitializeInv == ASSUME RecoveryIInv, Initialize PROVE RecoveryInv'
<1> DEFINE r == [rec EXCEPT !.initialized = TRUE, !.idle = TRUE]
<1>1. /\ rec \in RecoveryState /\ known \in 0..log
      /\ PhaseInv(rec) /\ ProbeInv(rec) /\ WorkInv(rec) /\ Retried(rec)
      /\ Coverage(rec, known, counted) /\ known <= log
  BY RecoveryFacts DEF RecoveryIInv, RecoveryInv
<1>2. r \in RecoveryState /\ SameSearch(rec, r)
  BY <1>1 DEF RecoveryState, SameSearch, Owns
<1>3. PhaseInv(r) /\ ProbeInv(r) /\ Retried(r)
  <2>1. PhaseInv(r)
    BY <1>1 DEF PhaseInv, RecoveryState, Draining, Walking
  <2>2. ProbeInv(r) /\ Retried(r)
    BY <1>1 DEF ProbeInv, Retried, RecoveryState, Owns, More
  <2>3. QED
    BY <2>1, <2>2
<1>4. rec' = Schedule(r) /\ log' = log /\ counted' = counted /\ known' = known
  BY DEF Initialize
<1> HIDE DEF r
<1>5. ControlInv(Schedule(r)) /\ SameSearch(r, Schedule(r))
  BY <1>2, <1>3, ScheduleControl, SameSteps DEF ControlInv
<1>6. Coverage(Schedule(r), known, counted)
  BY <1>1, <1>2, <1>5, CoverageSame
<1>7. QED
  BY <1>1, <1>4, <1>5, <1>6 DEF RecoveryInv

LEMMA AppendEntryInv == ASSUME RecoveryIInv, AppendEntry PROVE RecoveryInv'
<1>1. known \in 0..log /\ log \in 0..MaxEntries
  BY RecoveryFacts
<1>2. known <= log + 1
  BY <1>1, RecoveryAssumption
<1>3. log' = log + 1 /\ rec' = rec /\ counted' = counted /\ known' = known
  BY DEF AppendEntry
<1>4. QED
  BY <1>2, <1>3 DEF RecoveryInv, RecoveryIInv

LEMMA NoteEntryInv ==
    ASSUME RecoveryIInv, NEW e \in Entries, NoteEntry(e) \/ PendingExpires(e), RecTypes'
    PROVE  RecoveryInv'
<1>1. /\ rec \in RecoveryState /\ known \in 0..log
      /\ PhaseInv(rec) /\ ProbeInv(rec) /\ WorkInv(rec) /\ Retried(rec)
      /\ Coverage(rec, known, counted) /\ known <= log
      /\ rec.pc # "leaf"
  BY RecoveryFacts DEF RecoveryIInv, RecoveryInv, NoteEntry, PendingExpires
<1>2. ASSUME NEW p \in SUBSET (1..MaxEntries + 1)
      PROVE  LET r == [rec EXCEPT !.pending = p] IN
             /\ r \in RecoveryState /\ SameSearch(rec, r) /\ r.pc = rec.pc
             /\ PhaseInv(r) /\ ProbeInv(r) /\ WorkInv(r) /\ Retried(r)
  <2> DEFINE r == [rec EXCEPT !.pending = p]
  <2>1. r \in RecoveryState /\ SameSearch(rec, r) /\ r.pc = rec.pc
    BY <1>1 DEF RecoveryState, SameSearch, Owns
  <2>2. PhaseInv(r)
    BY <1>1 DEF PhaseInv, RecoveryState, Draining, Walking
  <2>3. ProbeInv(r) /\ Retried(r)
    BY <1>1 DEF ProbeInv, Retried, RecoveryState, Owns, More
  <2>4. WorkInv(r)
    BY <1>1 DEF WorkInv, RecoveryState, Owns, Draining, RunnableQueue
  <2>5. QED
    BY <2>1, <2>2, <2>3, <2>4
<1>p. rec.pending \cup {e} \in SUBSET (1..MaxEntries + 1) /\ rec.pending \ {e} \in SUBSET (1..MaxEntries + 1)
  BY <1>1, RecoveryAssumption DEF RecoveryState, Entries
<1>3. CASE NoteEntry(e) /\ Cardinality(rec.pending) < Orphans
  <2> DEFINE r == [rec EXCEPT !.pending = rec.pending \cup {e}]
  <2>1. /\ r \in RecoveryState /\ SameSearch(rec, r) /\ r.pc = rec.pc
        /\ PhaseInv(r) /\ ProbeInv(r) /\ WorkInv(r) /\ Retried(r)
    BY <1>2, <1>p
  <2>2. rec' = LookAtLeaf(r) /\ known' = Asked /\ log' = log /\ counted' = counted /\ ~rec.closing
    BY <1>3 DEF NoteEntry
  <2> HIDE DEF r
  <2>3. ControlInv(LookAtLeaf(r)) /\ SameSearch(r, LookAtLeaf(r)) /\ LookAtLeaf(r).leafDirty
    BY <1>1, <2>1, LookControl, SameSteps DEF ControlInv
  <2>4. known' <= log' /\ Coverage(LookAtLeaf(r), known', counted)
    BY <2>1, <2>2, <2>3, SameTwice, AskedCovers
  <2>5. QED
    BY <2>2, <2>3, <2>4 DEF RecoveryInv
<1>4. CASE NoteEntry(e) /\ ~(Cardinality(rec.pending) < Orphans)
  <2>1. rec' = Gap(rec) /\ log' = log /\ counted' = counted /\ known' = known
    BY <1>4 DEF NoteEntry
  <2>2. ControlInv(Gap(rec)) /\ Coverage(Gap(rec), known, counted)
    BY <1>1, GapControl, SameSteps, CoverageSame DEF ControlInv
  <2>3. QED
    BY <1>1, <2>1, <2>2 DEF RecoveryInv
<1>5. CASE PendingExpires(e)
  <2> DEFINE r == [rec EXCEPT !.pending = rec.pending \ {e}]
  <2>1. /\ r \in RecoveryState /\ SameSearch(rec, r) /\ r.pc = rec.pc
        /\ PhaseInv(r) /\ ProbeInv(r) /\ WorkInv(r) /\ Retried(r)
    BY <1>2, <1>p
  <2>2. rec' = Gap(r) /\ log' = log /\ counted' = counted /\ known' = known
    BY <1>5 DEF PendingExpires
  <2> HIDE DEF r
  <2>3. ControlInv(Gap(r)) /\ SameSearch(r, Gap(r))
    BY <2>1, GapControl, SameSteps DEF ControlInv
  <2>4. Coverage(Gap(r), known, counted)
    BY <1>1, <2>1, <2>3, SameTwice, CoverageSame
  <2>5. QED
    BY <1>1, <2>2, <2>3, <2>4 DEF RecoveryInv
<1>6. QED
  BY <1>3, <1>4, <1>5

LEMMA BoundaryInv == ASSUME RecoveryIInv, Boundary \/ IdleProbe PROVE RecoveryInv'
<1>1. /\ rec \in RecoveryState
      /\ PhaseInv(rec) /\ Retried(rec) /\ rec.pc # "leaf"
  BY RecoveryFacts DEF Boundary, IdleProbe
<1>2. CASE Boundary
  <2> DEFINE r == [rec EXCEPT !.boundaryDirty = TRUE]
  <2>1. /\ r \in RecoveryState /\ SameSearch(rec, r) /\ r.pc = rec.pc
    BY <1>1 DEF RecoveryState, SameSearch, Owns
  <2>2. PhaseInv(r)
    BY <1>1, <1>2 DEF PhaseInv, RecoveryState, Draining, Walking, Boundary
  <2>3. Retried(r)
    BY <1>1 DEF Retried, RecoveryState, More
  <2>4. rec' = LookAtLeaf(r) /\ known' = Asked /\ log' = log /\ counted' = counted /\ ~rec.closing
    BY <1>2 DEF Boundary
  <2> HIDE DEF r
  <2>5. ControlInv(LookAtLeaf(r)) /\ SameSearch(r, LookAtLeaf(r)) /\ LookAtLeaf(r).leafDirty
    BY <1>1, <2>1, <2>2, <2>3, LookControl, SameSteps DEF ControlInv
  <2>6. known' <= log' /\ Coverage(LookAtLeaf(r), known', counted)
    BY <2>1, <2>4, <2>5, SameTwice, AskedCovers
  <2>7. QED
    BY <2>4, <2>5, <2>6 DEF RecoveryInv
<1>3. CASE IdleProbe
  <2>1. rec' = LookAtLeaf(rec) /\ known' = Asked /\ log' = log /\ counted' = counted /\ ~rec.closing
    BY <1>3 DEF IdleProbe
  <2>2. ControlInv(LookAtLeaf(rec)) /\ SameSearch(rec, LookAtLeaf(rec)) /\ LookAtLeaf(rec).leafDirty
    BY <1>1, LookControl, SameSteps DEF ControlInv
  <2>3. known' <= log' /\ Coverage(LookAtLeaf(rec), known', counted)
    BY <2>1, <2>2, AskedCovers
  <2>4. QED
    BY <2>1, <2>2, <2>3 DEF RecoveryInv
<1>4. QED
  BY <1>2, <1>3

LEMMA ReconcileInv == ASSUME RecoveryIInv, ReconcileSnapshot PROVE RecoveryInv'
<1>1. /\ rec \in RecoveryState /\ known \in 0..log /\ log \in 0..MaxEntries
      /\ PhaseInv(rec) /\ ProbeInv(rec) /\ WorkInv(rec) /\ Retried(rec)
      /\ Coverage(rec, known, counted) /\ known <= log
      /\ rec.pc # "leaf"
  BY RecoveryFacts DEF RecoveryIInv, RecoveryInv, ReconcileSnapshot
<1>0. log' = log /\ counted' = counted /\ ~rec.closing /\ ~rec.discoveryStopped /\ Owns(rec)
  BY DEF ReconcileSnapshot
<1>2. CASE ~rec.replaying /\ log = Len(rec.seen)
  <2> DEFINE r == [rec EXCEPT !.boundaryDirty = FALSE, !.timer = FALSE]
  <2>1. rec' = r /\ known' = known
    BY <1>2 DEF ReconcileSnapshot
  <2>2. SameSearch(rec, r)
    BY <1>1 DEF RecoveryState, SameSearch, Owns
  <2>3. PhaseInv(r)
    BY <1>1 DEF PhaseInv, RecoveryState, Draining, Walking
  <2>4. ProbeInv(r) /\ Retried(r)
    BY <1>1 DEF ProbeInv, Retried, RecoveryState, More
  <2>5. WorkInv(r)
    BY <1>1 DEF WorkInv, RecoveryState, Owns, Draining, RunnableQueue
  <2> HIDE DEF r
  <2>6. Coverage(r, known, counted)
    BY <1>1, <2>2, CoverageSame
  <2>7. QED
    BY <1>0, <1>1, <2>1, <2>3, <2>4, <2>5, <2>6 DEF RecoveryInv, ControlInv
<1>3. CASE ~(~rec.replaying /\ log = Len(rec.seen))
  <2> DEFINE x == [rec EXCEPT !.state = "recovering", !.boundaryDirty = TRUE]
             r == LookAtLeaf(x)
  <2>1. rec' = (IF ~r.replaying /\ r.rested THEN Capture(r) ELSE r) /\ known' = Asked
    BY <1>3 DEF ReconcileSnapshot
  <2>2. x \in RecoveryState /\ SameSearch(rec, x) /\ x.pc = rec.pc /\ x.closing = rec.closing
        /\ x.initialized = rec.initialized /\ Owns(x)
    BY <1>0, <1>1 DEF RecoveryState, SameSearch, Owns
  <2>3. PhaseInv(x)
    BY <1>0, <1>1 DEF PhaseInv, RecoveryState, Draining, Walking
  <2>4. Retried(x)
    BY <1>1 DEF Retried, RecoveryState, More
  <2> HIDE DEF x
  <2>5. ControlInv(r) /\ SameSearch(x, r) /\ r.leafDirty
    BY <1>1, <2>2, <2>3, <2>4, LookControl, SameSteps DEF ControlInv
  <2>6. /\ r \in RecoveryState /\ ~r.closing /\ Owns(r)
        /\ r.scheduled \/ r.pc # "idle" \/ ~r.initialized
    <3> DEFINE y == [x EXCEPT !.leafDirty = TRUE]
    <3>1. y \in RecoveryState /\ ~y.closing /\ Owns(y)
      BY <1>0, <2>2 DEF RecoveryState, Owns
    <3> HIDE DEF y
    <3>2. r = (IF y.initialized /\ ~y.closing /\ ~Draining(y) /\ Owns(y)
               THEN [y EXCEPT !.scheduled = TRUE] ELSE y)
      BY DEF LookAtLeaf, Schedule, y
    <3>3. CASE y.initialized /\ ~Draining(y)
      <4>1. r = [y EXCEPT !.scheduled = TRUE]
        BY <3>1, <3>2, <3>3
      <4>2. /\ [y EXCEPT !.scheduled = TRUE] \in RecoveryState
            /\ [y EXCEPT !.scheduled = TRUE].scheduled
            /\ [y EXCEPT !.scheduled = TRUE].closing = y.closing
            /\ [y EXCEPT !.scheduled = TRUE].owner = y.owner
            /\ [y EXCEPT !.scheduled = TRUE].cancelled = y.cancelled
        BY <3>1 DEF RecoveryState
      <4> HIDE DEF r
      <4>3. QED
        BY <3>1, <4>1, <4>2 DEF Owns
    <3>4. CASE ~(y.initialized /\ ~Draining(y))
      BY <3>1, <3>2, <3>4 DEF Draining
    <3>5. QED
      BY <3>3, <3>4
  <2>7. known' <= log' /\ Coverage(r, known', counted)
    BY <1>0, <2>1, <2>2, <2>5, SameTwice, AskedCovers
  <2> HIDE DEF r
  <2>8. CASE ~r.replaying /\ r.rested
    <3>1. known' \in 0..log
      <4>1. known' = IF Walking(rec) THEN known ELSE log
        BY <2>1 DEF Asked
      <4>2. QED
        BY <1>1, <4>1, RecoveryAssumption
    <3>2. Coverage(Capture(r), known', counted)
      BY <1>1, <2>5, <2>6, <2>7, <2>8, <3>1, CoverageCapture DEF ControlInv
    <3>3. ControlInv(Capture(r))
      BY <1>1, <2>5, <2>6, <2>8, CaptureControl DEF ControlInv
    <3>4. QED
      BY <1>0, <2>1, <2>7, <2>8, <3>2, <3>3 DEF RecoveryInv
  <2>9. CASE ~(~r.replaying /\ r.rested)
    BY <1>0, <2>1, <2>5, <2>7, <2>9 DEF RecoveryInv
  <2>10. QED
    BY <2>8, <2>9
<1>4. QED
  BY <1>2, <1>3

LEMMA IntervalInv == ASSUME RecoveryIInv, IntervalPasses PROVE RecoveryInv'
<1>1. /\ rec \in RecoveryState /\ known \in 0..log /\ log \in 0..MaxEntries
      /\ PhaseInv(rec) /\ ProbeInv(rec) /\ WorkInv(rec) /\ Retried(rec)
      /\ Coverage(rec, known, counted) /\ known <= log
  BY RecoveryFacts DEF RecoveryIInv, RecoveryInv
<1>0. log' = log /\ counted' = counted /\ known' = known
  BY DEF IntervalPasses
<1> DEFINE r == [rec EXCEPT !.rested = TRUE]
           q == [r EXCEPT !.timer = FALSE]
<1>2. rec' = (IF ~r.timer THEN r
              ELSE Schedule(IF ~r.replaying /\ r.boundaryDirty /\ ~r.closing
                            THEN Capture(q) ELSE q))
  BY DEF IntervalPasses
<1>3. /\ r \in RecoveryState /\ SameSearch(rec, r)
      /\ PhaseInv(r) /\ ProbeInv(r) /\ WorkInv(r) /\ Retried(r)
  <2>1. r \in RecoveryState /\ SameSearch(rec, r)
    BY <1>1 DEF RecoveryState, SameSearch, Owns
  <2>2. PhaseInv(r)
    BY <1>1 DEF PhaseInv, RecoveryState, Draining, Walking
  <2>3. ProbeInv(r) /\ Retried(r)
    BY <1>1 DEF ProbeInv, Retried, RecoveryState, Owns, More
  <2>4. WorkInv(r)
    BY <1>1 DEF WorkInv, RecoveryState, Owns, Draining, RunnableQueue
  <2>5. QED
    BY <2>1, <2>2, <2>3, <2>4
<1> HIDE DEF r
<1>4. /\ q \in RecoveryState /\ SameSearch(r, q) /\ PhaseInv(q) /\ Retried(q)
      /\ q.replaying = r.replaying /\ q.boundaryDirty = r.boundaryDirty /\ q.closing = r.closing
      /\ q.owner = r.owner /\ q.cancelled = r.cancelled
  <2>1. q \in RecoveryState /\ SameSearch(r, q)
    BY <1>3, ZenonT(60) DEF RecoveryState, SameSearch, Owns
  <2>2. PhaseInv(q)
    BY <1>3 DEF PhaseInv, RecoveryState, Draining, Walking
  <2>3. Retried(q)
    BY <1>3 DEF Retried, RecoveryState, More
  <2>4. /\ q.replaying = r.replaying /\ q.boundaryDirty = r.boundaryDirty /\ q.closing = r.closing
        /\ q.owner = r.owner /\ q.cancelled = r.cancelled
    BY <1>3 DEF RecoveryState
  <2>5. QED
    BY <2>1, <2>2, <2>3, <2>4
<1> HIDE DEF q
<1>5. Coverage(q, known, counted)
  BY <1>1, <1>3, <1>4, SameTwice, CoverageSame
<1>6. ASSUME NEW x \in RecoveryState, PhaseInv(x), ProbeInv(x), Retried(x), Coverage(x, known, counted)
      PROVE  ControlInv(Schedule(x)) /\ Coverage(Schedule(x), known, counted)
  BY <1>6, ScheduleControl, SameSteps, CoverageSame DEF ControlInv
<1>7. CASE ~r.timer
  <2>1. rec' = r
    BY <1>2, <1>7
  <2>2. Coverage(r, known, counted)
    BY <1>1, <1>3, CoverageSame
  <2>3. QED
    BY <1>0, <1>1, <1>3, <2>1, <2>2 DEF RecoveryInv, ControlInv
<1>8. CASE r.timer /\ ~r.replaying /\ r.boundaryDirty /\ ~r.closing
  <2>1. rec' = Schedule(Capture(q))
    BY <1>2, <1>8
  <2>2. Capture(q) \in RecoveryState /\ PhaseInv(Capture(q)) /\ Retried(Capture(q))
        /\ (Owns(q) => ProbeInv(Capture(q)))
    BY <1>1, <1>4, <1>8, CaptureControl
  <2>3. Coverage(Capture(q), known, counted)
    BY <1>1, <1>4, <1>5, <1>8, CoverageCapture
  <2>4. ~Owns(q) => ProbeInv(Capture(q))
    <3>1. ~Owns(q) => Capture(q) \in {q, [q EXCEPT !.boundaryDirty = TRUE]}
      BY DEF Capture
    <3>2. Owns([q EXCEPT !.boundaryDirty = TRUE]) <=> Owns(q)
      BY <1>4 DEF Owns, RecoveryState
    <3>3. QED
      BY <3>1, <3>2 DEF ProbeInv
  <2>5. ControlInv(Schedule(Capture(q))) /\ Coverage(Schedule(Capture(q)), known, counted)
    BY <1>6, <2>2, <2>3, <2>4
  <2>6. QED
    BY <1>0, <1>1, <2>1, <2>5 DEF RecoveryInv
<1>9. CASE r.timer /\ ~(~r.replaying /\ r.boundaryDirty /\ ~r.closing)
  <2>1. rec' = Schedule(q)
    BY <1>2, <1>9
  <2>2. ProbeInv(q)
    BY <1>4, <1>9 DEF ProbeInv
  <2>3. ControlInv(Schedule(q)) /\ Coverage(Schedule(q), known, counted)
    BY <1>4, <1>5, <1>6, <2>2
  <2>4. QED
    BY <1>0, <1>1, <2>1, <2>3 DEF RecoveryInv
<1>10. QED
  BY <1>7, <1>8, <1>9

LEMMA BindInv == ASSUME RecoveryIInv, BindRun PROVE RecoveryInv'
<1>1. /\ rec \in RecoveryState /\ known \in 0..log /\ log \in 0..MaxEntries
      /\ PhaseInv(rec) /\ ProbeInv(rec) /\ WorkInv(rec) /\ Retried(rec)
      /\ Coverage(rec, known, counted) /\ known <= log
  BY RecoveryFacts DEF RecoveryIInv, RecoveryInv
<1> DEFINE st == IF rec.state = "ready" THEN "recovering" ELSE rec.state
           r == [rec EXCEPT !.backfill = TRUE, !.state = st]
<1>2. rec' = Schedule(r) /\ log' = log /\ counted' = counted /\ known' = known
  BY DEF BindRun
<1>3. st \in {"recovering", "ready", "partial"} /\ st # "ready"
  BY <1>1 DEF RecoveryState
<1> HIDE DEF st
<1>4. r \in RecoveryState /\ SameSearch(rec, r)
  BY <1>1, <1>3, ZenonT(60) DEF RecoveryState, SameSearch, Owns
<1>5. PhaseInv(r)
  BY <1>1, <1>3 DEF PhaseInv, RecoveryState, Draining, Walking
<1>6. ProbeInv(r) /\ Retried(r)
  BY <1>1 DEF ProbeInv, Retried, RecoveryState, Owns, More
<1> HIDE DEF r
<1>7. ControlInv(Schedule(r)) /\ SameSearch(r, Schedule(r))
  BY <1>4, <1>5, <1>6, ScheduleControl, SameSteps DEF ControlInv
<1>8. Coverage(Schedule(r), known, counted)
  BY <1>1, <1>4, <1>7, SameTwice, CoverageSame
<1>9. QED
  BY <1>1, <1>2, <1>7, <1>8 DEF RecoveryInv

LEMMA EnqueueInv ==
    ASSUME RecoveryIInv, NEW task \in Task, Enqueue(task)
    PROVE  RecoveryInv'
<1>1. /\ rec \in RecoveryState /\ known \in 0..log /\ log \in 0..MaxEntries
      /\ PhaseInv(rec) /\ ProbeInv(rec) /\ WorkInv(rec) /\ Retried(rec)
      /\ Coverage(rec, known, counted) /\ known <= log
  BY RecoveryFacts DEF RecoveryIInv, RecoveryInv
<1>0. log' = log /\ counted' = counted /\ known' = known
  BY DEF Enqueue
<1>2. CASE Len(rec.queue) >= QueueLimit
  <2>1. rec' = Gap(rec)
    BY <1>2 DEF Enqueue
  <2>2. ControlInv(Gap(rec)) /\ Coverage(Gap(rec), known, counted)
    BY <1>1, GapControl, SameSteps, CoverageSame DEF ControlInv
  <2>3. QED
    BY <1>0, <1>1, <2>1, <2>2 DEF RecoveryInv
<1>3. CASE ~(Len(rec.queue) >= QueueLimit)
  <2> DEFINE q == Enqueued(rec.queue, task)
             r == [rec EXCEPT !.queue = q]
  <2>1. rec' = Schedule(r)
    BY <1>3 DEF Enqueue
  <2>2. q \in Seq(Task)
    BY <1>1, EnqueuedType DEF RecoveryState
  <2> HIDE DEF q
  <2>3. r \in RecoveryState /\ SameSearch(rec, r)
    BY <1>1, <2>2 DEF RecoveryState, SameSearch, Owns
  <2>4. PhaseInv(r)
    BY <1>1 DEF PhaseInv, RecoveryState, Draining, Walking
  <2>5. ProbeInv(r) /\ Retried(r)
    BY <1>1 DEF ProbeInv, Retried, RecoveryState, Owns, More
  <2> HIDE DEF r
  <2>6. ControlInv(Schedule(r)) /\ SameSearch(r, Schedule(r))
    BY <2>3, <2>4, <2>5, ScheduleControl, SameSteps DEF ControlInv
  <2>7. Coverage(Schedule(r), known, counted)
    BY <1>1, <2>3, <2>6, SameTwice, CoverageSame
  <2>8. QED
    BY <1>0, <1>1, <2>1, <2>6, <2>7 DEF RecoveryInv
<1>4. QED
  BY <1>2, <1>3

LEMMA DrainInv == ASSUME RecoveryIInv, Drain \/ StopDrains PROVE RecoveryInv'
<1>1. /\ rec \in RecoveryState /\ known \in 0..log /\ log \in 0..MaxEntries
      /\ PhaseInv(rec) /\ ProbeInv(rec) /\ WorkInv(rec) /\ Retried(rec)
      /\ Coverage(rec, known, counted) /\ known <= log
  BY RecoveryFacts DEF RecoveryIInv, RecoveryInv
<1>0. log' = log /\ counted' = counted /\ known' = known /\ rec.pc = "idle"
  BY DEF Drain, StopDrains, Draining
<1> DEFINE r == [rec EXCEPT !.scheduled = FALSE]
<1>2. r \in RecoveryState /\ SameSearch(rec, r) /\ PhaseInv(r) /\ ProbeInv(r) /\ Retried(r)
      /\ r.pc = "idle" /\ r.owner = rec.owner /\ r.cancelled = rec.cancelled
      /\ r.closing = rec.closing /\ r.initialized = rec.initialized
  <2>1. r \in RecoveryState /\ SameSearch(rec, r)
    BY <1>1, ZenonT(60) DEF RecoveryState, SameSearch, Owns
  <2>2. PhaseInv(r)
    BY <1>1 DEF PhaseInv, RecoveryState, Draining, Walking
  <2>3. ProbeInv(r) /\ Retried(r)
    BY <1>1 DEF ProbeInv, Retried, RecoveryState, Owns, More
  <2>4. r.pc = "idle" /\ r.owner = rec.owner /\ r.cancelled = rec.cancelled
        /\ r.closing = rec.closing /\ r.initialized = rec.initialized
    BY <1>0, <1>1 DEF RecoveryState
  <2>5. QED
    BY <2>1, <2>2, <2>3, <2>4
<1>3. ASSUME NEW x \in RecoveryState, PhaseInv(x), ProbeInv(x), x.pc = "idle", x.initialized \/ x.closing
      PROVE  LET s == StartDrain(x) IN SameSearch(x, s) /\ ControlInv(s)
  <2> DEFINE s == StartDrain(x)
  <2>1. SameSearch(x, s)
    BY <1>3 DEF RecoveryState, SameSearch, Owns, StartDrain
  <2>2. PhaseInv(s)
    BY <1>3 DEF PhaseInv, RecoveryState, Draining, Walking, StartDrain
  <2>3. ProbeInv(s) /\ Retried(s) /\ WorkInv(s)
    BY <1>3 DEF ProbeInv, Retried, RecoveryState, Owns, More, StartDrain, WorkInv, Draining
  <2>4. QED
    BY <2>1, <2>2, <2>3 DEF ControlInv
<1>4. CASE Drain /\ Owns(rec)
  <2>1. rec' = StartDrain(r) /\ (r.initialized \/ r.closing)
    BY <1>1, <1>2, <1>4 DEF Drain, PhaseInv
  <2> HIDE DEF r
  <2>2. SameSearch(r, StartDrain(r)) /\ ControlInv(StartDrain(r))
    BY <1>2, <1>3, <2>1
  <2>3. Coverage(StartDrain(r), known, counted)
    BY <1>1, <1>2, <2>2, SameTwice, CoverageSame
  <2>4. QED
    BY <1>0, <1>1, <2>1, <2>2, <2>3 DEF RecoveryInv
<1>5. CASE Drain /\ ~Owns(rec)
  <2>1. rec' = r
    BY <1>5 DEF Drain
  <2>2. WorkInv(r)
    BY <1>2, <1>5 DEF WorkInv, Owns
  <2> HIDE DEF r
  <2>3. Coverage(r, known, counted)
    BY <1>1, <1>2, CoverageSame
  <2>4. QED
    BY <1>0, <1>1, <1>2, <2>1, <2>2, <2>3 DEF RecoveryInv, ControlInv
<1>6. CASE StopDrains
  <2>1. rec' = StartDrain(rec) /\ rec.closing
    BY <1>6 DEF StopDrains
  <2>2. SameSearch(rec, StartDrain(rec)) /\ ControlInv(StartDrain(rec))
    BY <1>0, <1>1, <1>3, <2>1
  <2>3. Coverage(StartDrain(rec), known, counted)
    BY <1>1, <2>2, CoverageSame
  <2>4. QED
    BY <1>0, <1>1, <2>1, <2>2, <2>3 DEF RecoveryInv
<1>7. QED
  BY <1>4, <1>5, <1>6

LEMMA TaskInv == ASSUME RecoveryIInv, LiveTask \/ BackgroundTask PROVE RecoveryInv'
<1>1. /\ rec \in RecoveryState /\ known \in 0..log /\ log \in 0..MaxEntries
      /\ PhaseInv(rec) /\ ProbeInv(rec) /\ WorkInv(rec) /\ Retried(rec)
      /\ Coverage(rec, known, counted) /\ known <= log
  BY RecoveryFacts DEF RecoveryIInv, RecoveryInv
<1>2. PICK pc \in {"live", "background"} : RunTask(pc)
  BY DEF LiveTask, BackgroundTask
<1> DEFINE n == Head(rec.queue).events
           r == [Spend(rec, n) EXCEPT !.queue = Tail(@), !.awaiting = TRUE]
<1>3. /\ rec' \in Timed(r) \cup {EndDrain(Gap(r))} /\ rec.pc = pc
      /\ log' = log /\ counted' = counted /\ known' = known
      /\ rec.queue # <<>> /\ rec.count + n <= RecoveryPerTick
  BY <1>2 DEF RunTask, TickAllows
<1>4. Head(rec.queue) \in Task /\ Tail(rec.queue) \in Seq(Task) /\ n \in Nat
  <2>1. rec.queue \in Seq(Task)
    BY <1>1 DEF RecoveryState
  <2>2. Head(rec.queue) \in Task /\ Tail(rec.queue) \in Seq(Task)
    BY <1>3, <2>1, HeadTailProperties
  <2>3. QED
    BY <2>2, RecoveryAssumption DEF Task
<1>5. rec.count + n \in 0..RecoveryPerTick /\ (rec.count + n < RecoveryPerTick => More(rec))
  <2>1. rec.count \in 0..RecoveryPerTick
    BY <1>1 DEF RecoveryState
  <2> HIDE DEF n
  <2>2. QED
    BY <1>3, <1>4, <2>1, RecoveryAssumption DEF More
<1>6. /\ r \in RecoveryState /\ SameSearch(rec, r) /\ r.pc = pc
      /\ ControlInv(r)
  <2>1. ASSUME NEW c \in 0..RecoveryPerTick, NEW q \in Seq(Task), c < RecoveryPerTick => More(rec)
        PROVE  LET x == [[rec EXCEPT !.count = c] EXCEPT !.queue = q, !.awaiting = TRUE]
               IN  /\ x \in RecoveryState /\ SameSearch(rec, x) /\ x.pc = pc /\ ControlInv(x)
    <3> DEFINE x == [[rec EXCEPT !.count = c] EXCEPT !.queue = q, !.awaiting = TRUE]
    <3>1. x \in RecoveryState /\ SameSearch(rec, x) /\ x.pc = pc
      BY <1>1, <1>3 DEF RecoveryState, SameSearch, Owns
    <3>2. PhaseInv(x)
      BY <1>1, <1>3 DEF PhaseInv, RecoveryState, Draining, Walking
    <3>3. ProbeInv(x) /\ WorkInv(x)
      BY <1>1, <1>3 DEF ProbeInv, WorkInv, RecoveryState, Owns, Draining
    <3>4. Retried(x)
      <4>1. /\ x.count = c /\ x.pc = rec.pc /\ x.closing = rec.closing /\ x.replaying = rec.replaying
            /\ x.deferred = rec.deferred
        BY <1>1 DEF RecoveryState
      <4>2. More(x) => More(rec)
        BY <2>1, <4>1 DEF More
      <4> HIDE DEF x
      <4>3. QED
        BY <1>1, <4>1, <4>2 DEF Retried
    <3>5. QED
      BY <3>1, <3>2, <3>3, <3>4 DEF ControlInv
  <2>2. r = [[rec EXCEPT !.count = rec.count + n] EXCEPT !.queue = Tail(rec.queue), !.awaiting = TRUE]
    <3>1. Spend(rec, n) = [rec EXCEPT !.count = rec.count + n] /\ Spend(rec, n).queue = rec.queue
      BY <1>1 DEF Spend, RecoveryState
    <3>2. QED
      BY <3>1
  <2> HIDE DEF r, n
  <2>3. QED
    BY <1>4, <1>5, <2>1, <2>2
<1> HIDE DEF r, n
<1>7. ASSUME NEW s \in Timed(r) PROVE ControlInv(s) /\ Coverage(s, known, counted)
  BY <1>1, <1>6, TimedControl, SameTwice, CoverageSame
<1>8. ControlInv(EndDrain(Gap(r))) /\ Coverage(EndDrain(Gap(r)), known, counted)
  <2>1. Gap(r) \in RecoveryState /\ Gap(r).pc = r.pc
    BY <1>6, GapIs DEF Kept
  <2>2. PhaseInv(Gap(r)) /\ ProbeInv(Gap(r))
    BY <1>6, GapControl DEF ControlInv
  <2>3. ControlInv(EndDrain(Gap(r)))
    BY <1>6, <2>1, <2>2, EndDrainControl
  <2>4. SameSearch(r, Gap(r)) /\ SameSearch(Gap(r), EndDrain(Gap(r)))
    BY <1>6, <2>1, SameSteps
  <2>5. SameSearch(rec, EndDrain(Gap(r)))
    BY <1>6, <2>4, SameTwice
  <2>6. QED
    BY <1>1, <2>3, <2>5, CoverageSame
<1>9. ControlInv(rec') /\ Coverage(rec', known, counted)
  BY <1>3, <1>7, <1>8
<1>10. QED
  BY <1>1, <1>3, <1>9 DEF RecoveryInv

LEMMA AbandonInv == ASSUME RecoveryIInv, Abandon PROVE RecoveryInv'
<1>1. /\ rec \in RecoveryState /\ PhaseInv(rec) /\ ProbeInv(rec)
      /\ Coverage(rec, known, counted) /\ known <= log
  BY RecoveryFacts DEF RecoveryIInv, RecoveryInv
<1>2. /\ rec' = EndDrain(rec) /\ rec.pc \in {"live", "background"}
      /\ log' = log /\ counted' = counted /\ known' = known
  BY DEF Abandon
<1>3. ControlInv(EndDrain(rec)) /\ Coverage(EndDrain(rec), known, counted)
  BY <1>1, <1>2, EndDrainControl, SameSteps, CoverageSame
<1>4. QED
  BY <1>1, <1>2, <1>3 DEF RecoveryInv

LEMMA FinishInv == ASSUME RecoveryIInv, FinishSlice PROVE RecoveryInv'
<1>1. /\ rec \in RecoveryState /\ PhaseInv(rec) /\ ProbeInv(rec)
      /\ Coverage(rec, known, counted) /\ known <= log
  BY RecoveryFacts DEF RecoveryIInv, RecoveryInv
<1> DEFINE r == IF More(rec) THEN [rec EXCEPT !.backfill = FALSE] ELSE rec
           done == /\ ~r.replaying /\ r.queue = <<>> /\ ~r.leafDirty
                   /\ r.deferred = <<>> /\ ~r.backfill
           st == IF r.gap THEN "partial" ELSE "ready"
           v == [r EXCEPT !.state = st]
<1>2. /\ rec' = EndDrain(IF done THEN v ELSE r) /\ rec.pc = "background"
      /\ log' = log /\ counted' = counted /\ known' = known
  BY DEF FinishSlice
<1>3. /\ r \in RecoveryState /\ SameSearch(rec, r) /\ r.pc = rec.pc
      /\ PhaseInv(r) /\ ProbeInv(r)
  <2> DEFINE x == [rec EXCEPT !.backfill = FALSE]
  <2>1. x \in RecoveryState /\ SameSearch(rec, x) /\ x.pc = rec.pc /\ SameSearch(rec, rec)
    BY <1>1, ZenonT(60) DEF RecoveryState, SameSearch, Owns
  <2>2. PhaseInv(x)
    BY <1>1 DEF PhaseInv, RecoveryState, Draining, Walking
  <2>3. ProbeInv(x)
    BY <1>1 DEF ProbeInv, RecoveryState, Owns
  <2>4. QED
    BY <1>1, <2>1, <2>2, <2>3
<1> HIDE DEF r
<1>4. /\ v \in RecoveryState /\ SameSearch(r, v) /\ v.pc = r.pc
      /\ PhaseInv(v) /\ ProbeInv(v)
  <2>1. st \in {"recovering", "ready", "partial"} /\ (st = "ready" => ~r.gap)
    OBVIOUS
  <2> HIDE DEF st
  <2>2. v \in RecoveryState /\ SameSearch(r, v) /\ v.pc = r.pc
    BY <1>3, <2>1, ZenonT(60) DEF RecoveryState, SameSearch, Owns
  <2>3. PhaseInv(v)
    BY <1>2, <1>3, <2>1 DEF PhaseInv, RecoveryState, Draining, Walking
  <2>4. ProbeInv(v)
    BY <1>3 DEF ProbeInv, RecoveryState, Owns
  <2>5. QED
    BY <2>2, <2>3, <2>4
<1> HIDE DEF v, done
<1>5. ASSUME NEW x \in {v, r}
      PROVE  ControlInv(EndDrain(x)) /\ Coverage(EndDrain(x), known, counted)
  <2>1. /\ x \in RecoveryState /\ PhaseInv(x) /\ ProbeInv(x) /\ x.pc \in {"live", "background"}
        /\ SameSearch(rec, x)
    BY <1>2, <1>3, <1>4, SameTwice
  <2>2. QED
    BY <1>1, <2>1, EndDrainControl, SameSteps, SameTwice, CoverageSame
<1>6. QED
  BY <1>1, <1>2, <1>5 DEF RecoveryInv

(* Between its first and its last phase, a slice is not seen from outside. *)
LEMMA InsideControl ==
    ASSUME NEW r, PhaseInv(r), r.pc \in {"leaf", "entries", "deferred"}
    PROVE  ControlInv(r)
BY DEF ControlInv, ProbeInv, WorkInv, Retried, Draining

LEMMA StartLeafInv == ASSUME RecoveryIInv, StartLeaf PROVE RecoveryInv'
<1>1. /\ rec \in RecoveryState /\ known \in 0..log /\ log \in 0..MaxEntries
      /\ PhaseInv(rec) /\ Coverage(rec, known, counted) /\ known <= log
  BY RecoveryFacts DEF RecoveryIInv, RecoveryInv
<1>0. log' = log /\ counted' = counted /\ known' = known /\ rec.pc = "live"
  BY DEF StartLeaf
<1> DEFINE r == [HeldBack(rec) EXCEPT !.awaiting = FALSE]
           s == [r EXCEPT !.pc = "leaf", !.leafDirty = FALSE, !.processed = FALSE,
                          !.continuing = Walking(r)]
<1>2. rec' = (IF ~r.leafDirty THEN [r EXCEPT !.pc = "entries"]
              ELSE IF s.leafQueue = <<>> THEN LeafSlice(s) ELSE s)
  BY DEF StartLeaf
<1>3. r \in RecoveryState /\ SameSearch(rec, r) /\ PhaseInv(r) /\ r.pc = "live" /\ ~r.awaiting
  <2>1. ASSUME NEW c \in 0..RecoveryPerTick
        PROVE  LET x == [[rec EXCEPT !.count = c] EXCEPT !.awaiting = FALSE]
               IN  x \in RecoveryState /\ SameSearch(rec, x) /\ PhaseInv(x) /\ x.pc = "live" /\ ~x.awaiting
    <3> DEFINE x == [[rec EXCEPT !.count = c] EXCEPT !.awaiting = FALSE]
    <3>1. x \in RecoveryState /\ SameSearch(rec, x) /\ x.pc = "live" /\ ~x.awaiting
      BY <1>0, <1>1, ZenonT(60) DEF RecoveryState, SameSearch, Owns
    <3>2. PhaseInv(x)
      BY <1>0, <1>1 DEF RecoveryState, PhaseInv, Draining, Walking
    <3>3. QED
      BY <3>1, <3>2
  <2>2. rec.count \in 0..RecoveryPerTick /\ RecoveryPerTick \in 0..RecoveryPerTick
        /\ rec = [rec EXCEPT !.count = rec.count]
    BY <1>1, RecoveryAssumption DEF RecoveryState
  <2>3. r \in {[[rec EXCEPT !.count = rec.count] EXCEPT !.awaiting = FALSE],
               [[rec EXCEPT !.count = RecoveryPerTick] EXCEPT !.awaiting = FALSE]}
    BY <2>2 DEF HeldBack
  <2> HIDE DEF r
  <2>4. QED
    BY <2>1, <2>2, <2>3
<1> HIDE DEF r
<1>4. CASE ~r.leafDirty
  <2> DEFINE x == [r EXCEPT !.pc = "entries"]
  <2>1. x \in RecoveryState /\ SameSearch(r, x) /\ x.pc = "entries"
    BY <1>3 DEF RecoveryState, SameSearch, Owns
  <2>2. PhaseInv(x)
    BY <1>3, <1>4 DEF RecoveryState, PhaseInv, Draining, Walking
  <2>3. rec' = x
    BY <1>2, <1>4
  <2> HIDE DEF x
  <2>4. ControlInv(x) /\ Coverage(x, known, counted)
    BY <1>1, <1>3, <2>1, <2>2, InsideControl, SameTwice, CoverageSame
  <2>5. QED
    BY <1>0, <1>1, <2>3, <2>4 DEF RecoveryInv
<1>5. CASE r.leafDirty
  <2>b. Walking(r) \in BOOLEAN
    BY DEF Walking
  <2>1. /\ s \in RecoveryState /\ s.pc = "leaf"
        /\ s.seen = r.seen /\ s.replay = r.replay /\ s.deferred = r.deferred
        /\ s.truncated = r.truncated /\ s.closing = r.closing /\ s.owner = r.owner
        /\ s.cancelled = r.cancelled /\ s.gap = r.gap
        /\ s.cursor = r.cursor /\ s.leafQueue = r.leafQueue /\ ~s.leafDirty
    <3>1. ASSUME NEW b \in BOOLEAN
          PROVE  LET x == [r EXCEPT !.pc = "leaf", !.leafDirty = FALSE, !.processed = FALSE,
                                    !.continuing = b]
                 IN  /\ x \in RecoveryState /\ x.pc = "leaf"
                     /\ x.seen = r.seen /\ x.replay = r.replay /\ x.deferred = r.deferred
                     /\ x.truncated = r.truncated /\ x.closing = r.closing /\ x.owner = r.owner
                     /\ x.cancelled = r.cancelled /\ x.gap = r.gap
                     /\ x.cursor = r.cursor /\ x.leafQueue = r.leafQueue /\ ~x.leafDirty
      <4> DEFINE x == [r EXCEPT !.pc = "leaf", !.leafDirty = FALSE, !.processed = FALSE,
                                    !.continuing = b]
      <4>1. x \in RecoveryState
        BY <1>3 DEF RecoveryState
      <4>2. /\ x.pc = "leaf"
            /\ x.seen = r.seen /\ x.replay = r.replay /\ x.deferred = r.deferred
            /\ x.truncated = r.truncated /\ x.closing = r.closing /\ x.owner = r.owner
            /\ x.cancelled = r.cancelled /\ x.gap = r.gap
            /\ x.cursor = r.cursor /\ x.leafQueue = r.leafQueue /\ ~x.leafDirty
        BY <1>3 DEF RecoveryState
      <4>3. QED
        BY <4>1, <4>2
    <3>2. QED
      BY <2>b, <3>1
  <2>2. PhaseInv(s)
    <3>1. ASSUME NEW b \in BOOLEAN
          PROVE  PhaseInv([r EXCEPT !.pc = "leaf", !.leafDirty = FALSE, !.processed = FALSE,
                                    !.continuing = b])
      BY <1>3 DEF RecoveryState, PhaseInv, Draining, Walking
    <3>2. QED
      BY <2>b, <3>1
  <2> HIDE DEF s
  <2>3. Coverage(r, known, counted)
    BY <1>1, <1>3, CoverageSame
  <2>4. CASE s.leafQueue = <<>>
    <3>1. rec' = LeafSlice(s)
      BY <1>2, <1>5, <2>4
    <3>2. Owns(s) => Owns(r)
      BY <2>1 DEF Owns
    <3>3. Coverage(LeafSlice(s), known, counted)
      BY <1>1, <1>3, <2>1, <2>3, <2>4, <3>2, CoverageSlice
    <3>4. PhaseInv(LeafSlice(s)) /\ LeafSlice(s).pc = "leaf"
      <4>1. PICK q, c : LeafSlice(s) = [s EXCEPT !.leafQueue = q, !.cursor = c]
        BY DEF LeafSlice
      <4> DEFINE x == [s EXCEPT !.leafQueue = q, !.cursor = c]
      <4>2. PhaseInv(x) /\ x.pc = "leaf"
        BY <2>1, <2>2 DEF RecoveryState, PhaseInv, Draining, Walking
      <4>3. LeafSlice(s) = x
        BY <4>1
      <4> HIDE DEF x
      <4>4. QED
        BY <4>2, <4>3
    <3>5. ControlInv(LeafSlice(s))
      BY <3>4, InsideControl
    <3>6. QED
      BY <1>0, <1>1, <3>1, <3>3, <3>5 DEF RecoveryInv
  <2>5. CASE s.leafQueue # <<>>
    <3>1. rec' = s
      BY <1>2, <1>5, <2>5
    <3>2. Coverage(s, known, counted)
      <4>1. /\ Found(s) = Found(r) /\ (Exact(s) => Exact(r)) /\ Walking(r) /\ Walking(s)
        BY <2>1, <2>5 DEF Found, Exact, Owns, Walking
      <4>2. \A e : InWalk(s, e) <=> InWalk(r, e)
        BY <2>1, <4>1 DEF InWalk
      <4>3. Remembered(s, counted) /\ Replayed(s)
        BY <2>1, <2>3, <4>1 DEF Coverage, Remembered, Replayed
      <4>4. Downward(s, known)
        BY <2>1, <2>3, <4>1, <4>2 DEF Coverage, Downward
      <4>5. Ahead(s) /\ Unasked(s, known)
        BY <2>1, <2>3 DEF Coverage, Ahead, Unasked
      <4>6. Findable(s, known)
        BY <2>1, <2>3, <4>1, <4>2 DEF Coverage, Findable
      <4>7. QED
        BY <4>3, <4>4, <4>5, <4>6 DEF Coverage
    <3>3. ControlInv(s)
      BY <2>1, <2>2, InsideControl
    <3>4. QED
      BY <1>0, <1>1, <3>1, <3>2, <3>3 DEF RecoveryInv
  <2>6. QED
    BY <2>4, <2>5
<1>6. QED
  BY <1>4, <1>5

LEMMA LeafEntryInv == ASSUME RecoveryIInv, LeafEntry PROVE RecoveryInv'
<1>1. /\ rec \in RecoveryState /\ known \in Nat /\ log \in 0..MaxEntries
      /\ PhaseInv(rec) /\ Coverage(rec, known, counted) /\ known <= log
      /\ (rec.discoveryStopped => rec.gap)
  BY RecoveryFacts DEF RecoveryIInv, RecoveryInv, RecTypes, RecType
<1> DEFINE e == Head(rec.leafQueue)
           m == Spend(rec, 1)
           x == [m EXCEPT !.leafQueue = Tail(@), !.processed = TRUE]
           s == Process(x, e)
<1>0. log' = log /\ known' = known /\ rec.pc = "leaf" /\ rec.leafQueue # <<>> /\ More(rec)
      /\ rec' \in Timed(s) /\ counted' = Counted(x, e)
  BY DEF LeafEntry
<1>2. e \in Entries /\ Tail(rec.leafQueue) \in Seq(Entries)
  BY <1>0, <1>1, HeadTailProperties DEF RecoveryState
<1>3. rec.count + 1 \in 0..RecoveryPerTick
  <2>1. rec.count \in 0..RecoveryPerTick
    BY <1>1 DEF RecoveryState
  <2>2. QED
    BY <1>0, <2>1, RecoveryAssumption DEF More
<1>4. /\ x \in RecoveryState /\ x.pc = "leaf" /\ x.leafQueue = Tail(rec.leafQueue)
      /\ x.seen = rec.seen /\ x.replay = rec.replay /\ x.deferred = rec.deferred
      /\ x.truncated = rec.truncated /\ x.closing = rec.closing /\ x.gap = rec.gap
      /\ x.cursor = rec.cursor /\ x.owner = rec.owner /\ x.cancelled = rec.cancelled
      /\ x.discoveryStopped = rec.discoveryStopped /\ x.replaying = rec.replaying
      /\ PhaseInv(x)
  <2>1. ASSUME NEW c \in 0..RecoveryPerTick, NEW q \in Seq(Entries)
        PROVE  LET y == [[rec EXCEPT !.count = c] EXCEPT !.leafQueue = q, !.processed = TRUE] IN
               /\ y \in RecoveryState /\ y.pc = "leaf" /\ y.leafQueue = q
               /\ y.seen = rec.seen /\ y.replay = rec.replay /\ y.deferred = rec.deferred
               /\ y.truncated = rec.truncated /\ y.closing = rec.closing /\ y.gap = rec.gap
               /\ y.cursor = rec.cursor /\ y.owner = rec.owner /\ y.cancelled = rec.cancelled
               /\ y.discoveryStopped = rec.discoveryStopped /\ y.replaying = rec.replaying
               /\ PhaseInv(y)
    <3> DEFINE y == [[rec EXCEPT !.count = c] EXCEPT !.leafQueue = q, !.processed = TRUE]
    <3>1. y \in RecoveryState
      BY <1>1 DEF RecoveryState
    <3>2. /\ y.pc = "leaf" /\ y.leafQueue = q
          /\ y.seen = rec.seen /\ y.replay = rec.replay /\ y.deferred = rec.deferred
          /\ y.truncated = rec.truncated /\ y.closing = rec.closing /\ y.gap = rec.gap
          /\ y.cursor = rec.cursor /\ y.owner = rec.owner /\ y.cancelled = rec.cancelled
          /\ y.discoveryStopped = rec.discoveryStopped /\ y.replaying = rec.replaying
      BY <1>0, <1>1 DEF RecoveryState
    <3>3. PhaseInv(y)
      BY <1>0, <1>1 DEF RecoveryState, PhaseInv, Draining, Walking
    <3>4. QED
      BY <3>1, <3>2, <3>3
  <2>2. x = [[rec EXCEPT !.count = rec.count + 1] EXCEPT !.leafQueue = Tail(rec.leafQueue), !.processed = TRUE]
    <3>1. m = [rec EXCEPT !.count = rec.count + 1] /\ m.leafQueue = rec.leafQueue
      BY <1>1 DEF Spend, RecoveryState
    <3>2. QED
      BY <3>1
  <2> HIDE DEF x, e
  <2>3. QED
    BY <1>2, <1>3, <2>1, <2>2, ZenonT(60)
<1> HIDE DEF x, e
<1>5. Reading(x, s, e)
  BY <1>1, <1>2, <1>4, ProcessIs
<1>6. ~s.gap => /\ Found(s) = Found(x) \cup {e}
                /\ counted \subseteq Counted(x, e)
                /\ Range(x.deferred) \subseteq Range(s.deferred)
                /\ e \in Found(x) \cup Counted(x, e) \cup Range(s.deferred)
  BY <1>1, <1>2, <1>4, ReadIs
<1> HIDE DEF s
<1>e. e = Head(rec.leafQueue)
  BY DEF e
<1>7. Coverage(s, known, Counted(x, e))
  <2>1. \A D : (~s.gap => /\ Found(s) = Found(x) \cup {e} /\ counted \subseteq D
                          /\ Range(x.deferred) \subseteq Range(s.deferred)
                          /\ e \in Found(x) \cup D \cup Range(s.deferred))
               => Coverage(s, known, D)
    BY <1>0, <1>1, <1>2, <1>4, <1>5, <1>e, CoverageLeafEntry
  <2>2. QED
    BY <1>6, <2>1
<1>8. s \in RecoveryState /\ s.pc = "leaf" /\ PhaseInv(s)
  BY <1>4, <1>5, ReadPhase DEF Reading, Kept
<1>9. ControlInv(rec') /\ SameSearch(s, rec')
  BY <1>0, <1>8, InsideControl, TimedControl
<1>10. Coverage(rec', known', counted')
  BY <1>0, <1>7, <1>9, CoverageSame
<1>11. QED
  BY <1>0, <1>1, <1>9, <1>10 DEF RecoveryInv

LEMMA EndLeafInv == ASSUME RecoveryIInv, EndLeaf PROVE RecoveryInv'
<1>1. /\ rec \in RecoveryState /\ known \in Nat /\ log \in 0..MaxEntries
      /\ PhaseInv(rec) /\ Coverage(rec, known, counted) /\ known <= log
  BY RecoveryFacts DEF RecoveryIInv, RecoveryInv
<1> DEFINE b == \/ Walking(rec)
                \/ ~rec.discoveryStopped /\ rec.processed /\ rec.continuing
           x == [rec EXCEPT !.pc = "entries", !.leafDirty = b]
<1>0. log' = log /\ counted' = counted /\ known' = known /\ rec.pc = "leaf" /\ rec' = x
  BY DEF EndLeaf
<1>2. b \in BOOLEAN /\ (Walking(rec) => b)
  OBVIOUS
<1> HIDE DEF b
<1>3. ASSUME NEW d \in BOOLEAN, Walking(rec) => d
      PROVE  LET y == [rec EXCEPT !.pc = "entries", !.leafDirty = d] IN
             y.pc = "entries" /\ SameSearch(rec, y) /\ PhaseInv(y)
  <2> DEFINE y == [rec EXCEPT !.pc = "entries", !.leafDirty = d]
  <2>0. ~rec.leafDirty
    BY <1>0, <1>1 DEF PhaseInv
  <2>1. y.pc = "entries" /\ SameSearch(rec, y)
    BY <1>1, <2>0 DEF RecoveryState, SameSearch, Owns
  <2>2. PhaseInv(y)
    BY <1>0, <1>1, <1>3 DEF RecoveryState, PhaseInv, Draining, Walking
  <2>3. QED
    BY <2>1, <2>2
<1>4. x.pc = "entries" /\ SameSearch(rec, x) /\ PhaseInv(x)
  BY <1>2, <1>3
<1> HIDE DEF x
<1>5. ControlInv(x) /\ Coverage(x, known, counted)
  BY <1>1, <1>4, InsideControl, CoverageSame
<1>6. QED
  BY <1>0, <1>1, <1>5 DEF RecoveryInv

LEMMA ReplayEntryInv == ASSUME RecoveryIInv, ReplayEntry PROVE RecoveryInv'
<1>1. /\ rec \in RecoveryState /\ known \in Nat /\ log \in 0..MaxEntries
      /\ PhaseInv(rec) /\ Coverage(rec, known, counted) /\ known <= log
      /\ (rec.discoveryStopped => rec.gap)
  BY RecoveryFacts DEF RecoveryIInv, RecoveryInv, RecTypes, RecType
<1> DEFINE e == Head(rec.replay)
           x == Spend(rec, 1)
           s == Process(x, e)
           y == [s EXCEPT !.replay = IF s.replaying THEN Tail(@) ELSE <<>>]
<1>0. log' = log /\ known' = known /\ rec.pc = "entries" /\ rec.replay # <<>> /\ More(rec)
      /\ rec' \in Timed(y) /\ counted' = Counted(rec, e)
  BY DEF ReplayEntry
<1>2. e \in Entries /\ Tail(rec.replay) \in Seq(Entries)
  BY <1>0, <1>1, HeadTailProperties DEF RecoveryState
<1>3. rec.count + 1 \in 0..RecoveryPerTick
  <2>1. rec.count \in 0..RecoveryPerTick
    BY <1>1 DEF RecoveryState
  <2>2. QED
    BY <1>0, <2>1, RecoveryAssumption DEF More
<1>4. /\ x \in RecoveryState /\ x.pc = "entries" /\ x.leafQueue = rec.leafQueue
      /\ x.seen = rec.seen /\ x.replay = rec.replay /\ x.deferred = rec.deferred
      /\ x.truncated = rec.truncated /\ x.closing = rec.closing /\ x.gap = rec.gap
      /\ x.cursor = rec.cursor /\ x.owner = rec.owner /\ x.cancelled = rec.cancelled
      /\ x.discoveryStopped = rec.discoveryStopped /\ x.replaying = rec.replaying
      /\ x.leafDirty = rec.leafDirty /\ x.runs = rec.runs
      /\ PhaseInv(x)
  <2>1. /\ x \in RecoveryState
    BY <1>1, <1>3 DEF RecoveryState, Spend
  <2>2. /\ x.pc = "entries" /\ x.leafQueue = rec.leafQueue
        /\ x.seen = rec.seen /\ x.replay = rec.replay /\ x.deferred = rec.deferred
        /\ x.truncated = rec.truncated /\ x.closing = rec.closing /\ x.gap = rec.gap
        /\ x.cursor = rec.cursor /\ x.owner = rec.owner /\ x.cancelled = rec.cancelled
        /\ x.discoveryStopped = rec.discoveryStopped /\ x.replaying = rec.replaying
        /\ x.leafDirty = rec.leafDirty /\ x.runs = rec.runs
    BY <1>0, <1>1 DEF RecoveryState, Spend
  <2>3. PhaseInv(x)
    BY <1>0, <1>1 DEF RecoveryState, PhaseInv, Draining, Walking, Spend
  <2>4. QED
    BY <2>1, <2>2, <2>3
<1>r. rec.replaying
  BY <1>0, <1>1 DEF PhaseInv
<1> HIDE DEF x, e
<1>5. Reading(x, s, e)
  BY <1>1, <1>2, <1>4, ProcessIs
<1>6. ~s.gap => /\ Found(s) = Found(x) \cup {e}
                /\ counted \subseteq Counted(rec, e)
                /\ Range(x.deferred) \subseteq Range(s.deferred)
                /\ e \in Found(x) \cup Counted(rec, e) \cup Range(s.deferred)
  BY <1>1, <1>2, <1>4, ReadIs
<1> HIDE DEF s
<1>8. s \in RecoveryState /\ s.pc = "entries" /\ PhaseInv(s)
  BY <1>4, <1>5, ReadPhase DEF Reading, Kept
<1> DEFINE rest == IF s.replaying THEN Tail(s.replay) ELSE <<>>
<1>9. rest \in Seq(Entries)
  <2>1. s.replaying => s.replay = rec.replay
    BY <1>4, <1>5 DEF Reading, Searching, SearchStopped
  <2>2. QED
    BY <1>2, <2>1
<1>10. /\ y \in RecoveryState /\ y.pc = "entries" /\ y.replay = rest
       /\ y.leafQueue = s.leafQueue /\ y.seen = s.seen /\ y.deferred = s.deferred
       /\ y.truncated = s.truncated /\ y.closing = s.closing /\ y.gap = s.gap /\ y.cursor = s.cursor
       /\ y.owner = s.owner /\ y.cancelled = s.cancelled /\ y.leafDirty = s.leafDirty
       /\ PhaseInv(y)
  <2>0. ~s.replaying => rest = <<>>
    OBVIOUS
  <2>1. ASSUME NEW q \in Seq(Entries), ~s.replaying => q = <<>>
        PROVE  LET z == [s EXCEPT !.replay = q] IN
               /\ z \in RecoveryState /\ z.pc = "entries" /\ z.replay = q
               /\ z.leafQueue = s.leafQueue /\ z.seen = s.seen /\ z.deferred = s.deferred
               /\ z.truncated = s.truncated /\ z.closing = s.closing /\ z.gap = s.gap /\ z.cursor = s.cursor
               /\ z.owner = s.owner /\ z.cancelled = s.cancelled /\ z.leafDirty = s.leafDirty
               /\ PhaseInv(z)
    <3> DEFINE z == [s EXCEPT !.replay = q]
    <3>1. /\ z \in RecoveryState /\ z.pc = "entries" /\ z.replay = q
          /\ z.leafQueue = s.leafQueue /\ z.seen = s.seen /\ z.deferred = s.deferred
          /\ z.truncated = s.truncated /\ z.closing = s.closing /\ z.gap = s.gap /\ z.cursor = s.cursor
          /\ z.owner = s.owner /\ z.cancelled = s.cancelled /\ z.leafDirty = s.leafDirty
      BY <1>8 DEF RecoveryState
    <3>2. PhaseInv(z)
      BY <1>8, <2>1 DEF RecoveryState, PhaseInv, Draining, Walking
    <3>3. QED
      BY <3>1, <3>2
  <2>2. y = [s EXCEPT !.replay = rest]
    OBVIOUS
  <2> HIDE DEF y, rest
  <2>3. QED
    BY <1>9, <2>0, <2>1, <2>2
<1>y. y.replay = IF s.replaying THEN Tail(s.replay) ELSE <<>>
  BY <1>10
<1> HIDE DEF y, rest
<1>e. e = Head(rec.replay)
  BY DEF e
<1>7. Coverage(y, known, Counted(rec, e))
  <2>1. \A D : (~s.gap => /\ Found(s) = Found(x) \cup {e} /\ counted \subseteq D
                          /\ Range(x.deferred) \subseteq Range(s.deferred)
                          /\ e \in Found(x) \cup D \cup Range(s.deferred))
               => Coverage(y, known, D)
    BY <1>0, <1>1, <1>2, <1>4, <1>5, <1>10, <1>y, <1>e, <1>r, CoverageReplayEntry
  <2>2. QED
    BY <1>6, <2>1
<1>11. ControlInv(rec') /\ SameSearch(y, rec')
  BY <1>0, <1>10, InsideControl, TimedControl
<1>12. Coverage(rec', known', counted')
  BY <1>0, <1>7, <1>11, CoverageSame
<1>13. QED
  BY <1>0, <1>1, <1>11, <1>12 DEF RecoveryInv

LEMMA EndReplayInv == ASSUME RecoveryIInv, EndReplay PROVE RecoveryInv'
<1>1. /\ rec \in RecoveryState /\ known \in Nat /\ log \in 0..MaxEntries
      /\ PhaseInv(rec) /\ Coverage(rec, known, counted) /\ known <= log
      /\ (rec.discoveryStopped => rec.gap)
  BY RecoveryFacts DEF RecoveryIInv, RecoveryInv, RecTypes, RecType
<1> DEFINE r == [rec EXCEPT !.pc = "deferred"]
           s == [r EXCEPT !.replaying = FALSE]
<1>0. /\ log' = log /\ counted' = counted /\ known' = known /\ rec.pc = "entries"
      /\ rec' = (IF ~r.replaying \/ r.replay # <<>> THEN r
                 ELSE IF r.truncated THEN StopDiscovery(s) ELSE s)
  BY DEF EndReplay
<1>2. /\ r \in RecoveryState /\ SameSearch(rec, r) /\ PhaseInv(r) /\ r.pc = "deferred"
      /\ r.discoveryStopped = rec.discoveryStopped /\ r.gap = rec.gap
  <2>1. /\ r \in RecoveryState /\ SameSearch(rec, r) /\ r.pc = "deferred"
        /\ r.discoveryStopped = rec.discoveryStopped /\ r.gap = rec.gap
    BY <1>1 DEF RecoveryState, SameSearch, Owns
  <2>2. PhaseInv(r)
    BY <1>0, <1>1 DEF RecoveryState, PhaseInv, Draining, Walking
  <2>3. QED
    BY <2>1, <2>2
<1>3. Coverage(r, known, counted)
  BY <1>1, <1>2, CoverageSame
<1> HIDE DEF r
<1>4. CASE ~r.replaying \/ r.replay # <<>>
  <2>1. rec' = r
    BY <1>0, <1>4
  <2>2. ControlInv(r)
    BY <1>2, InsideControl
  <2>3. QED
    BY <1>0, <1>1, <1>3, <2>1, <2>2 DEF RecoveryInv
<1>5. CASE r.replaying /\ r.replay = <<>>
  <2>1. /\ s \in RecoveryState /\ SameSearch(r, s) /\ s.pc = "deferred" /\ s.truncated = r.truncated
        /\ s.discoveryStopped = r.discoveryStopped /\ s.gap = r.gap /\ s.leafQueue = r.leafQueue
    BY <1>2, ZenonT(60) DEF RecoveryState, SameSearch, Owns
  <2>2. Coverage(s, known, counted)
    BY <1>3, <2>1, CoverageSame
  <2>3. CASE ~r.truncated
    <3>1. PhaseInv(s)
      BY <1>2, <1>5, <2>3 DEF RecoveryState, PhaseInv, Draining, Walking
    <3>2. rec' = s /\ ControlInv(s)
      BY <1>0, <1>5, <2>1, <2>3, <3>1, InsideControl
    <3>3. QED
      BY <1>0, <1>1, <2>2, <3>2 DEF RecoveryInv
  <2>4. CASE r.truncated
    <3> DEFINE d == StopDiscovery(s)
    <3>1. /\ d \in RecoveryState /\ Kept(s, d)
          /\ s.discoveryStopped => d = s
          /\ ~s.discoveryStopped => SearchStopped(d)
      BY <2>1, StopDiscoveryIs
    <3>2. rec' = d
      BY <1>0, <1>5, <2>4
    <3>3. d.gap /\ d.pc = "deferred"
      BY <1>1, <1>2, <2>1, <3>1 DEF Kept, SearchStopped
    <3>4. PhaseInv(d)
      <4>1. CASE s.discoveryStopped
        <5>1. s.gap
          BY <1>1, <1>2, <2>1, <4>1
        <5>2. PhaseInv(s)
          <6>1. /\ r.gap /\ s.awaiting = r.awaiting /\ s.closing = r.closing
                /\ s.scheduled = r.scheduled /\ s.state = r.state /\ s.initialized = r.initialized
                /\ s.boundaryDirty = r.boundaryDirty /\ s.replay = r.replay /\ ~s.replaying
                /\ s.cursor = r.cursor /\ s.leafQueue = r.leafQueue /\ s.leafDirty = r.leafDirty
            BY <1>2, <2>1, <5>1 DEF RecoveryState
          <6>2. QED
            BY <1>2, <1>5, <2>1, <5>1, <6>1 DEF PhaseInv, Draining, Walking
        <5>3. QED
          BY <3>1, <4>1, <5>2
      <4>2. CASE ~s.discoveryStopped
        <5>1. SearchStopped(d) /\ Kept(s, d)
          BY <3>1, <4>2
        <5>2. /\ s.awaiting = r.awaiting /\ s.closing = r.closing
              /\ s.scheduled = r.scheduled /\ s.initialized = r.initialized
              /\ s.leafQueue = r.leafQueue /\ s.leafDirty = r.leafDirty
          BY <1>2 DEF RecoveryState
        <5> HIDE DEF d, s
        <5>3. QED
          BY <1>2, <2>1, <5>1, <5>2 DEF PhaseInv, Draining, Walking, SearchStopped, Kept
      <4>3. QED
        BY <4>1, <4>2
    <3>5. Coverage(d, known, counted)
      <4>1. d.leafQueue = s.leafQueue /\ d.closing = s.closing /\ (d.truncated => s.truncated)
            /\ d.cursor \in {s.cursor, 0}
        BY <3>1 DEF Kept, SearchStopped
      <4>2. \A j \in Range(s.leafQueue) : j > 0
        <5>1. s.leafQueue \in Seq(Entries)
          BY <2>1 DEF RecoveryState
        <5>2. Range(s.leafQueue) \subseteq Entries
          BY <5>1 DEF Range
        <5>3. QED
          BY <5>2, RecoveryAssumption DEF Entries
      <4>3. Ahead(d)
        BY <2>2, <4>1, <4>2 DEF Ahead, Coverage
      <4>4. Unasked(d, known)
        BY <2>2, <4>1 DEF Unasked, Coverage
      <4>5. QED
        BY <3>3, <4>3, <4>4, CoverageGap
    <3> HIDE DEF d
    <3>6. QED
      BY <1>0, <1>1, <3>2, <3>3, <3>4, <3>5, InsideControl DEF RecoveryInv
  <2>5. QED
    BY <2>3, <2>4
<1>6. QED
  BY <1>4, <1>5

LEMMA RetryDeferredInv == ASSUME RecoveryIInv, RetryDeferred PROVE RecoveryInv'
<1>1. /\ rec \in RecoveryState /\ known \in Nat /\ log \in 0..MaxEntries
      /\ PhaseInv(rec) /\ Coverage(rec, known, counted) /\ known <= log
  BY RecoveryFacts DEF RecoveryIInv, RecoveryInv
<1> DEFINE e == Head(rec.deferred)
           m == Spend(rec, 1)
           r == [m EXCEPT !.deferred = Tail(@)]
<1>0. /\ log' = log /\ known' = known /\ rec.pc = "deferred" /\ rec.deferred # <<>> /\ More(rec)
      /\ \/ rec' \in Timed(r) /\ counted' = counted \cup {e}
         \/ rec' \in Timed(Gap(r)) /\ counted' = counted
  BY DEF RetryDeferred
<1>2. /\ Tail(rec.deferred) \in Seq(Entries)
      /\ Range(rec.deferred) = Range(Tail(rec.deferred)) \cup {e}
  <2>1. rec.deferred \in Seq(Entries)
    BY <1>1 DEF RecoveryState
  <2>2. QED
    BY <1>0, <2>1, HeadOfRange
<1>3. rec.count + 1 \in 0..RecoveryPerTick
  <2>1. rec.count \in 0..RecoveryPerTick
    BY <1>1 DEF RecoveryState
  <2>2. QED
    BY <1>0, <2>1, RecoveryAssumption DEF More
<1>4. /\ r \in RecoveryState /\ r.pc = "deferred" /\ r.deferred = Tail(rec.deferred)
      /\ r.leafQueue = rec.leafQueue /\ r.seen = rec.seen /\ r.replay = rec.replay
      /\ r.truncated = rec.truncated /\ r.closing = rec.closing /\ r.gap = rec.gap
      /\ r.cursor = rec.cursor /\ r.owner = rec.owner /\ r.cancelled = rec.cancelled
      /\ r.leafDirty = rec.leafDirty /\ PhaseInv(r)
  <2>1. ASSUME NEW c \in 0..RecoveryPerTick, NEW q \in Seq(Entries)
        PROVE  LET y == [[rec EXCEPT !.count = c] EXCEPT !.deferred = q] IN
               /\ y \in RecoveryState /\ y.pc = "deferred" /\ y.deferred = q
               /\ y.leafQueue = rec.leafQueue /\ y.seen = rec.seen /\ y.replay = rec.replay
               /\ y.truncated = rec.truncated /\ y.closing = rec.closing /\ y.gap = rec.gap
               /\ y.cursor = rec.cursor /\ y.owner = rec.owner /\ y.cancelled = rec.cancelled
               /\ y.leafDirty = rec.leafDirty /\ PhaseInv(y)
    <3> DEFINE y == [[rec EXCEPT !.count = c] EXCEPT !.deferred = q]
    <3>1. y \in RecoveryState
      BY <1>1 DEF RecoveryState
    <3>2. /\ y.pc = "deferred" /\ y.deferred = q
          /\ y.leafQueue = rec.leafQueue /\ y.seen = rec.seen /\ y.replay = rec.replay
          /\ y.truncated = rec.truncated /\ y.closing = rec.closing /\ y.gap = rec.gap
          /\ y.cursor = rec.cursor /\ y.owner = rec.owner /\ y.cancelled = rec.cancelled
          /\ y.leafDirty = rec.leafDirty
      BY <1>0, <1>1 DEF RecoveryState
    <3>3. PhaseInv(y)
      BY <1>0, <1>1 DEF RecoveryState, PhaseInv, Draining, Walking
    <3>4. QED
      BY <3>1, <3>2, <3>3
  <2>2. r = [[rec EXCEPT !.count = rec.count + 1] EXCEPT !.deferred = Tail(rec.deferred)]
    <3>1. m = [rec EXCEPT !.count = rec.count + 1] /\ m.deferred = rec.deferred
      BY <1>1 DEF Spend, RecoveryState
    <3>2. QED
      BY <3>1
  <2> HIDE DEF r, e
  <2>3. QED
    BY <1>2, <1>3, <2>1, <2>2
<1> HIDE DEF r, e
<1>5. /\ Found(r) = Found(rec) /\ (Exact(r) <=> Exact(rec)) /\ (Walking(r) <=> Walking(rec))
      /\ \A z : InWalk(r, z) <=> InWalk(rec, z)
  BY <1>4 DEF Found, Exact, Owns, Walking, InWalk
<1>6. /\ Replayed(r) /\ Downward(r, known) /\ Ahead(r) /\ Findable(r, known) /\ Unasked(r, known)
  <2>1. Replayed(r)
    BY <1>1, <1>4, <1>5 DEF Coverage, Replayed
  <2>2. Downward(r, known)
    BY <1>1, <1>4, <1>5 DEF Coverage, Downward
  <2>3. Ahead(r) /\ Unasked(r, known)
    BY <1>1, <1>4 DEF Coverage, Ahead, Unasked
  <2>4. Findable(r, known)
    BY <1>1, <1>4, <1>5 DEF Coverage, Findable
  <2>5. QED
    BY <2>1, <2>2, <2>3, <2>4
<1>7. CASE rec' \in Timed(r) /\ counted' = counted \cup {e}
  <2>1. Remembered(r, counted')
    BY <1>1, <1>2, <1>4, <1>5, <1>7 DEF Coverage, Remembered
  <2>2. Coverage(r, known, counted')
    BY <1>6, <2>1 DEF Coverage
  <2>3. ControlInv(rec') /\ SameSearch(r, rec')
    BY <1>4, <1>7, InsideControl, TimedControl
  <2>4. Coverage(rec', known, counted')
    BY <2>2, <2>3, CoverageSame
  <2>5. QED
    BY <1>0, <1>1, <2>3, <2>4 DEF RecoveryInv
<1>8. CASE rec' \in Timed(Gap(r)) /\ counted' = counted
  <2>1. /\ Gap(r) \in RecoveryState /\ PhaseInv(Gap(r)) /\ Gap(r).pc = "deferred" /\ Gap(r).gap
        /\ Gap(r).leafQueue = r.leafQueue /\ Gap(r).cursor = r.cursor
        /\ Gap(r).closing = r.closing /\ Gap(r).truncated = r.truncated
    BY <1>4, GapIs, GapControl DEF Kept, Searching
  <2>2. Ahead(Gap(r)) /\ Unasked(Gap(r), known)
    BY <1>6, <2>1 DEF Ahead, Unasked
  <2>3. Coverage(Gap(r), known, counted)
    BY <2>1, <2>2, CoverageGap
  <2>4. ControlInv(rec') /\ SameSearch(Gap(r), rec')
    BY <1>8, <2>1, InsideControl, TimedControl
  <2>5. Coverage(rec', known, counted')
    BY <1>8, <2>3, <2>4, CoverageSame
  <2>6. QED
    BY <1>0, <1>1, <2>4, <2>5 DEF RecoveryInv
<1>9. QED
  BY <1>0, <1>7, <1>8

LEMMA EndDeferredInv == ASSUME RecoveryIInv, EndDeferred PROVE RecoveryInv'
<1>1. /\ rec \in RecoveryState /\ known \in 0..log /\ log \in 0..MaxEntries
      /\ PhaseInv(rec) /\ Coverage(rec, known, counted) /\ known <= log
  BY RecoveryFacts DEF RecoveryIInv, RecoveryInv
<1> DEFINE r == [rec EXCEPT !.pc = "background"]
           s == [r EXCEPT !.timer = TRUE]
<1>0. /\ log' = log /\ counted' = counted /\ known' = known /\ rec.pc = "deferred"
      /\ rec.replaying \/ rec.closing \/ rec.deferred = <<>> \/ ~More(rec)
      /\ rec' = (IF r.replaying \/ r.closing \/ ~r.boundaryDirty THEN r
                 ELSE IF r.rested THEN Capture(r) ELSE s)
  BY DEF EndDeferred
<1>2. /\ r \in RecoveryState /\ SameSearch(rec, r) /\ PhaseInv(r) /\ r.pc = "background"
      /\ Retried(r)
  <2>1. /\ r \in RecoveryState /\ SameSearch(rec, r) /\ r.pc = "background"
    BY <1>1 DEF RecoveryState, SameSearch, Owns
  <2>2. PhaseInv(r)
    BY <1>0, <1>1 DEF RecoveryState, PhaseInv, Draining, Walking
  <2>3. Retried(r)
    BY <1>0, <1>1 DEF RecoveryState, Retried, More
  <2>4. QED
    BY <2>1, <2>2, <2>3
<1>3. Coverage(r, known, counted)
  BY <1>1, <1>2, CoverageSame
<1> HIDE DEF r
<1>4. CASE r.replaying \/ r.closing \/ ~r.boundaryDirty
  <2>1. rec' = r
    BY <1>0, <1>4
  <2>2. ProbeInv(r) /\ WorkInv(r)
    BY <1>2, <1>4 DEF ProbeInv, WorkInv, Draining
  <2>3. QED
    BY <1>0, <1>1, <1>2, <1>3, <2>1, <2>2 DEF RecoveryInv, ControlInv
<1>5. CASE ~r.replaying /\ ~r.closing /\ r.boundaryDirty /\ r.rested
  <2>1. rec' = Capture(r)
    BY <1>0, <1>5
  <2>2. Coverage(Capture(r), known, counted)
    BY <1>1, <1>2, <1>3, <1>5, CoverageCapture
  <2>3. /\ PhaseInv(Capture(r)) /\ WorkInv(Capture(r)) /\ Retried(Capture(r))
        /\ Owns(r) => ProbeInv(Capture(r))
    BY <1>1, <1>2, <1>5, CaptureControl
  <2>4. ~Owns(r) => ProbeInv(Capture(r))
    <3>1. ~Owns(r) => Capture(r) \in {r, [r EXCEPT !.boundaryDirty = TRUE]}
      BY DEF Capture
    <3>2. Owns([r EXCEPT !.boundaryDirty = TRUE]) <=> Owns(r)
      BY <1>2 DEF Owns, RecoveryState
    <3>3. QED
      BY <3>1, <3>2 DEF ProbeInv
  <2>5. QED
    BY <1>0, <1>1, <2>1, <2>2, <2>3, <2>4 DEF RecoveryInv, ControlInv
<1>6. CASE ~r.replaying /\ ~r.closing /\ r.boundaryDirty /\ ~r.rested
  <2>1. rec' = s
    BY <1>0, <1>6
  <2>2. SameSearch(r, s)
    BY <1>2 DEF RecoveryState, SameSearch, Owns
  <2>3. PhaseInv(s)
    BY <1>2 DEF RecoveryState, PhaseInv, Draining, Walking
  <2>4. Retried(s) /\ ProbeInv(s) /\ WorkInv(s)
    BY <1>2 DEF RecoveryState, Retried, More, ProbeInv, WorkInv, Draining
  <2> HIDE DEF s
  <2>5. Coverage(s, known, counted)
    BY <1>3, <2>2, CoverageSame
  <2>6. QED
    BY <1>0, <1>1, <2>1, <2>3, <2>4, <2>5 DEF RecoveryInv, ControlInv
<1>7. QED
  BY <1>4, <1>5, <1>6

LEMMA HasStoppedIs ==
    ASSUME NEW r \in RecoveryState, r.closing, NEW k, NEW C, Unasked(r, k),
           r.awaiting => r.pc \in {"live", "background"}, r.state = "ready" => ~r.gap,
           r.discoveryStopped => ~r.boundaryDirty, ~r.replaying, r.replay = <<>>
    PROVE  ControlInv(HasStopped(r)) /\ Coverage(HasStopped(r), k, C)
<1> DEFINE s == HasStopped(r)
<1>1. /\ s.cancelled /\ s.cursor = 0 /\ s.leafQueue = <<>> /\ s.closing /\ ~s.leafDirty
      /\ s.awaiting = r.awaiting /\ s.pc = r.pc /\ s.state = r.state /\ s.gap = r.gap
      /\ s.discoveryStopped = r.discoveryStopped /\ s.boundaryDirty = r.boundaryDirty
      /\ s.replaying = r.replaying /\ s.replay = r.replay /\ s.truncated = r.truncated
  BY DEF HasStopped, RecoveryState
<1> HIDE DEF s
<1>2. PhaseInv(s)
  BY <1>1 DEF PhaseInv, Draining, Walking
<1>3. ProbeInv(s) /\ WorkInv(s) /\ Retried(s)
  BY <1>1 DEF ProbeInv, WorkInv, Retried
<1>4. ~Exact(s)
  BY <1>1 DEF Exact, Owns
<1>5. Remembered(s, C) /\ Replayed(s) /\ Downward(s, k) /\ Findable(s, k)
  BY <1>1, <1>4 DEF Remembered, Replayed, Downward, Findable
<1>6. Ahead(s) /\ Unasked(s, k)
  BY <1>1 DEF Ahead, Unasked, Range
<1>7. QED
  BY <1>2, <1>3, <1>5, <1>6 DEF ControlInv, Coverage, s

LEMMA StopInv == ASSUME RecoveryIInv, Stop PROVE RecoveryInv'
<1>1. /\ rec \in RecoveryState /\ known \in 0..log /\ log \in 0..MaxEntries
      /\ PhaseInv(rec) /\ Coverage(rec, known, counted) /\ known <= log /\ rec.pc # "leaf"
  BY RecoveryFacts DEF RecoveryIInv, RecoveryInv, Stop
<1> DEFINE s == Stopping(rec)
           k == IF rec.initialized /\ ~Walking(rec) /\ ~rec.truncated THEN log ELSE 0
<1>0. /\ log' = log /\ counted' = counted /\ known' = k /\ ~rec.closing
      /\ rec' = (IF StopWork(s) THEN s ELSE HasStopped(s))
  BY DEF Stop
<1>2. k <= log /\ k \in {0, log}
  BY <1>1, RecoveryAssumption
<1>3. /\ s.closing /\ ~s.replaying /\ s.replay = <<>> /\ ~s.boundaryDirty /\ s.cursor = 0
      /\ s.leafQueue = <<>> /\ s.deferred = <<>> /\ ~s.scheduled
      /\ s.leafDirty = (rec.initialized /\ Owns(rec))
      /\ s.awaiting = rec.awaiting /\ s.pc = rec.pc /\ s.state = rec.state /\ s.gap = rec.gap
      /\ s.seen = rec.seen /\ s.truncated = rec.truncated /\ s.owner = rec.owner
      /\ s.cancelled = rec.cancelled
  BY <1>1 DEF Stopping, RecoveryState
<1>t. s \in RecoveryState
  BY StoppingType DEF RecoveryIInv, RecTypes, RecType
<1> HIDE DEF s
<1>4. PhaseInv(s)
  BY <1>1, <1>3 DEF PhaseInv, Draining, Walking
<1>5. Unasked(s, k)
  BY <1>3 DEF Unasked
<1>6. CASE ~StopWork(s)
  <2>1. ControlInv(HasStopped(s)) /\ Coverage(HasStopped(s), k, counted)
    BY <1>3, <1>4, <1>5, <1>t, HasStoppedIs DEF PhaseInv
  <2>2. QED
    BY <1>0, <1>2, <1>6, <2>1 DEF RecoveryInv
<1>7. CASE StopWork(s)
  <2>1. ProbeInv(s) /\ WorkInv(s) /\ Retried(s)
    BY <1>3 DEF ProbeInv, WorkInv, Retried
  <2>2. Remembered(s, counted) /\ Replayed(s) /\ Ahead(s)
    BY <1>3 DEF Remembered, Replayed, Ahead, Range
  <2>3. Found(s) = Found(rec) /\ (Exact(s) => Exact(rec) /\ Owns(rec)) /\ ~Walking(s)
    BY <1>0, <1>3 DEF Found, Exact, Owns, Walking
  <2>4. k # 0 => rec.initialized /\ ~Walking(rec)
    OBVIOUS
  <2>5. Downward(s, k)
    <3>1. ASSUME Exact(s), k # 0, NEW j \in Found(s) \cup Range(s.leafQueue), NEW e \in 1..j
          PROVE  e \in Found(s)
      <4>1. j \in Found(rec)
        BY <1>3, <2>3, <3>1 DEF Range
      <4>2. e \in Found(rec) \/ InWalk(rec, e)
        BY <1>0, <1>1, <2>3, <3>1, <4>1 DEF Coverage, Downward
      <4>3. ~InWalk(rec, e)
        BY <2>4, <3>1 DEF InWalk, Walking, Range
      <4>4. QED
        BY <2>3, <4>2, <4>3
    <3> HIDE DEF k
    <3>2. QED
      BY <1>3, <3>1 DEF Downward
  <2>6. Findable(s, k)
    <3>1. CASE k = 0
      <4>1. 1..k = {}
        BY <3>1
      <4>2. QED
        BY <4>1 DEF Findable
    <3>2. CASE k # 0
      BY <1>3, <2>3, <2>4, <3>2 DEF Findable
    <3>3. QED
      BY <3>1, <3>2
  <2> HIDE DEF k
  <2>7. ControlInv(s) /\ Coverage(s, k, counted)
    BY <1>4, <1>5, <2>1, <2>2, <2>5, <2>6 DEF ControlInv, Coverage
  <2>8. QED
    BY <1>0, <1>2, <1>7, <2>7 DEF RecoveryInv
<1>8. QED
  BY <1>6, <1>7

LEMMA StopEndsInv == ASSUME RecoveryIInv, StopEnds PROVE RecoveryInv'
<1>1. /\ rec \in RecoveryState /\ PhaseInv(rec) /\ Coverage(rec, known, counted) /\ known <= log
  BY RecoveryFacts DEF RecoveryIInv, RecoveryInv
<1>2. rec' = HasStopped(rec) /\ log' = log /\ counted' = counted /\ known' = known /\ rec.closing
  BY DEF StopEnds
<1>3. ControlInv(HasStopped(rec)) /\ Coverage(HasStopped(rec), known, counted)
  BY <1>1, <1>2, HasStoppedIs DEF PhaseInv, Coverage
<1>4. QED
  BY <1>1, <1>2, <1>3 DEF RecoveryInv

LEMMA ReplacedInv == ASSUME RecoveryIInv, SessionReplaced PROVE RecoveryInv'
<1>1. /\ rec \in RecoveryState
      /\ PhaseInv(rec) /\ ProbeInv(rec) /\ WorkInv(rec) /\ Retried(rec)
      /\ Coverage(rec, known, counted) /\ known <= log
  BY RecoveryFacts DEF RecoveryIInv, RecoveryInv
<1> DEFINE s == [rec EXCEPT !.owner = FALSE]
<1>2. rec' = s /\ log' = log /\ counted' = counted /\ known' = known
  BY DEF SessionReplaced
<1>3. SameSearch(rec, s) /\ ~Owns(s)
  BY <1>1 DEF RecoveryState, SameSearch, Owns
<1>4. PhaseInv(s)
  BY <1>1 DEF RecoveryState, PhaseInv, Draining, Walking
<1>5. ProbeInv(s) /\ WorkInv(s)
  BY <1>3 DEF ProbeInv, WorkInv
<1>6. Retried(s)
  BY <1>1 DEF RecoveryState, Retried, More
<1> HIDE DEF s
<1>7. Coverage(s, known, counted)
  BY <1>1, <1>3, CoverageSame
<1>8. QED
  BY <1>1, <1>2, <1>4, <1>5, <1>6, <1>7 DEF RecoveryInv, ControlInv

LEMMA RecoveryKept == ASSUME RecoveryIInv, [RecoveryNext]_recoveryVars PROVE RecoveryIInv'
<1>1. RecTypes'
  BY RecTypesStep DEF RecoveryIInv
<1>2. RecoveryInv'
  <2>1. CASE UNCHANGED recoveryVars
    BY <2>1 DEF recoveryVars, RecoveryInv, RecoveryIInv
  <2>2. CASE Initialize \/ AppendEntry \/ Boundary \/ ReconcileSnapshot \/ IdleProbe
             \/ IntervalPasses \/ BindRun
    BY <2>2, InitializeInv, AppendEntryInv, BoundaryInv, ReconcileInv, IntervalInv, BindInv
  <2>3. CASE \E e \in Entries : NoteEntry(e) \/ PendingExpires(e)
    BY <1>1, <2>3, NoteEntryInv
  <2>4. CASE \E task \in Task : Enqueue(task)
    BY <2>4, EnqueueInv
  <2>5. CASE Drain \/ StopDrains \/ LiveTask \/ BackgroundTask \/ Abandon \/ FinishSlice
    BY <2>5, DrainInv, TaskInv, AbandonInv, FinishInv
  <2>6. CASE StartLeaf \/ LeafEntry \/ EndLeaf \/ ReplayEntry
    BY <2>6, StartLeafInv, LeafEntryInv, EndLeafInv, ReplayEntryInv
  <2>7. CASE EndReplay \/ RetryDeferred \/ EndDeferred
    BY <2>7, EndReplayInv, RetryDeferredInv, EndDeferredInv
  <2>8. CASE Stop \/ StopEnds \/ SessionReplaced
    BY <2>8, StopInv, StopEndsInv, ReplacedInv
  <2>9. QED
    BY <2>1, <2>2, <2>3, <2>4, <2>5, <2>6, <2>7, <2>8 DEF RecoveryNext, DrainStep
<1>3. QED
  BY <1>1, <1>2 DEF RecoveryIInv

LEMMA RecoveryStart == RecoveryInit => RecoveryIInv
<1> SUFFICES ASSUME RecoveryInit PROVE RecoveryIInv
  OBVIOUS
<1>1. RecTypes
  BY RecTypesInit
<1>2. /\ rec.owner /\ ~rec.initialized /\ ~rec.closing /\ ~rec.cancelled /\ ~rec.scheduled
      /\ rec.pc = "idle" /\ ~rec.awaiting /\ rec.seen = <<>> /\ rec.deferred = <<>>
      /\ rec.replaying /\ rec.truncated = (log > SeenCapacity) /\ rec.replay = Replay(log)
      /\ ~rec.boundaryDirty /\ ~rec.leafDirty /\ rec.cursor = 0 /\ rec.leafQueue = <<>>
      /\ ~rec.discoveryStopped /\ rec.state = "recovering" /\ ~rec.gap /\ known = log
      /\ log \in 0..MaxEntries
  BY DEF RecoveryInit, Replay
<1>3. PhaseInv(rec)
  BY <1>2 DEF PhaseInv, Draining, Walking
<1>4. ProbeInv(rec) /\ WorkInv(rec) /\ Retried(rec)
  BY <1>2 DEF ProbeInv, WorkInv, Retried
<1>5. Found(rec) = {} /\ Range(rec.leafQueue) = {}
  BY <1>2 DEF Found, Contains, Range
<1>6. Remembered(rec, counted) /\ Downward(rec, known) /\ Ahead(rec) /\ Unasked(rec, known)
  BY <1>2, <1>5 DEF Remembered, Downward, Ahead, Unasked
<1>7. Exact(rec) => rec.replay = [i \in 1..log |-> i] /\ log \in Nat
  <2>1. Exact(rec) => ~(log > SeenCapacity)
    BY <1>2, Zenon DEF Exact
  <2>2. ~(log > SeenCapacity) => log <= SeenCapacity /\ log \in Nat
    BY <1>2, RecoveryAssumption
  <2>3. QED
    BY <1>2, <2>1, <2>2, ReplayIs
<1>8. Replayed(rec)
  <2>1. ASSUME Exact(rec), NEW i \in DOMAIN rec.replay
        PROVE  rec.replay[i] = rec.replay[1] + (i - 1) /\ rec.replay[1] = 1
    <3>1. rec.replay = [j \in 1..log |-> j] /\ i \in 1..log /\ log \in Nat
      BY <1>7, <2>1
    <3>2. 1 \in 1..log
      BY <3>1
    <3>3. QED
      BY <3>1, <3>2
  <2>2. QED
    BY <2>1 DEF Replayed
<1>9. Findable(rec, known)
  <2>1. ASSUME Exact(rec), NEW e \in 1..known PROVE e \in Range(rec.replay)
    <3>1. rec.replay = [j \in 1..log |-> j] /\ e \in 1..log
      BY <1>2, <1>7, <2>1
    <3>2. QED
      BY <3>1 DEF Range
  <2>2. QED
    BY <2>1 DEF Findable
<1>10. known <= log
  BY <1>2, RecoveryAssumption
<1>11. QED
  BY <1>1, <1>3, <1>4, <1>6, <1>8, <1>9, <1>10 DEF RecoveryIInv, RecoveryInv, ControlInv, Coverage

LEMMA RecoverySafe == ASSUME RecoveryIInv PROVE NoLostWakeup /\ ReadyIsComplete
<1>1. /\ rec \in RecoveryState
      /\ PhaseInv(rec) /\ ProbeInv(rec) /\ WorkInv(rec)
      /\ Coverage(rec, known, counted)
  BY RecoveryFacts
<1>2. NoLostWakeup
  BY <1>1 DEF NoLostWakeup, ProbeInv, WorkInv, Draining
<1>3. ReadyIsComplete
  <2> SUFFICES ASSUME rec.state = "ready", ~rec.closing, Owns(rec),
                      ~Draining(rec), ~rec.scheduled, ~rec.boundaryDirty
               PROVE  1..known \subseteq counted
    BY DEF ReadyIsComplete
  <2>1. rec.initialized /\ ~rec.gap
    BY <1>1 DEF PhaseInv
  <2>2. ~rec.replaying /\ ~rec.leafDirty /\ rec.deferred = <<>>
    BY <1>1, <2>1 DEF WorkInv
  <2>3. rec.replay = <<>> /\ ~rec.truncated /\ ~Walking(rec)
    BY <1>1, <2>1, <2>2 DEF PhaseInv, Draining
  <2>4. Exact(rec) /\ Range(rec.replay) = {} /\ Range(rec.deferred) = {} /\ Range(rec.leafQueue) = {}
        /\ rec.cursor = 0
    BY <2>1, <2>2, <2>3 DEF Exact, Range, Walking
  <2>5. \A e \in 1..known : e \in Found(rec)
    BY <1>1, <2>2, <2>4 DEF Coverage, Findable, InWalk
  <2>6. Found(rec) \subseteq counted
    BY <1>1, <2>1, <2>4 DEF Coverage, Remembered
  <2>7. QED
    BY <2>5, <2>6
<1>4. QED
  BY <1>2, <1>3

-----------------------------------------------------------------------------
(* Which steps run a task, and which end the session *)

(* What leaves the queue and the end of the session alone. *)
HasQueue(r) == {"queue", "cancelled", "closing"} \subseteq DOMAIN r
Carries(r, s) ==
    /\ DOMAIN s = DOMAIN r
    /\ s.queue = r.queue /\ s.cancelled = r.cancelled /\ s.closing = r.closing

LEMMA CarriesTwice ==
    ASSUME NEW r, NEW s, NEW t, Carries(r, s), Carries(s, t)
    PROVE  Carries(r, t)
BY DEF Carries
LEMMA CarriesQueued ==
    ASSUME NEW r, NEW s, HasQueue(r), Carries(r, s)
    PROVE  HasQueue(s)
BY DEF Carries, HasQueue

LEMMA GapCarries ==
    ASSUME NEW r, HasQueue(r)
    PROVE  Carries(r, r) /\ Carries(r, Gap(r)) /\ Carries(r, Schedule(r)) /\ Carries(r, StartDrain(r))
BY DEF HasQueue, Carries, Gap, Schedule, StartDrain
LEMMA LookCarries == ASSUME NEW r, HasQueue(r) PROVE Carries(r, LookAtLeaf(r))
<1> DEFINE s == [r EXCEPT !.leafDirty = TRUE]
<1>1. HasQueue(s) /\ Carries(r, s)
  BY DEF HasQueue, Carries
<1> HIDE DEF s
<1>2. Carries(s, Schedule(s))
  BY <1>1, GapCarries
<1>3. QED
  BY <1>1, <1>2, CarriesTwice DEF LookAtLeaf, s
LEMMA CaptureCarries == ASSUME NEW r, HasQueue(r) PROVE Carries(r, Capture(r))
<1>1. ASSUME NEW q, NEW t, NEW x \in {r, [r EXCEPT !.boundaryDirty = TRUE],
             [r EXCEPT !.replaying = TRUE, !.replay = q, !.truncated = t,
                       !.rested = FALSE, !.boundaryDirty = FALSE]}
      PROVE  Carries(r, x)
  BY <1>1 DEF HasQueue, Carries
<1>2. QED
  BY <1>1 DEF Capture
LEMMA StopDiscoveryCarries == ASSUME NEW r, HasQueue(r) PROVE Carries(r, StopDiscovery(r))
<1> DEFINE s == [r EXCEPT !.discoveryStopped = TRUE, !.truncated = FALSE, !.replaying = FALSE,
                       !.replay = <<>>, !.boundaryDirty = FALSE, !.cursor = 0,
                       !.deferred = <<>>, !.idle = FALSE, !.timer = FALSE]
<1>1. HasQueue(s) /\ Carries(r, s)
  BY DEF HasQueue, Carries
<1> HIDE DEF s
<1>2. Carries(s, Gap(s))
  BY <1>1, GapCarries
<1>3. Carries(r, Gap(s)) /\ Carries(r, r)
  BY <1>1, <1>2, CarriesTwice, GapCarries
<1>4. QED
  BY <1>3 DEF StopDiscovery, s
LEMMA LeafSliceCarries == ASSUME NEW r, HasQueue(r) PROVE Carries(r, LeafSlice(r))
<1>1. ASSUME NEW q, NEW c PROVE Carries(r, [r EXCEPT !.leafQueue = q, !.cursor = c])
  BY DEF HasQueue, Carries
<1>2. QED
  BY <1>1 DEF LeafSlice
LEMMA SpendCarries ==
    ASSUME NEW r, HasQueue(r), NEW n PROVE Carries(r, Spend(r, n))
BY DEF Spend, HasQueue, Carries
LEMMA TimedCarries ==
    ASSUME NEW r, HasQueue(r), NEW s \in Timed(r) PROVE Carries(r, s)
BY DEF Timed, HasQueue, Carries
LEMMA ProcessCarries ==
    ASSUME NEW r, HasQueue(r), NEW e PROVE Carries(r, Process(r, e))
<1> DEFINE m == Remember(r, e)
           s == [m EXCEPT !.pending = @ \ {e}, !.runs = @ \cup ({e} \cap Range(Owner))]
<1>1. Carries(r, m) /\ HasQueue(m)
  <2> DEFINE d == StopDiscovery(r)
  <2>1. Carries(r, d) /\ HasQueue(d)
    BY StopDiscoveryCarries, CarriesQueued
  <2> HIDE DEF d
  <2>2. ASSUME NEW q PROVE Carries(r, [r EXCEPT !.seen = q]) /\ Carries(d, [d EXCEPT !.seen = q])
    BY <2>1 DEF HasQueue, Carries
  <2>3. Carries(r, [d EXCEPT !.seen = Append(Tail(d.seen), e)])
    BY <2>1, <2>2, CarriesTwice
  <2>4. Carries(r, [r EXCEPT !.seen = Append(r.seen, e)]) /\ Carries(r, r)
    BY <2>2, GapCarries
  <2>5. m \in {r, [r EXCEPT !.seen = Append(r.seen, e)], d, [d EXCEPT !.seen = Append(Tail(d.seen), e)]}
    BY DEF Remember, d
  <2>6. Carries(r, m)
    BY <2>1, <2>3, <2>4, <2>5
  <2>7. QED
    BY <2>6, CarriesQueued
<1>2. Carries(m, s) /\ HasQueue(s)
  <2> HIDE DEF m
  <2>1. QED
    BY <1>1 DEF HasQueue, Carries
<1> DEFINE a == [s EXCEPT !.deferred = Append(@, e)]
<1>3. Carries(s, a) /\ Carries(s, Gap(s))
  <2> HIDE DEF s
  <2>1. QED
    BY <1>2, GapCarries DEF HasQueue, Carries
<1>4. Process(r, e) \in {r, m, s, a, Gap(s)}
  BY DEF Process
<1> HIDE DEF m, s, a
<1>5. Carries(r, s) /\ Carries(r, a) /\ Carries(r, Gap(s)) /\ Carries(r, r)
  BY <1>1, <1>2, <1>3, CarriesTwice, GapCarries
<1>6. QED
  BY <1>1, <1>4, <1>5
LEMMA EndDrainCarries == ASSUME NEW r, HasQueue(r) PROVE Carries(r, EndDrain(r))
<1> DEFINE s == [r EXCEPT !.pc = "idle", !.awaiting = FALSE, !.count = 0,
                       !.continuing = FALSE, !.processed = FALSE]
<1>1. HasQueue(s) /\ Carries(r, s)
  BY DEF HasQueue, Carries
<1>2. EndDrain(r) \in {s, Schedule(s)}
  BY DEF EndDrain
<1> HIDE DEF s
<1>3. Carries(s, Schedule(s))
  BY <1>1, GapCarries
<1>4. QED
  BY <1>1, <1>2, <1>3, CarriesTwice

(* The steps of a slice but for its tasks. *)
LEMMA SliceCarries ==
    ASSUME HasQueue(rec),
           StartLeaf \/ LeafEntry \/ EndLeaf \/ ReplayEntry \/ EndReplay
           \/ RetryDeferred \/ EndDeferred \/ FinishSlice \/ Abandon
    PROVE  Carries(rec, rec')
<1>1. CASE StartLeaf
  <2> DEFINE h == HeldBack(rec)
             r == [h EXCEPT !.awaiting = FALSE]
             s == [r EXCEPT !.pc = "leaf", !.leafDirty = FALSE, !.processed = FALSE,
                            !.continuing = Walking(r)]
             t == [r EXCEPT !.pc = "entries"]
  <2>1. Carries(rec, h) /\ HasQueue(h)
    BY DEF HeldBack, Carries, HasQueue
  <2>2. rec' \in {t, LeafSlice(s), s}
    BY <1>1 DEF StartLeaf
  <2> HIDE DEF h
  <2>3. Carries(h, r) /\ HasQueue(r)
    BY <2>1 DEF Carries, HasQueue
  <2> HIDE DEF r
  <2>4. Carries(r, s) /\ Carries(r, t) /\ HasQueue(s)
    BY <2>3 DEF Carries, HasQueue
  <2> HIDE DEF s, t
  <2>5. Carries(s, LeafSlice(s))
    BY <2>4, LeafSliceCarries
  <2>6. Carries(rec, s) /\ Carries(rec, t)
    BY <2>1, <2>3, <2>4, CarriesTwice
  <2>7. QED
    BY <2>2, <2>5, <2>6, CarriesTwice
<1>2. CASE LeafEntry
  <2> DEFINE m == Spend(rec, 1)
             r == [m EXCEPT !.leafQueue = Tail(@), !.processed = TRUE]
             p == Process(r, Head(rec.leafQueue))
  <2>1. Carries(rec, m) /\ HasQueue(m)
    BY SpendCarries, CarriesQueued
  <2>2. rec' \in Timed(p)
    BY <1>2 DEF LeafEntry
  <2> HIDE DEF m
  <2>3. Carries(m, r) /\ HasQueue(r)
    BY <2>1 DEF Carries, HasQueue
  <2> HIDE DEF r
  <2>4. Carries(r, p) /\ HasQueue(p)
    BY <2>3, ProcessCarries, CarriesQueued
  <2> HIDE DEF p
  <2>5. Carries(p, rec')
    BY <2>2, <2>4, TimedCarries
  <2>6. QED
    BY <2>1, <2>3, <2>4, <2>5, CarriesTwice
<1>3. CASE EndLeaf
  BY <1>3 DEF EndLeaf, Carries, HasQueue
<1>4. CASE ReplayEntry
  <2> DEFINE m == Spend(rec, 1)
             s == Process(m, Head(rec.replay))
             r == [s EXCEPT !.replay = IF s.replaying THEN Tail(@) ELSE <<>>]
  <2>1. Carries(rec, m) /\ HasQueue(m)
    BY SpendCarries, CarriesQueued
  <2>2. rec' \in Timed(r)
    BY <1>4 DEF ReplayEntry
  <2> HIDE DEF m
  <2>3. Carries(m, s) /\ HasQueue(s)
    BY <2>1, ProcessCarries, CarriesQueued
  <2> HIDE DEF s
  <2>4. Carries(s, r) /\ HasQueue(r)
    BY <2>3 DEF Carries, HasQueue
  <2> HIDE DEF r
  <2>5. Carries(r, rec')
    BY <2>2, <2>4, TimedCarries
  <2>6. QED
    BY <2>1, <2>3, <2>4, <2>5, CarriesTwice
<1>5. CASE EndReplay
  <2> DEFINE r == [rec EXCEPT !.pc = "deferred"]
             s == [r EXCEPT !.replaying = FALSE]
  <2>1. rec' \in {r, StopDiscovery(s), s}
    BY <1>5 DEF EndReplay
  <2>2. Carries(rec, r) /\ HasQueue(r)
    BY DEF Carries, HasQueue
  <2> HIDE DEF r
  <2>3. Carries(r, s) /\ HasQueue(s)
    BY <2>2 DEF Carries, HasQueue
  <2> HIDE DEF s
  <2>4. QED
    BY <2>1, <2>2, <2>3, StopDiscoveryCarries, CarriesTwice
<1>6. CASE RetryDeferred
  <2> DEFINE m == Spend(rec, 1)
             r == [m EXCEPT !.deferred = Tail(@)]
  <2>1. Carries(rec, m) /\ HasQueue(m)
    BY SpendCarries, CarriesQueued
  <2>2. rec' \in Timed(r) \cup Timed(Gap(r))
    BY <1>6 DEF RetryDeferred
  <2> HIDE DEF m
  <2>3. Carries(m, r) /\ HasQueue(r)
    BY <2>1 DEF Carries, HasQueue
  <2> HIDE DEF r
  <2>4. Carries(r, Gap(r)) /\ HasQueue(Gap(r))
    BY <2>3, GapCarries, CarriesQueued
  <2>5. Carries(r, rec')
    BY <2>2, <2>3, <2>4, TimedCarries, CarriesTwice
  <2>6. QED
    BY <2>1, <2>3, <2>5, CarriesTwice
<1>7. CASE EndDeferred
  <2> DEFINE r == [rec EXCEPT !.pc = "background"]
             t == [r EXCEPT !.timer = TRUE]
  <2>1. rec' \in {r, Capture(r), t}
    BY <1>7 DEF EndDeferred
  <2>2. Carries(rec, r) /\ HasQueue(r)
    BY DEF Carries, HasQueue
  <2> HIDE DEF r
  <2>3. Carries(r, t)
    BY <2>2 DEF Carries, HasQueue
  <2> HIDE DEF t
  <2>4. QED
    BY <2>1, <2>2, <2>3, CaptureCarries, CarriesTwice
<1>8. CASE FinishSlice
  <2> DEFINE r == IF More(rec) THEN [rec EXCEPT !.backfill = FALSE] ELSE rec
  <2>1. PICK v : rec' \in {EndDrain([r EXCEPT !.state = v]), EndDrain(r)}
    BY <1>8 DEF FinishSlice
  <2>2. Carries(rec, r) /\ HasQueue(r)
    BY DEF Carries, HasQueue
  <2> HIDE DEF r
  <2>3. Carries(r, [r EXCEPT !.state = v]) /\ HasQueue([r EXCEPT !.state = v])
    BY <2>2 DEF Carries, HasQueue
  <2>4. Carries([r EXCEPT !.state = v], EndDrain([r EXCEPT !.state = v])) /\ Carries(r, EndDrain(r))
    BY <2>2, <2>3, EndDrainCarries
  <2>5. Carries(r, rec')
    BY <2>1, <2>3, <2>4, CarriesTwice
  <2>6. QED
    BY <2>2, <2>5, CarriesTwice
<1>9. CASE Abandon
  BY <1>9, EndDrainCarries DEF Abandon
<1>10. QED
  BY <1>1, <1>2, <1>3, <1>4, <1>5, <1>6, <1>7, <1>8, <1>9

(* The events and the slice's start, but for a task that is enqueued. *)
LEMMA EventCarries ==
    ASSUME HasQueue(rec),
           \/ Initialize \/ AppendEntry \/ Boundary \/ ReconcileSnapshot \/ IdleProbe
           \/ IntervalPasses \/ BindRun \/ Drain \/ StopDrains \/ SessionReplaced
           \/ \E e \in Entries : NoteEntry(e) \/ PendingExpires(e)
    PROVE  Carries(rec, rec')
<1>a. ASSUME NEW s, Carries(rec, s)
      PROVE  /\ Carries(rec, Schedule(s)) /\ Carries(rec, LookAtLeaf(s)) /\ Carries(rec, Gap(s))
             /\ Carries(rec, Capture(s)) /\ Carries(rec, StartDrain(s)) /\ HasQueue(s)
  <2>1. HasQueue(s)
    BY <1>a, CarriesQueued
  <2>2. QED
    BY <1>a, <2>1, GapCarries, LookCarries, CaptureCarries, CarriesTwice
<1>b. Carries(rec, rec)
  BY DEF Carries
<1>1. CASE Initialize
  <2>1. Carries(rec, [rec EXCEPT !.initialized = TRUE, !.idle = TRUE])
    BY DEF Carries, HasQueue
  <2>2. QED
    BY <1>1, <1>a, <2>1 DEF Initialize
<1>2. CASE AppendEntry
  BY <1>2, <1>b DEF AppendEntry
<1>3. CASE Boundary
  <2>1. Carries(rec, [rec EXCEPT !.boundaryDirty = TRUE])
    BY DEF Carries, HasQueue
  <2>2. QED
    BY <1>3, <1>a, <2>1 DEF Boundary
<1>4. CASE ReconcileSnapshot
  <2> DEFINE x == [rec EXCEPT !.state = "recovering", !.boundaryDirty = TRUE]
             y == [rec EXCEPT !.boundaryDirty = FALSE, !.timer = FALSE]
  <2>1. Carries(rec, x) /\ Carries(rec, y)
    BY DEF Carries, HasQueue
  <2>2. rec' \in {y, LookAtLeaf(x), Capture(LookAtLeaf(x))}
    BY <1>4 DEF ReconcileSnapshot
  <2> HIDE DEF x, y
  <2>3. Carries(rec, LookAtLeaf(x))
    BY <1>a, <2>1
  <2>4. Carries(rec, Capture(LookAtLeaf(x)))
    BY <1>a, <2>3
  <2>5. QED
    BY <2>1, <2>2, <2>3, <2>4
<1>5. CASE IdleProbe
  BY <1>5, <1>a, <1>b DEF IdleProbe
<1>6. CASE IntervalPasses
  <2> DEFINE r == [rec EXCEPT !.rested = TRUE]
             t == [r EXCEPT !.timer = FALSE]
  <2>1. rec' \in {r, Schedule(Capture(t)), Schedule(t)}
    BY <1>6 DEF IntervalPasses
  <2>2. Carries(rec, r) /\ HasQueue(r)
    BY DEF Carries, HasQueue
  <2> HIDE DEF r
  <2>3. Carries(r, t)
    BY <2>2 DEF Carries, HasQueue
  <2> HIDE DEF t
  <2>4. Carries(rec, t)
    BY <2>2, <2>3, CarriesTwice
  <2>5. Carries(rec, Schedule(t)) /\ Carries(rec, Capture(t))
    BY <1>a, <2>4
  <2>6. Carries(rec, Schedule(Capture(t)))
    BY <1>a, <2>5
  <2>7. QED
    BY <2>1, <2>2, <2>5, <2>6
<1>7. CASE BindRun
  <2>1. ASSUME NEW v PROVE Carries(rec, [rec EXCEPT !.backfill = TRUE, !.state = v])
    BY DEF Carries, HasQueue
  <2>2. QED
    BY <1>7, <1>a, <2>1 DEF BindRun
<1>8. CASE Drain \/ StopDrains
  <2>1. Carries(rec, [rec EXCEPT !.scheduled = FALSE])
    BY DEF Carries, HasQueue
  <2>2. QED
    BY <1>8, <1>a, <1>b, <2>1 DEF Drain, StopDrains
<1>9. CASE SessionReplaced
  BY <1>9 DEF SessionReplaced, Carries, HasQueue
<1>10. ASSUME NEW e \in Entries, NoteEntry(e) \/ PendingExpires(e) PROVE Carries(rec, rec')
  <2>1. ASSUME NEW p PROVE Carries(rec, [rec EXCEPT !.pending = p])
    BY DEF Carries, HasQueue
  <2>2. Carries(rec, LookAtLeaf([rec EXCEPT !.pending = rec.pending \cup {e}]))
        /\ Carries(rec, Gap([rec EXCEPT !.pending = rec.pending \ {e}])) /\ Carries(rec, Gap(rec))
    BY <1>a, <1>b, <2>1
  <2>3. QED
    BY <1>10, <2>2 DEF NoteEntry, PendingExpires
<1>11. QED
  BY <1>1, <1>2, <1>3, <1>4, <1>5, <1>6, <1>7, <1>8, <1>9, <1>10

(* A task that is enqueued makes the queue no shorter; a task that is run
   ends no session. *)
LEMMA QueueSteps ==
    ASSUME RecoveryIInv
    PROVE  /\ \A task \in Task : Enqueue(task) =>
                 Len(rec'.queue) >= Len(rec.queue) /\ rec'.cancelled = rec.cancelled
           /\ LiveTask \/ BackgroundTask =>
                 rec'.cancelled = rec.cancelled /\ rec'.closing = rec.closing
           /\ Stop => rec'.closing
           /\ StopEnds => rec'.closing
<1>1. rec \in RecoveryState /\ rec.queue \in Seq(Task)
  BY RecoveryFacts DEF RecoveryState
<1>2. HasQueue(rec)
  BY <1>1 DEF RecoveryState, HasQueue
<1>3. ASSUME NEW task \in Task, Enqueue(task)
      PROVE  Len(rec'.queue) >= Len(rec.queue) /\ rec'.cancelled = rec.cancelled
  <2> DEFINE q == Enqueued(rec.queue, task)
             r == [rec EXCEPT !.queue = q]
  <2>1. rec' \in {Gap(rec), Schedule(r)}
    BY <1>3 DEF Enqueue
  <2>2. Len(q) = Len(rec.queue) + 1 /\ Len(rec.queue) \in Nat
    <3>1. Len(Enqueued(rec.queue, task)) = Len(rec.queue) + 1
      BY <1>1, <1>3, EnqueuedType
    <3>2. QED
      BY <1>1, <3>1
  <2> HIDE DEF q
  <2>3. r.queue = q /\ r.cancelled = rec.cancelled /\ HasQueue(r)
    BY <1>2 DEF HasQueue
  <2> HIDE DEF r
  <2>4. Carries(rec, Gap(rec)) /\ Carries(r, Schedule(r))
    BY <1>2, <2>3, GapCarries
  <2>5. rec'.queue \in {rec.queue, q} /\ rec'.cancelled = rec.cancelled
    BY <2>1, <2>3, <2>4 DEF Carries
  <2>6. QED
    BY <2>2, <2>5
<1>4. ASSUME LiveTask \/ BackgroundTask
      PROVE  rec'.cancelled = rec.cancelled /\ rec'.closing = rec.closing
  <2> DEFINE m == Spend(rec, Head(rec.queue).events)
             r == [m EXCEPT !.queue = Tail(@), !.awaiting = TRUE]
  <2>1. rec' \in Timed(r) \cup {EndDrain(Gap(r))}
    BY <1>4 DEF LiveTask, BackgroundTask, RunTask
  <2>2. Carries(rec, m) /\ HasQueue(m)
    BY <1>2, SpendCarries, CarriesQueued
  <2> HIDE DEF m
  <2>3. r.cancelled = m.cancelled /\ r.closing = m.closing /\ HasQueue(r)
    BY <2>2 DEF HasQueue
  <2> HIDE DEF r
  <2>4. Carries(r, Gap(r)) /\ HasQueue(Gap(r))
    BY <2>3, GapCarries, CarriesQueued
  <2>5. Carries(Gap(r), EndDrain(Gap(r)))
    BY <2>4, EndDrainCarries
  <2>6. Carries(r, rec')
    BY <2>1, <2>3, <2>4, <2>5, TimedCarries, CarriesTwice
  <2>7. QED
    BY <2>2, <2>3, <2>6 DEF Carries
<1>5. ASSUME NEW s, HasQueue(s) PROVE HasStopped(s).closing = s.closing
  BY <1>5 DEF HasStopped, HasQueue
<1>6. Stop => rec'.closing
  <2>1. Stopping(rec).closing /\ HasQueue(Stopping(rec))
    BY <1>2 DEF Stopping, HasQueue
  <2>2. QED
    BY <1>5, <2>1 DEF Stop
<1>7. StopEnds => rec'.closing
  BY <1>2, <1>5 DEF StopEnds
<1>8. QED
  BY <1>3, <1>4, <1>6, <1>7

LEMMA ShorterQueue ==
    ASSUME RecoveryIInv, [RecoveryNext]_recoveryVars,
           Len(rec'.queue) < Len(rec.queue), ~rec'.closing
    PROVE  LiveTask \/ BackgroundTask
<1>1. HasQueue(rec) /\ Len(rec.queue) \in Nat
  BY RecoveryFacts DEF RecoveryState, HasQueue
<1>2. ~Carries(rec, rec') /\ rec' # rec
  BY <1>1 DEF Carries
<1>3. ~\E task \in Task : Enqueue(task)
  <2>1. SUFFICES ASSUME Len(rec'.queue) >= Len(rec.queue) PROVE FALSE
    BY QueueSteps
  <2>2. QED
    BY <1>1, <2>1
<1>4. QED
  BY <1>1, <1>2, <1>3, QueueSteps, SliceCarries, EventCarries DEF RecoveryNext, DrainStep, recoveryVars

LEMMA CancelledBy ==
    ASSUME RecoveryIInv, [RecoveryNext]_recoveryVars, rec'.cancelled # rec.cancelled
    PROVE  Stop \/ StopEnds
<1>1. HasQueue(rec)
  BY RecoveryFacts DEF RecoveryState, HasQueue
<1>2. ~Carries(rec, rec') /\ rec' # rec
  BY DEF Carries
<1>3. QED
  BY <1>1, <1>2, QueueSteps, SliceCarries, EventCarries DEF RecoveryNext, DrainStep, recoveryVars

LEMMA MetaFilesWait ==
    ASSUME RecoveryIInv, [RecoveryNext]_recoveryVars, Len(rec'.queue) < Len(rec.queue),
           Head(rec.queue).background, ~rec'.closing, ~rec.gap
    PROVE  1..known \subseteq counted
<1>1. /\ PhaseInv(rec) /\ Retried(rec) /\ Coverage(rec, known, counted)
  BY RecoveryFacts
<1>2. BackgroundTask
  BY ShorterQueue DEF LiveTask
<1>3. ~rec.closing /\ ~rec.replaying /\ ~rec.leafDirty /\ rec.pc = "background" /\ More(rec)
  BY <1>2, QueueSteps DEF BackgroundTask, RunTask
<1>4. rec.deferred = <<>> /\ rec.replay = <<>> /\ ~Walking(rec) /\ ~rec.truncated
  BY <1>1, <1>3 DEF Retried, PhaseInv
<1>5. Exact(rec) /\ Range(rec.replay) = {} /\ Range(rec.deferred) = {} /\ Range(rec.leafQueue) = {}
      /\ rec.cursor = 0
  BY <1>3, <1>4 DEF Exact, Range, Walking
<1>6. \A e \in 1..known : e \in Found(rec)
  BY <1>1, <1>3, <1>5 DEF Coverage, Findable, InWalk
<1>7. Found(rec) \subseteq counted
  BY <1>1, <1>3, <1>5 DEF Coverage, Remembered
<1>8. QED
  BY <1>6, <1>7

LEMMA AnnouncedIsRead ==
    ASSUME RecoveryIInv, [RecoveryNext]_recoveryVars, rec'.cancelled, ~rec.cancelled,
           rec.owner, rec.initialized, ~rec.gap
    PROVE  rec.pending \cap 1..known \subseteq counted \cup Range(rec.seen)
<1>1. /\ rec \in RecoveryState /\ PhaseInv(rec) /\ Coverage(rec, known, counted) /\ Owns(rec)
  BY RecoveryFacts DEF Owns
<1>2. Stop \/ StopEnds
  BY CancelledBy
<1>3. ~Stop
  <2> SUFFICES ASSUME Stop PROVE FALSE
    OBVIOUS
  <2> DEFINE s == Stopping(rec)
  <2>1. s.leafDirty /\ s.owner = rec.owner /\ s.cancelled = rec.cancelled
    BY <1>1 DEF Stopping, RecoveryState
  <2>2. StopWork(s)
    BY <1>1, <2>1 DEF StopWork, Owns
  <2>3. rec' = s
    BY <2>2 DEF Stop
  <2>4. QED
    BY <2>1, <2>3
<1>4. rec.closing /\ ~Draining(rec) /\ ~rec.leafDirty
  BY <1>1, <1>2, <1>3 DEF StopEnds, StopWork
<1>5. ~Walking(rec) /\ rec.replay = <<>>
  BY <1>1, <1>4 DEF PhaseInv, Draining
<1>6. ASSUME NEW e \in 1..known PROVE e \in Range(rec.seen)
  <2>1. ~rec.truncated
    <3>1. rec.truncated => known = 0
      BY <1>1, <1>4 DEF Coverage, Unasked
    <3>2. known # 0
      BY <1>6
    <3>3. QED
      BY <3>1, <3>2
  <2>2. Exact(rec) /\ Range(rec.replay) = {} /\ Range(rec.leafQueue) = {} /\ rec.cursor = 0
    BY <1>1, <1>5, <2>1 DEF Exact, Range, Walking
  <2>3. e \in Found(rec)
    BY <1>1, <1>4, <2>2 DEF Coverage, Findable, InWalk
  <2>4. QED
    BY <2>3 DEF Found, Contains, Range
<1>7. QED
  BY <1>6

-----------------------------------------------------------------------------
(* The theorems *)

(* In every behaviour nothing that a slice could do is left without a next
   slice, a history that is shown as complete is complete, what was put off is
   read after the entries, and a stop has read what was announced before it. *)
THEOREM RecoveryIsCorrect == RecoverySpec => RecoveryIsSound
<1>1. RecoveryInit => RecoveryIInv
  BY RecoveryStart
<1>2. RecoveryIInv /\ [RecoveryNext]_recoveryVars => RecoveryIInv'
  BY RecoveryKept
<1>3. RecoverySpec => []RecoveryIInv
  BY <1>1, <1>2, PTL DEF RecoverySpec
<1>4. RecoveryIInv => NoLostWakeup /\ ReadyIsComplete
  BY RecoverySafe
<1>5. RecoveryIInv /\ [RecoveryNext]_recoveryVars =>
      [Len(rec'.queue) < Len(rec.queue) /\ Head(rec.queue).background /\ ~rec'.closing =>
          rec.gap \/ 1..known \subseteq counted]_recoveryVars
  BY MetaFilesWait
<1>6. RecoveryIInv /\ [RecoveryNext]_recoveryVars =>
      [rec'.cancelled /\ ~rec.cancelled /\ rec.owner /\ rec.initialized =>
          rec.gap \/ rec.pending \cap 1..known \subseteq counted \cup Range(rec.seen)]_recoveryVars
  BY AnnouncedIsRead
<1>7. QED
  BY <1>3, <1>4, <1>5, <1>6, PTL
  DEF RecoverySpec, RecoveryIsSound, EntriesComeFirst, StopKeepsLive
(* What the run of MCUsage checks of the types: whichever of the three parts
   runs, the variables of all three have the types their code gives them. *)
THEOREM UsageTypesCorrect == SceneSpec => []UsageTypesOK
<1>1. SceneInit => Init /\ PersistInit /\ RecoveryInit
  BY DEF SceneInit
<1>2. [SceneNext]_<<scene, vars, persistVars, recoveryVars>>
      => [Next]_vars /\ [PersistNext]_persistVars /\ [RecoveryNext]_recoveryVars
  BY DEF SceneNext, LedgerStep, PersistStep, RecoveryStep
<1>3. SceneSpec => Spec /\ PersistSpec /\ RecoverySpec
  BY <1>1, <1>2, PTL DEF SceneSpec, Spec, PersistSpec, RecoverySpec
<1>4. QED
  BY <1>3, TypeCorrect, PersistTypesCorrect, RecoveryTypesCorrect, PTL DEF UsageTypesOK
=============================================================================
