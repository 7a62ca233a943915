-------------------------- MODULE SessionRecovery --------------------------
(***************************************************************************)
(* How the usage of a session is found in its log (usage/                  *)
(* session-recovery.ts): every public entry is read once, whether a replay *)
(* of the whole log, a walk back from its leaf or an event found it first, *)
(* and live work is done between, a bounded slice at a time.               *)
(*                                                                         *)
(* The entries are numbered in the order pi appends them; each is the      *)
(* parent of the next.  A slice runs without a pause from one awaited task *)
(* to the next: between, nothing else can run.                             *)
(***************************************************************************)
EXTENDS Naturals, Sequences, SequencesExt, FiniteSets

CONSTANTS
    MaxEntries,         \* bound on the entries of the log
    Owner,              \* the entry that proves who launched an entry's run, or 0
    RecoveryPerTick,    \* perTickEvents: what one slice may do
    SeenCapacity,       \* maxMemoryObservations: the entries remembered
    Orphans,            \* maxPendingOrphans: the associations remembered
    QueueLimit,         \* queueSoftLimit
    MaxEvents           \* bound on the events

Entries == 1..MaxEntries

ASSUME RecoveryAssumption ==
    /\ MaxEntries \in Nat /\ RecoveryPerTick \in Nat \ {0} /\ SeenCapacity \in Nat \ {0}
    /\ Orphans \in Nat /\ QueueLimit \in Nat /\ MaxEvents \in Nat
    /\ Owner \in [Entries -> 0..MaxEntries] /\ \A e \in Entries : Owner[e] < e

VARIABLES
    log,        \* how many entries pi appended
    rec,        \* the SessionRecovery
    counted,    \* the entries that were counted
    known,      \* how long the log was when discovery was last asked for, but by a walk's way
    events      \* how many events there were

recoveryVars == <<log, rec, counted, known, events>>

Task == [background : BOOLEAN, events : {1, RecoveryPerTick}]

RecoveryInit ==
    /\ log \in 0..MaxEntries
    /\ counted = {} /\ known = log /\ events = 0
    /\ rec = [owner |-> TRUE, initialized |-> FALSE, closing |-> FALSE, cancelled |-> FALSE,
              scheduled |-> FALSE, pc |-> "idle", awaiting |-> FALSE, count |-> 0,
              seen |-> <<>>, pending |-> {}, deferred |-> <<>>,
              queue |-> <<>>, backfill |-> FALSE, runs |-> {},
              replaying |-> TRUE, truncated |-> log > SeenCapacity,
              replay |-> SubSeq([e \in 1..log |-> e],
                                IF log > SeenCapacity THEN log - SeenCapacity + 1 ELSE 1, log),
              boundaryDirty |-> FALSE, timer |-> FALSE, rested |-> FALSE,
              leafDirty |-> FALSE, cursor |-> 0, leafQueue |-> <<>>,
              continuing |-> FALSE, processed |-> FALSE,
              discoveryStopped |-> FALSE, idle |-> FALSE,
              state |-> "recovering", gap |-> FALSE]

-----------------------------------------------------------------------------
(* Helpers *)

Owns(r) == r.owner /\ ~r.cancelled
Draining(r) == r.pc # "idle"
Gap(r) == [r EXCEPT !.gap = TRUE, !.state = IF @ = "ready" THEN "partial" ELSE @]

Schedule(r) ==
    IF r.initialized /\ ~r.closing /\ ~Draining(r) /\ Owns(r)
    THEN [r EXCEPT !.scheduled = TRUE] ELSE r

LookAtLeaf(r) == Schedule([r EXCEPT !.leafDirty = TRUE])

Replay(n) == SubSeq([e \in 1..n |-> e], IF n > SeenCapacity THEN n - SeenCapacity + 1 ELSE 1, n)
Capture(r) ==
    IF r.discoveryStopped THEN r
    ELSE IF r.replaying \/ ~Owns(r) THEN [r EXCEPT !.boundaryDirty = TRUE]
    ELSE [r EXCEPT !.replaying = TRUE, !.replay = Replay(log), !.truncated = log > SeenCapacity,
                   !.rested = FALSE, !.boundaryDirty = FALSE]

(* The index is full: the log is replayed and probed no more. *)
StopDiscovery(r) ==
    IF r.discoveryStopped THEN r
    ELSE Gap([r EXCEPT !.discoveryStopped = TRUE, !.truncated = FALSE, !.replaying = FALSE,
                       !.replay = <<>>, !.boundaryDirty = FALSE, !.cursor = 0,
                       !.deferred = <<>>, !.idle = FALSE, !.timer = FALSE])

Walking(r) == r.leafQueue # <<>> \/ r.cursor # 0

(* Up to RecoveryPerTick entries from e back to the first that was seen. *)
Unseen(r, e) == {k \in 1..e : \A j \in k..e : ~Contains(r.seen, j)}
LeafSlice(r) ==
    LET from  == IF r.cursor # 0 THEN r.cursor ELSE log
        older == {k \in Unseen(r, from) : k + RecoveryPerTick <= from}
        walk  == Cardinality(Unseen(r, from) \ older)
    IN  [r EXCEPT !.leafQueue = [i \in 1..walk |-> from - walk + i],   \* the oldest first
                  !.cursor = IF older = {} THEN 0 ELSE from - RecoveryPerTick]

(* process(): an entry is counted the first time it is seen.  One whose run
   nobody owns yet is put off until the replay is done. *)
Resolved(r, e) == Owner[e] = 0 \/ Owner[e] \in r.runs
Remember(r, e) ==
    IF Contains(r.seen, e) THEN r
    ELSE IF Len(r.seen) < SeenCapacity THEN [r EXCEPT !.seen = Append(@, e)]
    ELSE LET s == StopDiscovery(r) IN
         IF r.replaying THEN s ELSE [s EXCEPT !.seen = Append(Tail(@), e)]
Process(r, e) ==
    IF Contains(r.seen, e) THEN r
    ELSE LET s == [Remember(r, e) EXCEPT !.pending = @ \ {e}, !.runs = @ \cup ({e} \cap Range(Owner))]
         IN  IF ~Contains(Remember(r, e).seen, e) THEN Remember(r, e)
             ELSE IF Resolved(r, e) THEN s
             ELSE IF s.replaying /\ ~s.closing /\ Len(s.deferred) < Orphans
                  THEN [s EXCEPT !.deferred = Append(@, e)]
             ELSE Gap(s)
Counted(r, e) ==
    IF Contains(r.seen, e) \/ ~Contains(Remember(r, e).seen, e) \/ ~Resolved(r, e)
    THEN counted ELSE counted \cup {e}

-----------------------------------------------------------------------------
(* Events *)

(* No step of a slice is under way, but for a task it waits for. *)
Free == Draining(rec) => rec.awaiting

Event == events < MaxEvents /\ events' = events + 1

(* A walk from the leaf that is under way covers what it started from; an
   entry that came since waits for the next time. *)
Asked == IF Walking(rec) THEN known ELSE log

(* mutant: the log is never probed. *)
Initialize_NoProbe ==
    /\ Free /\ ~rec.initialized /\ Owns(rec)
    /\ rec' = Schedule([rec EXCEPT !.initialized = TRUE])
    /\ UNCHANGED <<log, counted, known, events>>
(* start(): the files were restored; the snapshot of the log waits. *)
Initialize ==
    /\ Free /\ ~rec.initialized /\ Owns(rec)
    /\ rec' = Schedule([rec EXCEPT !.initialized = TRUE, !.idle = TRUE])
    /\ UNCHANGED <<log, counted, known, events>>

AppendEntry ==
    /\ Free /\ log < MaxEntries
    /\ log' = log + 1
    /\ UNCHANGED <<rec, counted, known, events>>

(* An event announces an entry, before or after pi appends it. *)
NoteEntry(e) ==
    /\ Free /\ e \in {log, log + 1} \ rec.pending /\ ~rec.closing /\ Owns(rec) /\ Event
    /\ IF Cardinality(rec.pending) < Orphans
       THEN rec' = LookAtLeaf([rec EXCEPT !.pending = @ \cup {e}]) /\ known' = Asked
       ELSE rec' = Gap(rec) /\ UNCHANGED known
    /\ UNCHANGED <<log, counted>>

PendingExpires(e) ==
    /\ Free /\ e \in rec.pending /\ Owns(rec)
    /\ rec' = Gap([rec EXCEPT !.pending = @ \ {e}])
    /\ UNCHANGED <<log, counted, known, events>>

(* The turn has settled, or a summary was made. *)
Boundary ==
    /\ Free /\ ~rec.closing /\ ~rec.discoveryStopped /\ Owns(rec) /\ Event
    /\ rec' = LookAtLeaf([rec EXCEPT !.boundaryDirty = TRUE]) /\ known' = Asked
    /\ UNCHANGED <<log, counted>>

(* /calls hands over its snapshot of the log. *)
ReconcileSnapshot ==
    /\ Free /\ ~rec.closing /\ ~rec.discoveryStopped /\ Owns(rec) /\ Event
    /\ IF ~rec.replaying /\ log = Len(rec.seen)
       THEN rec' = [rec EXCEPT !.boundaryDirty = FALSE, !.timer = FALSE] /\ UNCHANGED known
       ELSE LET r == LookAtLeaf([rec EXCEPT !.state = "recovering", !.boundaryDirty = TRUE])
            IN  rec' = (IF ~r.replaying /\ r.rested THEN Capture(r) ELSE r) /\ known' = Asked
    /\ UNCHANGED <<log, counted>>

IdleProbe ==
    /\ Free /\ rec.idle /\ ~rec.closing /\ Owns(rec)
    /\ rec' = LookAtLeaf(rec) /\ known' = Asked
    /\ UNCHANGED <<log, counted, events>>

(* reconcileIntervalMs have passed since the last snapshot. *)
IntervalPasses ==
    /\ Free /\ ~rec.rested
    /\ rec' = LET r == [rec EXCEPT !.rested = TRUE] IN
              IF ~r.timer THEN r
              ELSE Schedule(IF ~r.replaying /\ r.boundaryDirty /\ ~r.closing
                            THEN Capture([r EXCEPT !.timer = FALSE])
                            ELSE [r EXCEPT !.timer = FALSE])
    /\ UNCHANGED <<log, counted, known, events>>

(* enqueueBatch(): live tasks before background ones, or a gap. *)
FirstBackground(q) == SelectInSeq(q, LAMBDA t : t.background)
Enqueued(q, task) ==
    LET at == FirstBackground(q) IN
    IF task.background \/ at = 0 THEN Append(q, task) ELSE InsertAt(q, at, task)
Enqueue(task) ==
    /\ Free /\ ~rec.closing /\ Owns(rec) /\ Event
    /\ rec' = IF Len(rec.queue) >= QueueLimit THEN Gap(rec)
              ELSE Schedule([rec EXCEPT !.queue = Enqueued(@, task)])
    /\ UNCHANGED <<log, counted, known>>

(* bindRun(): executions counted before are to be given their turn. *)
BindRun ==
    /\ Free /\ ~rec.closing /\ Owns(rec) /\ Event /\ ~rec.backfill
    /\ rec' = Schedule([rec EXCEPT !.backfill = TRUE,
                                   !.state = IF @ = "ready" THEN "recovering" ELSE @])
    /\ UNCHANGED <<log, counted, known>>

-----------------------------------------------------------------------------
(* drain(): one slice.  Time may be up after any item of it. *)

Spend(r, n) == [r EXCEPT !.count = @ + n]
More(r) == r.count < RecoveryPerTick
Timed(r) == {r, [r EXCEPT !.count = RecoveryPerTick]}
TickAllows(r, task) == r.count + task.events <= RecoveryPerTick

StartDrain(r) == [r EXCEPT !.pc = "live", !.count = 0]
Drain ==
    /\ rec.scheduled /\ ~Draining(rec)
    /\ rec' = IF Owns(rec) THEN StartDrain([rec EXCEPT !.scheduled = FALSE])
              ELSE [rec EXCEPT !.scheduled = FALSE]
    /\ UNCHANGED <<log, counted, known, events>>

(* finally: a next slice, if there is work it could do. *)
RunnableQueue(r) ==
    r.queue # <<>> /\ (~Head(r.queue).background \/ r.closing \/ (~r.replaying /\ ~r.leafDirty))
EndDrain(r) ==
    LET s == [r EXCEPT !.pc = "idle", !.awaiting = FALSE, !.count = 0,
                       !.continuing = FALSE, !.processed = FALSE]
    IN  IF \/ RunnableQueue(s) \/ s.backfill
           \/ ~s.closing /\ (s.replaying \/ s.leafDirty \/ s.deferred # <<>>)
        THEN Schedule(s) ELSE s

RunTask(pc) ==
    /\ rec.pc = pc /\ Owns(rec) /\ rec.queue # <<>> /\ More(rec)
    /\ TickAllows(rec, Head(rec.queue))
    /\ LET r == [Spend(rec, Head(rec.queue).events) EXCEPT !.queue = Tail(@), !.awaiting = TRUE]
       IN  rec' \in Timed(r) \cup {EndDrain(Gap(r))}
    /\ UNCHANGED <<log, counted, known, events>>

LiveTask == rec.queue # <<>> /\ ~Head(rec.queue).background /\ RunTask("live")
BackgroundTask == ~rec.replaying /\ ~rec.leafDirty /\ RunTask("background")

Abandon ==
    /\ rec.pc \in {"live", "background"} /\ ~Owns(rec)
    /\ rec' = EndDrain(rec)
    /\ UNCHANGED <<log, counted, known, events>>

(* A live task that does not fit keeps its place, before any entry. *)
HeldBack(r) == IF r.queue # <<>> /\ ~Head(r.queue).background THEN [r EXCEPT !.count = RecoveryPerTick] ELSE r
StartLeaf ==
    /\ rec.pc = "live" /\ Owns(rec)
    /\ ~(rec.queue # <<>> /\ ~Head(rec.queue).background /\ More(rec) /\ TickAllows(rec, Head(rec.queue)))
    /\ rec' = LET r == [HeldBack(rec) EXCEPT !.awaiting = FALSE] IN
              IF ~r.leafDirty THEN [r EXCEPT !.pc = "entries"]
              ELSE LET s == [r EXCEPT !.pc = "leaf", !.leafDirty = FALSE, !.processed = FALSE,
                                      !.continuing = Walking(r)]
                   IN  IF s.leafQueue = <<>> THEN LeafSlice(s) ELSE s
    /\ UNCHANGED <<log, counted, known, events>>

LeafEntry ==
    /\ rec.pc = "leaf" /\ rec.leafQueue # <<>> /\ More(rec)
    /\ LET e == Head(rec.leafQueue)
           r == [Spend(rec, 1) EXCEPT !.leafQueue = Tail(@), !.processed = TRUE]
       IN  rec' \in Timed(Process(r, e)) /\ counted' = Counted(r, e)
    /\ UNCHANGED <<log, known, events>>

EndLeaf ==
    /\ rec.pc = "leaf" /\ (rec.leafQueue = <<>> \/ ~More(rec))
    /\ rec' = [rec EXCEPT !.pc = "entries",
                  !.leafDirty = \/ Walking(rec)
                                \/ ~rec.discoveryStopped /\ rec.processed /\ rec.continuing]
    /\ UNCHANGED <<log, counted, known, events>>

ReplayEntry ==
    /\ rec.pc = "entries" /\ ~rec.closing /\ rec.replay # <<>> /\ More(rec)
    /\ LET e == Head(rec.replay)
           s == Process(Spend(rec, 1), e)
       IN  /\ rec' \in Timed([s EXCEPT !.replay = IF s.replaying THEN Tail(@) ELSE <<>>])
           /\ counted' = Counted(rec, e)
    /\ UNCHANGED <<log, known, events>>

EndReplay ==
    /\ rec.pc = "entries" /\ (rec.closing \/ rec.replay = <<>> \/ ~More(rec))
    /\ rec' = LET r == [rec EXCEPT !.pc = "deferred"] IN
              IF ~r.replaying \/ r.replay # <<>> THEN r
              ELSE LET s == [r EXCEPT !.replaying = FALSE] IN
                   IF r.truncated THEN StopDiscovery(s) ELSE s
    /\ UNCHANGED <<log, counted, known, events>>

(* One retry of what was put off. *)
RetryDeferred ==
    /\ rec.pc = "deferred" /\ ~rec.replaying /\ ~rec.closing /\ rec.deferred # <<>> /\ More(rec)
    /\ LET e == Head(rec.deferred)
           r == [Spend(rec, 1) EXCEPT !.deferred = Tail(@)]
       IN  IF Resolved(r, e)
           THEN rec' \in Timed(r) /\ counted' = counted \cup {e}
           ELSE rec' \in Timed(Gap(r)) /\ UNCHANGED counted
    /\ UNCHANGED <<log, known, events>>

EndDeferred ==
    /\ rec.pc = "deferred"
    /\ rec.replaying \/ rec.closing \/ rec.deferred = <<>> \/ ~More(rec)
    /\ rec' = LET r == [rec EXCEPT !.pc = "background"] IN
              IF r.replaying \/ r.closing \/ ~r.boundaryDirty THEN r
              ELSE IF r.rested THEN Capture(r) ELSE [r EXCEPT !.timer = TRUE]
    /\ UNCHANGED <<log, counted, known, events>>

(* The backfill, if there is room for it, and the verdict. *)
FinishSlice ==
    /\ rec.pc = "background" /\ Owns(rec)
    /\ ~(/\ ~rec.replaying /\ ~rec.leafDirty /\ rec.queue # <<>> /\ More(rec)
         /\ TickAllows(rec, Head(rec.queue)))
    /\ rec' = LET r == IF More(rec) THEN [rec EXCEPT !.backfill = FALSE] ELSE rec
                  done == /\ ~r.replaying /\ r.queue = <<>> /\ ~r.leafDirty
                          /\ r.deferred = <<>> /\ ~r.backfill
              IN  EndDrain(IF done THEN [r EXCEPT !.state = IF r.gap THEN "partial" ELSE "ready"]
                           ELSE r)
    /\ UNCHANGED <<log, counted, known, events>>

-----------------------------------------------------------------------------
(* The end *)

(* mutant: the leaf is not looked at again. *)
Stopping_AtOnce(r) == [r EXCEPT !.closing = TRUE, !.idle = FALSE, !.timer = FALSE,
                                !.scheduled = FALSE, !.replaying = FALSE, !.replay = <<>>,
                                !.deferred = <<>>, !.boundaryDirty = FALSE, !.cursor = 0,
                                !.leafQueue = <<>>, !.leafDirty = FALSE]
(* stopAndDrain(): no replay any more; the leaf is looked at once more, and
   slices run until there is no work, which may be at once. *)
StopWork(r) == Owns(r) /\ (Draining(r) \/ r.queue # <<>> \/ r.leafDirty \/ r.backfill)
HasStopped(r) == [r EXCEPT !.cancelled = TRUE, !.queue = <<>>, !.leafDirty = FALSE, !.cursor = 0,
                        !.leafQueue = <<>>, !.pending = {}]
Stopping(r) == [r EXCEPT !.closing = TRUE, !.idle = FALSE, !.timer = FALSE, !.scheduled = FALSE,
                         !.replaying = FALSE, !.replay = <<>>, !.deferred = <<>>,
                         !.boundaryDirty = FALSE, !.cursor = 0, !.leafQueue = <<>>,
                         !.leafDirty = r.initialized /\ Owns(r)]
Stop ==
    /\ Free /\ ~rec.closing
    /\ rec' = (IF StopWork(Stopping(rec)) THEN Stopping(rec) ELSE HasStopped(Stopping(rec)))
    /\ known' = IF rec.initialized /\ ~Walking(rec) /\ ~rec.truncated THEN log ELSE 0
    /\ UNCHANGED <<log, counted, events>>

StopDrains ==
    /\ rec.closing /\ StopWork(rec) /\ ~Draining(rec)
    /\ rec' = StartDrain(rec)
    /\ UNCHANGED <<log, counted, known, events>>

StopEnds ==
    /\ Free /\ rec.closing /\ ~rec.cancelled /\ ~StopWork(rec)
    /\ rec' = HasStopped(rec)
    /\ UNCHANGED <<log, counted, known, events>>

(* The next session starts before this one has ended. *)
SessionReplaced ==
    /\ Free /\ rec.owner
    /\ rec' = [rec EXCEPT !.owner = FALSE]
    /\ UNCHANGED <<log, counted, known, events>>

DrainStep ==
    \/ LiveTask \/ StartLeaf \/ LeafEntry \/ EndLeaf \/ ReplayEntry \/ EndReplay
    \/ RetryDeferred \/ EndDeferred \/ BackgroundTask \/ FinishSlice \/ Abandon

RecoveryNext ==
    \/ Initialize \/ AppendEntry \/ Boundary \/ ReconcileSnapshot \/ IdleProbe
    \/ IntervalPasses \/ BindRun \/ Drain \/ DrainStep
    \/ Stop \/ StopDrains \/ StopEnds \/ SessionReplaced
    \/ \E e \in Entries : NoteEntry(e) \/ PendingExpires(e)
    \/ \E task \in Task : Enqueue(task)

RecoverySpec == RecoveryInit /\ [][RecoveryNext]_recoveryVars

(* What is awaited ends, immediates run, and a timer that is due fires though
   slices come between. *)
RecoveryFairness ==
    /\ WF_recoveryVars(Initialize) /\ WF_recoveryVars(Drain) /\ WF_recoveryVars(DrainStep)
    /\ SF_recoveryVars(IdleProbe) /\ SF_recoveryVars(IntervalPasses)
    /\ WF_recoveryVars(StopDrains) /\ WF_recoveryVars(StopEnds)

-----------------------------------------------------------------------------
(* Properties *)

RecoveryState ==
    [owner : BOOLEAN, initialized : BOOLEAN, closing : BOOLEAN, cancelled : BOOLEAN,
     scheduled : BOOLEAN, awaiting : BOOLEAN, count : 0..RecoveryPerTick, seen : Seq(Entries),
     pc : {"idle", "live", "leaf", "entries", "deferred", "background"},
     pending : SUBSET (1..MaxEntries + 1), deferred : Seq(Entries), queue : Seq(Task),
     backfill : BOOLEAN, runs : SUBSET Entries, replaying : BOOLEAN, truncated : BOOLEAN,
     replay : Seq(Entries), boundaryDirty : BOOLEAN, timer : BOOLEAN, rested : BOOLEAN,
     leafDirty : BOOLEAN, cursor : 0..MaxEntries, leafQueue : Seq(Entries),
     continuing : BOOLEAN, processed : BOOLEAN, discoveryStopped : BOOLEAN,
     idle : BOOLEAN, state : {"recovering", "ready", "partial"}, gap : BOOLEAN]

(* The types, the capacities, and that an entry is remembered once. *)
RecoveryTypeOK ==
    /\ log \in 0..MaxEntries /\ counted \in SUBSET Entries /\ known \in 0..MaxEntries
    /\ events \in 0..MaxEvents
    /\ rec \in RecoveryState
    /\ Len(rec.seen) <= SeenCapacity /\ Cardinality(Range(rec.seen)) = Len(rec.seen)
    /\ Len(rec.queue) <= QueueLimit /\ Len(rec.deferred) <= Orphans
    /\ Cardinality(rec.pending) <= Orphans

(* Nothing that a slice could do waits for an event that may never come:
   work that was found or enqueued while a slice ran, was awaited or was cut
   short has its next slice, or the timer that starts it, under way. *)
NoLostWakeup ==
    rec.initialized /\ ~rec.closing /\ Owns(rec) /\ ~Draining(rec) =>
        /\ RunnableQueue(rec) \/ rec.backfill \/ rec.replaying \/ rec.leafDirty \/ rec.deferred # <<>>
               => rec.scheduled
        /\ rec.boundaryDirty => rec.scheduled \/ rec.timer

(* The history is shown as complete only if every entry of the log when
   discovery was last asked for has been counted: by the replay, by the walk
   from the leaf or by its retry, in whatever order they came to it.  What is
   asked for while a walk is under way is excepted: see Asked. *)
ReadyIsComplete ==
    rec.state = "ready" /\ ~rec.closing /\ Owns(rec)
    /\ ~Draining(rec) /\ ~rec.scheduled /\ ~rec.boundaryDirty =>
        1..known \subseteq counted

(* Meta files, which may claim an execution under another name, are read
   after the entries that were known have claimed theirs. *)
EntriesComeFirst ==
    [][Len(rec'.queue) < Len(rec.queue) /\ Head(rec.queue).background /\ ~rec'.closing =>
          rec.gap \/ 1..known \subseteq counted]_recoveryVars

(* An announced entry that is in the log when the session stops has been read
   before the stop returns, unless a walk from the leaf was under way, or the
   log is longer than the index. *)
StopKeepsLive ==
    [][rec'.cancelled /\ ~rec.cancelled /\ rec.owner /\ rec.initialized =>
          rec.gap \/ rec.pending \cap 1..known \subseteq counted \cup Range(rec.seen)]_recoveryVars

(* What pi appends is found without an event that says so. *)
EntryIsFound ==
    \A e \in Entries : e <= log ~> e \in counted \/ rec.gap \/ rec.closing \/ ~rec.owner

(* A stop returns, though entries and tasks keep its slices busy. *)
RecoveryStops == rec.closing ~> rec.cancelled

(* What a slice leaves has a next one, the verdict is true, and what was
   announced comes first and is not dropped: NoLostWakeup, ReadyIsComplete,
   EntriesComeFirst and StopKeepsLive. *)
RecoveryIsSound == [](NoLostWakeup /\ ReadyIsComplete) /\ EntriesComeFirst /\ StopKeepsLive

(* Recovery ends, one way or the other: EntryIsFound and RecoveryStops. *)
RecoveryEnds == EntryIsFound /\ RecoveryStops
==============================================================================
