--------------------------- MODULE SubagentIngest ---------------------------
(***************************************************************************)
(* How the usage of one subagent run is collected in its parent's session  *)
(* (tps-subagent.ts, tps-subagent-bridge.ts and their use in tps.ts).      *)
(*                                                                         *)
(* The same usage comes by several ways, in any order: a completion event, *)
(* the tool's result in the session log, and meta files that grow in       *)
(* several directories, some without an index in their names.  It is       *)
(* counted by child, or for the run as a whole, once.  Reloads restore     *)
(* what was archived and replay the log.                                   *)
(*                                                                         *)
(* A task of the recovery's queue is a step: it runs without a pause.      *)
(***************************************************************************)
EXTENDS Naturals, Sequences, SequencesExt, FiniteSets, FiniteSetsExt

CONSTANTS
    Files,          \* the meta files the run may write: records [dir, index]
    MaxTime,        \* bound on the clock that dates files and sessions
    ReadsPerScan,   \* perTickEvents: files read by one scan
    QueueLimit,     \* queueSoftLimit
    MaxEvents,      \* bound on events
    MaxReloads      \* bound on reloads

Children == {"0", "1"}
Aggregate == "run"
Keys == Children \cup {Aggregate}

ASSUME IngestAssumption ==
    /\ IsFiniteSet(Files) /\ \A f \in Files : f.index \in Children \cup {"bare"}
    /\ MaxTime \in Nat \ {0} /\ ReadsPerScan \in Nat \ {0}
    /\ QueueLimit \in Nat /\ MaxEvents \in Nat /\ MaxReloads \in Nat

VARIABLES
    disk,       \* when each file was last written (0: never), and if it tells usage
    now,        \* the clock
    since,      \* when the session started
    st,         \* the SubagentIngestState
    ledger,     \* the row counted for each key
    archive,    \* the row a reload finds
    owned,      \* whether the session knows the run for its own
    watched,    \* the directories with a watcher
    notices,    \* the directories whose watcher will call
    timer,      \* whether a scan was put off
    queue,      \* the recovery's tasks
    log,        \* the keys whose tool results are in the session log
    unread,     \* those a reload has yet to replay
    gap,        \* whether a scan or a task was dropped, and that noted
    events, reloads

ingestVars == <<disk, now, since, st, ledger, archive, owned, watched, notices, timer, queue,
                log, unread, gap, events, reloads>>

Dirs == {f.dir : f \in Files}
Time == 0..MaxTime
Sources == {"none", "meta", "bare", "tool", "completion"}
NoRow == [source |-> "none", linked |-> {}]

Granularity(k) == IF k = Aggregate THEN "run" ELSE "child"
Other(k) == IF k = Aggregate THEN "child" ELSE "run"

NewState ==
    [completed |-> {}, restored |-> {}, keys |-> {}, counted |-> {}, markers |-> {},
     snapshot |-> {}, bare |-> {}, rev |-> {}, metaRev |-> [k \in Keys |-> 0],
     pending |-> [k \in Keys |-> 0], mtime |-> [k \in Keys |-> 0]]

IngestInit ==
    /\ disk = [f \in Files |-> [mtime |-> 0, usage |-> FALSE]]
    /\ now = 1 /\ since = 1
    /\ st = NewState
    /\ ledger = [k \in Keys |-> NoRow] /\ archive = ledger
    /\ owned = FALSE /\ watched = {} /\ notices = {} /\ timer = FALSE
    /\ queue = <<>> /\ log = {} /\ unread = {} /\ gap = FALSE
    /\ events = 0 /\ reloads = 0

-----------------------------------------------------------------------------
(* selectFreshSubagentRecords(): which of the records are counted *)

Record(k, source, rev, final) == [key |-> k, source |-> source, rev |-> rev, final |-> final]

Baseline(s, r) == r.key \in s.restored /\ r.rev > 0 /\ ~r.final /\ s.metaRev[r.key] = 0
Quarantined(s, k) == k \in s.restored \cap s.bare /\ k \notin s.counted
Stale(s, r) ==
    /\ r.key \in s.keys /\ ~r.final /\ ~(Quarantined(s, r.key) /\ r.rev = 0)
    /\ r.key \notin s.rev \/ r.rev = 0 \/ s.metaRev[r.key] >= r.rev
Covered(s, r) == Other(r.key) \in s.markers

(* mutant: a run counted by child is counted as a whole, too. *)
Fresh_AnyGranularity(s, r) == r.key \notin s.completed /\ ~Baseline(s, r) /\ ~Stale(s, r)
Fresh(s, r) == r.key \notin s.completed /\ ~Baseline(s, r) /\ ~Stale(s, r) /\ ~Covered(s, r)

With(S, k, yes) == IF yes THEN S \cup {k} ELSE S \ {k}
Selected(s, r) ==
    IF r.key \in s.completed THEN s
    ELSE IF Baseline(s, r) THEN [s EXCEPT !.metaRev[r.key] = r.rev]
    ELSE IF Stale(s, r) THEN s
    ELSE IF Covered(s, r) THEN [s EXCEPT !.keys = @ \cup {r.key}, !.rev = With(@, r.key, r.rev > 0)]
    ELSE [s EXCEPT !.keys = @ \cup {r.key}, !.counted = @ \cup {r.key},
                   !.completed = IF r.source = "completion" THEN @ \cup {r.key} ELSE @,
                   !.rev = With(@, r.key, r.rev > 0),
                   !.metaRev[r.key] = IF r.source \in {"meta", "bare"} THEN r.rev ELSE @,
                   !.snapshot = With(@, r.key, r.source \in {"meta", "bare"}),
                   !.bare = With(@, r.key, r.source = "bare"),
                   !.markers = @ \cup {Granularity(r.key)}]

(* What a step works on: the ingest state and the two places of the rows. *)
Work == [st |-> st, ledger |-> ledger, archive |-> archive]
Does(w) == st' = w.st /\ ledger' = w.ledger /\ archive' = w.archive

(* applySubagentRecords(), for one live record; entry is the log entry it
   came by, if any. *)
Apply(w, r, entry) ==
    LET k   == r.key
        row == [source |-> r.source, linked |-> w.ledger[k].linked \cup w.archive[k].linked \cup entry]
        seen == [w EXCEPT !.st = Selected(@, r)]
    IN  IF ~Fresh(w.st, r) THEN seen
        ELSE [seen EXCEPT !.ledger[k] = row, !.archive[k] = row]
(* linkToolEntry(): the entry is remembered as covered by the rows of its
   key, or of the other granularity. *)
Linked(w, k) ==
    LET rows == {j \in Keys : w.ledger[j] # NoRow /\ (j = k \/ Granularity(j) = Other(k))}
        link(R) == [j \in Keys |-> IF j \in rows THEN [w.ledger[j] EXCEPT !.linked = @ \cup {k}] ELSE R[j]]
    IN  [w EXCEPT !.ledger = link(w.ledger), !.archive = link(w.archive)]

-----------------------------------------------------------------------------
(* Scans of the meta files *)

Exists(f) == disk[f].mtime > 0
Key(f) == IF f.index = "bare" THEN "0" ELSE f.index
Bare(D) == {f \in Files : f.dir \in D /\ f.index = "bare" /\ Exists(f)}
Indexed(D) == {f \in Files : f.dir \in D /\ f.index # "bare" /\ Exists(f)}
Ambiguous(D) == Bare(D) # {} /\ (Cardinality(Bare(D)) > 1 \/ Indexed(D) # {})

(* revokeAmbiguousIndexlessMeta(): a contribution that was inferred is taken
   back when its identity stops being unique, and the markers with it. *)
Revoked(w) ==
    IF ~Ambiguous(Dirs) \/ "0" \notin w.st.bare THEN w
    ELSE LET counted == w.st.counted \ {"0"}
             s == [w.st EXCEPT !.keys = @ \ {"0"}, !.counted = counted, !.bare = @ \ {"0"},
                               !.rev = @ \ {"0"}, !.snapshot = @ \ {"0"}, !.metaRev["0"] = 0,
                               !.pending["0"] = 0, !.mtime["0"] = 0,
                               !.markers = {Granularity(k) : k \in counted}]
         IN  [w EXCEPT !.st = s, !.ledger["0"] = IF "0" \in w.st.snapshot THEN NoRow ELSE @]

(* A file that a scan would read: of this run, of this session, and new or
   grown since it was read, be it that it told nothing. *)
Candidate(s, f) ==
    LET k == Key(f) IN
    /\ Exists(f) /\ owned /\ disk[f].mtime >= since
    /\ f.index = "bare" => ~Ambiguous(Dirs)
    /\ \/ k \notin s.keys
       \/ s.pending[k] > 0 /\ disk[f].mtime # s.pending[k]
       \/ s.pending[k] = 0 /\ disk[f].mtime > s.mtime[k]

(* collectPiSubagentsMetaUsage(): reads the files R, and came to the files of
   reached; what told nothing takes a place among the keys, not to be read
   again before it changes. *)
Reading(w, f) ==
    LET k == Key(f)
        s == [w.st EXCEPT !.keys = @ \cup {k}, !.pending[k] = disk[f].mtime]
        r == Record(k, IF f.index = "bare" THEN "bare" ELSE "meta", disk[f].mtime, FALSE)
        t == [w.st EXCEPT !.pending[k] = 0, !.mtime[k] = disk[f].mtime]
    IN  IF disk[f].usage THEN Apply([w EXCEPT !.st = t], r, {}) ELSE [w EXCEPT !.st = s]
Revived(w, reached) ==
    LET K == {k \in {Key(f) : f \in reached} : w.st.pending[k] > 0}
        s == [w.st EXCEPT !.keys = @ \ K,
                          !.pending = [k \in Keys |-> IF k \in K THEN 0 ELSE @[k]]]
    IN  [w EXCEPT !.st = s]
Collected(w, R, reached) == FoldSet(LAMBDA f, v : Reading(v, f), Revived(w, reached), R)

(* One scan of all directories reads one file of a key.  The budget of reads,
   of bytes or of time may end it after some of the files: one more was reached. *)
MayRead(C) ==
    {R \in SUBSET C : /\ Cardinality(R) <= ReadsPerScan
                      /\ \A f, g \in R : Key(f) = Key(g) => f = g}
MayReach(C, R) == {extra \in SUBSET C : Cardinality(extra) <= 1 /\ (R = C => extra = {})}
ScanResult(w, C, R, extra) ==
    LET read == Collected(w, R, R \cup extra) IN
    [work |-> read, truncated |-> R # C,
     grew |-> Cardinality(read.st.keys) > Cardinality(w.st.keys)]
ScanResults ==
    LET w == Revoked(Work)
        C == {f \in Files : Candidate(w.st, f)}
    IN  UNION {{ScanResult(w, C, R, extra) : extra \in MayReach(C, R)} : R \in MayRead(C)}

-----------------------------------------------------------------------------
(* The queue *)

Event == events < MaxEvents /\ events' = events + 1
Scan == [kind |-> "scan", key |-> Aggregate]
SettleScan == [kind |-> "settle", key |-> Aggregate]
Task(k) == [kind |-> "completion", key |-> k]
Scanning(q) == \E i \in DOMAIN q : q[i].kind \in {"scan", "settle"}

FirstBackground(q) == SelectInSeq(q, LAMBDA t : t.kind # "completion")
Room(q, n) == Len(q) + n <= QueueLimit
(* enqueueBatch(): before the tasks of the background. *)
Enqueued(q, ts) ==
    LET at == FirstBackground(q) IN
    IF at = 0 THEN q \o ts ELSE SubSeq(q, 1, at - 1) \o ts \o SubSeq(q, at, Len(q))

(* ensureSubagentWatcher(): a directory that has appeared is watched, and
   scanned. *)
Present == {f.dir : f \in {f \in Files : Exists(f)}}
Unwatched == Present \ watched
EnsuresWatcher(q, lost) ==
    /\ watched' = watched \cup Present
    /\ IF Unwatched = {} THEN queue' = q /\ gap' = (gap \/ lost)
       ELSE IF Room(q, 1) THEN queue' = Append(q, Scan) /\ gap' = (gap \/ lost)
       ELSE queue' = q /\ gap' = TRUE

-----------------------------------------------------------------------------
(* What happens *)

(* The run writes a file; a watcher of its directory will tell. *)
WriteMeta(f) ==
    /\ now < MaxTime /\ now' = now + 1
    /\ \E usage \in BOOLEAN : disk' = [disk EXCEPT ![f] = [mtime |-> now', usage |-> usage]]
    /\ notices' = notices \cup ({f.dir} \cap watched)
    /\ UNCHANGED <<since, st, ledger, archive, owned, watched, timer, queue, log, unread, gap,
                   events, reloads>>

WatcherCalls(d) ==
    /\ d \in notices
    /\ notices' = notices \ {d} /\ timer' = TRUE
    /\ UNCHANGED <<disk, now, since, st, ledger, archive, owned, watched, queue, log, unread, gap,
                   events, reloads>>

(* onAsyncComplete(): the usage of the children, or of the run if they tell
   none, is enqueued whole or not at all, and only then is the run known. *)
AsyncComplete(K) ==
    /\ Event
    /\ LET ts == SetToSeq({Task(k) : k \in K}) IN
       IF Room(queue, Len(ts))
       THEN /\ owned' = TRUE /\ timer' = TRUE
            /\ EnsuresWatcher(Enqueued(queue, ts), FALSE)
       ELSE /\ gap' = TRUE
            /\ UNCHANGED <<owned, timer, watched, queue>>
    /\ UNCHANGED <<disk, now, since, st, ledger, archive, notices, log, unread, reloads>>

(* A tool's end, or a foreground completion, names the run. *)
RunObserved ==
    /\ Event
    /\ owned' = TRUE /\ timer' = TRUE
    /\ EnsuresWatcher(queue, FALSE)
    /\ UNCHANGED <<disk, now, since, st, ledger, archive, notices, log, unread, reloads>>

(* The tool's result is in the log and the recovery hands it over. *)
ToolEntry(k) ==
    /\ Event /\ k \notin log /\ unread = {}
    /\ log' = log \cup {k}
    /\ Does(Linked(Apply(Work, Record(k, "tool", 1, TRUE), {k}), k))
    /\ UNCHANGED <<disk, now, since, owned, watched, notices, timer, queue, unread, gap, reloads>>

ScanTimerFires ==
    /\ timer /\ timer' = FALSE
    /\ IF Room(queue, 1) THEN queue' = Append(queue, Scan) /\ UNCHANGED gap
       ELSE gap' = TRUE /\ UNCHANGED queue
    /\ UNCHANGED <<disk, now, since, st, ledger, archive, owned, watched, notices, log, unread,
                   events, reloads>>

(* agent_settled: a scan that was put off is dropped for one of its own. *)
Settled ==
    /\ Event
    /\ timer' = FALSE /\ watched' = watched \cup Present
    /\ LET first == IF Unwatched # {} /\ Room(queue, 1) THEN Append(queue, Scan) ELSE queue
           lost == Unwatched # {} /\ ~Room(queue, 1)
       IN  IF Room(first, 1) THEN queue' = Append(first, SettleScan) /\ gap' = (gap \/ lost)
           ELSE queue' = first /\ gap' = TRUE
    /\ UNCHANGED <<disk, now, since, st, ledger, archive, owned, notices, log, unread, reloads>>

RunCompletion ==
    /\ queue # <<>> /\ Head(queue).kind = "completion"
    /\ queue' = Tail(queue)
    /\ Does(Apply(Work, Record(Head(queue).key, "completion", 0, TRUE), {}))
    /\ UNCHANGED <<disk, now, since, owned, watched, notices, timer, log, unread, gap, events, reloads>>

(* A scan waits until the log was replayed.  One that was cut short has
   another follow, if it read something new; a settled turn's has not. *)
RunScan ==
    /\ queue # <<>> /\ Head(queue).kind # "completion" /\ unread = {}
    /\ queue' = Tail(queue)
    /\ \E r \in ScanResults :
         LET again == r.truncated /\ r.grew /\ Head(queue).kind = "scan" IN
         /\ Does(r.work)
         /\ timer' = (timer \/ again) /\ gap' = (gap \/ (r.truncated /\ ~again))
    /\ UNCHANGED <<disk, now, since, owned, watched, notices, log, unread, events, reloads>>

-----------------------------------------------------------------------------
(* Reloads *)

(* restoreSubagentIngestState() and finishRestore(): rows of an inferred
   child are known, not counted. *)
Proven(row) == row.source \notin {"none", "bare"}
(* mutant: an inferred row is counted as any other. *)
RestoredState_Trusting(rows) ==
    LET known == {k \in Keys : rows[k] # NoRow}
    IN  [NewState EXCEPT !.keys = known, !.rev = known, !.restored = known, !.counted = known,
                         !.completed = {k \in known : rows[k].source = "completion"},
                         !.markers = {Granularity(k) : k \in known}]
RestoredState(rows) ==
    LET known   == {k \in Keys : rows[k] # NoRow}
        counted == {k \in known : Proven(rows[k])}
    IN  [NewState EXCEPT !.keys = known, !.rev = known, !.restored = known, !.counted = counted,
                         !.completed = {k \in known : rows[k].source = "completion"},
                         !.snapshot = known \ counted, !.bare = known \ counted,
                         !.markers = {Granularity(k) : k \in counted}]

Reload ==
    /\ reloads < MaxReloads /\ reloads' = reloads + 1 /\ now < MaxTime
    /\ now' = now + 1 /\ since' = now'
    /\ st' = RestoredState(archive)
    /\ ledger' = [k \in Keys |-> IF k \in RestoredState(archive).counted THEN archive[k] ELSE NoRow]
    /\ owned' = FALSE /\ notices' = {} /\ timer' = FALSE
    /\ watched' = Present /\ queue' = IF Present # {} /\ QueueLimit > 0 THEN <<Scan>> ELSE <<>>
    /\ unread' = log /\ gap' = FALSE
    /\ UNCHANGED <<disk, archive, log, events>>

(* A tool result of the past: what its rows were linked to is restored; what
   nothing covers is counted. *)
ReplayEntry(k) ==
    LET rows  == {j \in Keys : k \in archive[j].linked /\ Proven(archive[j])}
        r     == Record(k, "tool", 0, FALSE)
        fresh == Fresh(st, r) \/ (archive[k] # NoRow /\ k \in st.counted)
        row   == [source |-> "tool", linked |-> {}]
    IN  /\ k \in unread /\ unread' = unread \ {k}
        /\ IF rows # {}
           THEN /\ ledger' = [j \in Keys |-> IF j \in rows THEN archive[j] ELSE ledger[j]]
                /\ UNCHANGED <<st, archive>>
           ELSE /\ st' = Selected(st, r)
                /\ IF fresh /\ Proven(archive[k])
                   THEN ledger' = [ledger EXCEPT ![k] = archive[k]] /\ UNCHANGED archive
                   ELSE IF fresh /\ ledger[k] = NoRow
                   THEN ledger' = [ledger EXCEPT ![k] = row] /\ archive' = [archive EXCEPT ![k] = row]
                   ELSE UNCHANGED <<ledger, archive>>
        /\ UNCHANGED <<disk, now, since, owned, watched, notices, timer, queue, log, gap, events, reloads>>

IngestNext ==
    \/ \E f \in Files : WriteMeta(f)
    \/ \E d \in Dirs : WatcherCalls(d)
    \/ \E K \in (SUBSET Children) \cup {{Aggregate}} : AsyncComplete(K)
    \/ RunObserved \/ ScanTimerFires \/ Settled \/ RunCompletion \/ RunScan \/ Reload
    \/ \E k \in Keys : ToolEntry(k) \/ ReplayEntry(k)

IngestSpec == IngestInit /\ [][IngestNext]_ingestVars

-----------------------------------------------------------------------------
(* Properties *)

Rows == [source : Sources, linked : SUBSET Keys]

(* The types, and that what is counted was seen. *)
IngestTypeOK ==
    /\ disk \in [Files -> [mtime : Time, usage : BOOLEAN]] /\ now \in Time /\ since \in Time
    /\ st \in [completed : SUBSET Keys, restored : SUBSET Keys, keys : SUBSET Keys,
               counted : SUBSET Keys, markers : SUBSET {"run", "child"}, snapshot : SUBSET Keys,
               bare : SUBSET Keys, rev : SUBSET Keys, metaRev : [Keys -> Time],
               pending : [Keys -> Time], mtime : [Keys -> Time]]
    /\ st.completed \subseteq st.counted /\ st.bare \subseteq {"0"}
    /\ ledger \in [Keys -> Rows] /\ archive \in [Keys -> Rows]
    /\ owned \in BOOLEAN /\ watched \subseteq Dirs /\ notices \subseteq watched
    /\ timer \in BOOLEAN /\ gap \in BOOLEAN
    /\ queue \in Seq([kind : {"completion", "scan", "settle"}, key : Keys])
    /\ Len(queue) <= QueueLimit /\ unread \subseteq log /\ log \subseteq Keys
    /\ events \in 0..MaxEvents /\ reloads \in 0..MaxReloads

(* The usage of a run is never counted both for its children and for the run
   as a whole, whichever way each came first, and after a reload. *)
CountedOnce == ledger[Aggregate] = NoRow \/ \A k \in Children : ledger[k] = NoRow

(* What the ledger holds is what the ingest state takes for counted: else a
   later way would count it again, or be refused for nothing. *)
LedgerAgrees == \A k \in Keys : ledger[k] # NoRow <=> k \in st.counted

(* A child's completion is final: no file, result or reload replaces it. *)
CompletionIsFinal ==
    [][\A k \in Keys : ledger[k].source = "completion" => ledger'[k].source = "completion"]_ingestVars

(* After a scan that finds the identity of an indexless file no longer unique
   nothing inferred from it is counted; a reload does not bring it back. *)
InferredIsRevoked ==
    [][/\ Len(queue') < Len(queue) /\ Head(queue).kind # "completion" /\ Ambiguous(Dirs) =>
             ledger'["0"].source # "bare"
       /\ reloads' # reloads => ledger'["0"].source # "bare"]_ingestVars

(* A file that tells something new has a scan ahead of it, unless its
   directory is not watched yet, or something was dropped and that noted.
   Excepted are a child that has completed, and one that a reload restored:
   its first new file sets a baseline. *)
NoStrandedFile ==
    \A f \in Files : Candidate(st, f) /\ Key(f) \notin st.completed \cup st.restored =>
        timer \/ Scanning(queue) \/ f.dir \in notices \/ f.dir \notin watched \/ gap

(* Each subagent's usage is counted by one way, and none is left behind:
   CountedOnce, LedgerAgrees and NoStrandedFile. *)
CountedByOneWay == CountedOnce /\ LedgerAgrees /\ NoStrandedFile

(* What is final stays, what was inferred does not: CompletionIsFinal and
   InferredIsRevoked. *)
FinalOrRevoked == CompletionIsFinal /\ InferredIsRevoked
==============================================================================
