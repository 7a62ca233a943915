---------------------------- MODULE UsagePersist ----------------------------
(***************************************************************************)
(* The journal and the checkpoint of one usage session tree, and the       *)
(* collectors of the processes that share them (usage/persist.ts,          *)
(* usage/collector.ts).                                                    *)
(*                                                                         *)
(* A collector keeps an archive of accounting rows.  A single response is  *)
(* appended to the journal; a snapshot, or a batch of several rows, waits  *)
(* for a checkpoint: the whole archive is renamed into place and the       *)
(* journal is emptied after it.  One process holds the writer lease for    *)
(* its session; the others read.  A collector restores the files in        *)
(* slices, while live rows already arrive.                                 *)
(*                                                                         *)
(* A step runs from one await (or one crash point between two system       *)
(* calls) to the next.  A file is the set of rows a reader can parse.      *)
(***************************************************************************)
EXTENDS Naturals, Sequences, FiniteSets

CONSTANTS
    Collectors,     \* processes that open the session tree
    Nobody,         \* no process
    Responses,      \* executions counted once, by one row
    Groups,         \* executions counted by revised snapshots, one row a model
    Parts,          \* models
    Breakdowns,     \* the sets of models a snapshot may have
    MaxRevision,    \* bound on revisions
    JournalRows,    \* maxJournalBytesPerRoot, in rows
    CheckpointRows, \* checkpointTmpBudgetBytes, in rows
    MaxStarts,      \* bound on starts of collectors
    MaxAccepts,     \* bound on the batches accepted
    MaxFaults       \* bound on faults of the disk and lapses of a live writer's lease

ASSUME PersistAssumption ==
    /\ Nobody \notin Collectors
    /\ Responses \cap Groups = {}
    /\ Parts # {} /\ Breakdowns \subseteq (SUBSET Parts) \ {{}}
    /\ MaxRevision \in Nat \ {0} /\ JournalRows \in Nat /\ CheckpointRows \in Nat
    /\ MaxStarts \in Nat /\ MaxAccepts \in Nat /\ MaxFaults \in Nat

VARIABLES
    checkpoint, \* checkpoint.json: whether it can be verified, and its rows
    journal,    \* the rows of journal.jsonl before a line that cannot be read
    tear,       \* a line without an end: none, of a full disk, of another fault
    lease,      \* whose writer lease is on disk
    kept,       \* whether its owner still refreshes it
    coll,       \* the collectors
    starts,     \* how many collectors started
    accepts,    \* how many batches were accepted
    lapsed,     \* whether the lease of a live owner went stale
    faults      \* how many faults there were

persistVars == <<checkpoint, journal, tear, lease, kept, coll, starts, accepts, lapsed, faults>>

Origins == Responses \cup Groups
Row == [exec : Origins, part : Parts, rev : 1..MaxRevision,
        origin : {"unassigned", "turn"}, batch : SUBSET Parts]
(* A write of the chain: the row to append, or the archive of that moment. *)
Checkpoint == {}

(* The rows that no row of the same execution supersedes. *)
Newest(R) == {r \in R : \A q \in R : q.exec = r.exec => q.rev <= r.rev}
Revision(R) == CHOOSE n \in 0..MaxRevision :
                   /\ \A r \in R : r.rev <= n
                   /\ n = 0 \/ \E r \in R : r.rev = n
SameRow(r, q) == r.exec = q.exec /\ r.part = q.part /\ r.rev = q.rev

(* What the next load would read. *)
Readable == (IF checkpoint.ok THEN checkpoint.rows ELSE {}) \cup journal

Stopped == [stage |-> "off", todo |-> {}, restored |-> FALSE, archive |-> {},
            pending |-> {}, live |-> {}, writes |-> <<>>, renamed |-> {},
            truncating |-> FALSE, status |-> "memory", shown |-> "memory",
            readOnly |-> FALSE, writer |-> FALSE, closed |-> FALSE]

PersistInit ==
    /\ \E ok \in BOOLEAN : checkpoint = [ok |-> ok, rows |-> {}]
    /\ journal = {} /\ tear = "none"
    /\ lease = Nobody /\ kept = FALSE
    /\ coll = [p \in Collectors |-> Stopped]
    /\ starts = 0 /\ accepts = 0
    /\ lapsed = FALSE /\ faults = 0

-----------------------------------------------------------------------------
(* Opening and reading the files *)

Fault == faults < MaxFaults /\ faults' = faults + 1

LeaseFree == lease = Nobody \/ ~kept

(* restoreRow(): an older row is passed over, and one that contradicts what
   is known of its revision is refused and makes the collector a reader. *)
Restored(c, R) ==
    LET bad == {r \in R : \E q \in c.archive \cup R : SameRow(q, r) /\ q # r}
    IN  [c EXCEPT !.archive = Newest(@ \cup (R \ bad)), !.readOnly = @ \/ bad # {}]

UpdatedState(c) ==
    [c EXCEPT !.shown = IF c.status = "durable" /\ c.pending # {} THEN "memory" ELSE c.status]

(* restorePersisted(): both files at once, because a live row is about to be
   accepted. *)
RestoredNow(c) ==
    IF c.restored THEN c
    ELSE LET r == Restored(c, Readable)
         IN  UpdatedState([r EXCEPT !.restored = TRUE,
                                    !.readOnly = @ \/ ~checkpoint.ok \/ tear # "none"])

(* The process starts: it takes the writer lease, or protects the files from
   itself for good, and reads the checkpoint. *)
CollectorStart(p) ==
    /\ coll[p].stage = "off" /\ starts < MaxStarts
    /\ starts' = starts + 1
    /\ coll' = [coll EXCEPT ![p] =
          [Stopped EXCEPT !.stage = "checkpoint", !.writer = LeaseFree,
                          !.readOnly = ~LeaseFree \/ ~checkpoint.ok,
                          !.todo = IF checkpoint.ok THEN checkpoint.rows ELSE {}]]
    /\ IF LeaseFree THEN lease' = p /\ kept' = TRUE ELSE UNCHANGED <<lease, kept>>
    /\ UNCHANGED <<checkpoint, journal, tear, accepts, lapsed, faults>>

(* One slice of what was read. *)
RestoreSlice(p) ==
    /\ ~coll[p].closed
    /\ \E r \in coll[p].todo :
        coll' = [coll EXCEPT ![p] = [Restored(coll[p], {r}) EXCEPT !.todo = @ \ {r}]]
    /\ UNCHANGED <<checkpoint, journal, tear, lease, kept, starts, accepts, lapsed, faults>>

(* The checkpoint is done: the journal is read, as it is by then. *)
RestoreJournal(p) ==
    /\ coll[p].stage = "checkpoint" /\ coll[p].todo = {} /\ ~coll[p].closed
    /\ coll' = [coll EXCEPT ![p] = [coll[p] EXCEPT !.stage = "journal", !.todo = journal,
                                                  !.readOnly = @ \/ tear # "none"]]
    /\ UNCHANGED <<checkpoint, journal, tear, lease, kept, starts, accepts, lapsed, faults>>

RestoreEnd(p) ==
    /\ coll[p].stage = "journal" /\ coll[p].todo = {} /\ ~coll[p].closed
    /\ coll' = [coll EXCEPT ![p] = UpdatedState([coll[p] EXCEPT !.stage = "live", !.restored = TRUE])]
    /\ UNCHANGED <<checkpoint, journal, tear, lease, kept, starts, accepts, lapsed, faults>>

-----------------------------------------------------------------------------
(* Accepting rows *)

(* acceptBatch(), after the restore: B is newer than what is known of its
   execution.  A lone response goes to the journal, all else waits for one
   checkpoint. *)
Accepted(c, B) ==
    LET archive == Newest(c.archive \cup B)
        lone    == Cardinality(B) = 1 /\ \A r \in B : r.exec \in Responses
        waits   == \E i \in DOMAIN c.writes : c.writes[i] = Checkpoint
        writes  == IF lone THEN Append(c.writes, {CHOOSE r \in B : TRUE})
                   ELSE IF waits THEN c.writes ELSE Append(c.writes, Checkpoint)
    IN  UpdatedState([c EXCEPT !.archive = archive, !.writes = writes,
                               !.pending = (@ \cup B) \cap archive])

(* A live batch is accepted if it is newer than what is known; a restore
   that is not done is done at once, and its slices go on over it. *)
Accepts(p, B, live) ==
    LET c == RestoredNow(coll[p])
    IN  /\ coll[p].stage # "off" /\ ~coll[p].closed
        /\ accepts < MaxAccepts /\ accepts' = accepts + 1
        /\ \A r \in B, q \in c.archive : q.exec = r.exec => q.rev < r.rev
        /\ coll' = [coll EXCEPT ![p] = [Accepted(c, B) EXCEPT !.live = live]]
        /\ UNCHANGED <<checkpoint, journal, tear, lease, kept, starts, lapsed, faults>>

Rows(e, P, n, origin) == {[exec |-> e, part |-> part, rev |-> n, origin |-> origin, batch |-> P]
                             : part \in P}

(* A subagent's completion arrives before its run is bound to a turn. *)
AcceptResponse(p) ==
    \E e \in Responses :
        Accepts(p, Rows(e, {CHOOSE part \in Parts : TRUE}, 1, "unassigned"), coll[p].live \cup {e})

(* A snapshot of a run's models, of its next revision. *)
AcceptSnapshot(p) ==
    \E e \in Groups, P \in Breakdowns, n \in 1..MaxRevision :
        n = Revision({r \in coll[p].archive : r.exec = e}) + 1 /\ Accepts(p, Rows(e, P, n, "turn"), coll[p].live)

(* drainOriginBackfill(): the run is bound to a turn, and its row is accepted
   once more under a revision nobody used. *)
Backfill(p) ==
    \E e \in coll[p].live, r \in coll[p].archive :
        /\ r.exec = e /\ r.origin = "unassigned" /\ Revision(coll[p].archive) < MaxRevision
        /\ Accepts(p, Rows(e, r.batch, Revision(coll[p].archive) + 1, "turn"), coll[p].live \ {e})

-----------------------------------------------------------------------------
(* The chain of writes *)

Durable(c, R) == UpdatedState([c EXCEPT !.pending = @ \ R, !.status = "durable"])
Failed(c, status) == UpdatedState([c EXCEPT !.status = status])
Refuses(c) == c.readOnly \/ c.status = "full"
NextWrite(p) == IF coll[p].writes = <<>> \/ coll[p].truncating THEN "none"
                ELSE IF Head(coll[p].writes) = Checkpoint THEN "checkpoint" ELSE "row"
Popped(p) == [coll[p] EXCEPT !.writes = Tail(@)]

JournalHasRoom == Cardinality(journal) < JournalRows

(* append(): the row lands, unless the collector is a reader or a limit is
   reached.  A row after one that has no end cannot be read. *)
AppendRow(p) ==
    /\ NextWrite(p) = "row"
    /\ LET c == Popped(p) IN
       IF ~Refuses(c) /\ JournalHasRoom
       THEN /\ journal' = IF tear = "none" THEN journal \cup Head(coll[p].writes) ELSE journal
            /\ coll' = [coll EXCEPT ![p] = Durable(c, Head(coll[p].writes))]
       ELSE /\ coll' = [coll EXCEPT ![p] = Failed(c, IF Refuses(c) THEN c.status ELSE "full")]
            /\ UNCHANGED journal
    /\ UNCHANGED <<checkpoint, tear, lease, kept, starts, accepts, lapsed, faults>>

(* The disk is full, or fails otherwise; a part of the row may be written. *)
AppendFails(p) ==
    /\ NextWrite(p) = "row" /\ ~Refuses(coll[p]) /\ JournalHasRoom /\ Fault
    /\ \E status \in {"full", "memory"} :
         /\ coll' = [coll EXCEPT ![p] = Failed(Popped(p), status)]
         /\ tear' \in {tear} \cup (IF tear = "none" THEN {IF status = "full" THEN "cut" ELSE "fault"}
                                  ELSE {})
    /\ UNCHANGED <<checkpoint, journal, lease, kept, starts, accepts, lapsed>>

StillDurable(c) == IF c.status = "durable" THEN "durable" ELSE "memory"
(* mutant: the file that is there is not looked at. *)
Checkpointable_Unverified(p) == ~Refuses(coll[p]) /\ Cardinality(coll[p].archive) <= CheckpointRows
Checkpointable(p) == ~Refuses(coll[p]) /\ checkpoint.ok
                     /\ Cardinality(coll[p].archive) <= CheckpointRows

(* writeCheckpoint() up to the rename.  One that grew too large is not
   written, and nobody is told; one that cannot be verified is never replaced. *)
CheckpointRename(p) ==
    /\ NextWrite(p) = "checkpoint"
    /\ LET c == Popped(p) IN
       IF Checkpointable(p)
       THEN /\ checkpoint' = [checkpoint EXCEPT !.rows = c.archive]
            /\ coll' = [coll EXCEPT ![p] = [c EXCEPT !.renamed = c.archive, !.truncating = TRUE]]
       ELSE /\ coll' = [coll EXCEPT ![p] = IF Refuses(c) \/ checkpoint.ok THEN UpdatedState(c)
                              ELSE Failed([c EXCEPT !.readOnly = TRUE], StillDurable(c))]
            /\ UNCHANGED checkpoint
    /\ UNCHANGED <<journal, tear, lease, kept, starts, accepts, lapsed, faults>>

(* The disk fails, before the rename or, at the chmod, after it: then a
   checkpoint that landed counts as failed. *)
CheckpointFails(p) ==
    /\ NextWrite(p) = "checkpoint" /\ Checkpointable(p) /\ Fault
    /\ LET c == Popped(p) IN
       \E status \in {"full", StillDurable(c)} :
         /\ coll' = [coll EXCEPT ![p] = Failed(c, status)]
         /\ checkpoint' \in {checkpoint, [checkpoint EXCEPT !.rows = c.archive]}
    /\ UNCHANGED <<journal, tear, lease, kept, starts, accepts, lapsed>>

(* mutant: the rows of the last checkpoint are kept for the next. *)
Truncating_KeepsRows(p) == [coll[p] EXCEPT !.truncating = FALSE, !.pending = @ \ coll[p].renamed]

(* What the checkpoint holds is not pending any more, unless a newer row took
   its place since; the journal is emptied, unless that fails. *)
Truncating(p) == [coll[p] EXCEPT !.truncating = FALSE, !.renamed = {},
                                 !.pending = @ \ coll[p].renamed]
JournalTruncate(p) ==
    /\ coll[p].truncating
    /\ journal' = {} /\ tear' = "none"
    /\ coll' = [coll EXCEPT ![p] = Durable(Truncating(p), {})]
    /\ UNCHANGED <<checkpoint, lease, kept, starts, accepts, lapsed, faults>>
TruncateFails(p) ==
    /\ coll[p].truncating /\ Fault
    /\ \E status \in {"full", StillDurable(coll[p])} :
         coll' = [coll EXCEPT ![p] = Failed(Truncating(p), status)]
    /\ UNCHANGED <<checkpoint, journal, tear, lease, kept, starts, accepts, lapsed>>

(* Another program leaves a checkpoint that cannot be verified. *)
CheckpointDamaged ==
    /\ checkpoint.ok /\ Fault
    /\ checkpoint' = [ok |-> FALSE, rows |-> {}]
    /\ UNCHANGED <<journal, tear, lease, kept, coll, starts, accepts, lapsed>>

-----------------------------------------------------------------------------
(* The end of a collector, and the lease *)

(* checkpointAndClose(): nothing is accepted any more; what was not restored
   is protected; a last checkpoint follows the writes under way. *)
CollectorClose(p) ==
    /\ coll[p].stage # "off" /\ ~coll[p].closed
    /\ coll' = [coll EXCEPT ![p] = [coll[p] EXCEPT !.closed = TRUE, !.todo = {},
                                                  !.readOnly = @ \/ ~coll[p].restored,
                                                  !.writes = Append(@, Checkpoint)]]
    /\ UNCHANGED <<checkpoint, journal, tear, lease, kept, starts, accepts, lapsed, faults>>

(* The lease is released: by name, unless the owner saw that it lost it. *)
CollectorEnd(p) ==
    /\ coll[p].closed /\ coll[p].writes = <<>> /\ ~coll[p].truncating
    /\ coll' = [coll EXCEPT ![p] = Stopped]
    /\ lease' \in IF ~coll[p].writer THEN {lease}
                  ELSE IF lease = p THEN {Nobody} ELSE {lease, Nobody}
    /\ kept' = (kept /\ lease' # Nobody)
    /\ UNCHANGED <<checkpoint, journal, tear, starts, accepts, lapsed, faults>>

(* The process ends; the row it was writing may lack its end. *)
Crash(p) ==
    /\ coll[p].stage # "off"
    /\ coll' = [coll EXCEPT ![p] = Stopped]
    /\ tear' \in {tear} \cup (IF NextWrite(p) = "row" /\ ~Refuses(coll[p]) /\ tear = "none"
                               THEN {"cut"} ELSE {})
    /\ UNCHANGED <<checkpoint, journal, lease, kept, starts, accepts, lapsed, faults>>

(* Nobody refreshed the lease for its stale time: its owner is gone, or was
   suspended and will go on as if it had it. *)
LeaseGoesStale ==
    /\ lease # Nobody /\ kept /\ kept' = FALSE
    /\ IF coll[lease].writer THEN Fault /\ lapsed' = TRUE ELSE UNCHANGED <<lapsed, faults>>
    /\ UNCHANGED <<checkpoint, journal, tear, lease, coll, starts, accepts>>

PersistNext ==
    \/ LeaseGoesStale \/ CheckpointDamaged
    \/ \E p \in Collectors :
         \/ CollectorStart(p) \/ RestoreSlice(p) \/ RestoreJournal(p) \/ RestoreEnd(p)
         \/ AcceptResponse(p) \/ AcceptSnapshot(p) \/ Backfill(p)
         \/ AppendRow(p) \/ AppendFails(p) \/ CheckpointRename(p) \/ CheckpointFails(p)
         \/ JournalTruncate(p) \/ TruncateFails(p)
         \/ CollectorClose(p) \/ CollectorEnd(p) \/ Crash(p)

PersistSpec == PersistInit /\ [][PersistNext]_persistVars

-----------------------------------------------------------------------------
(* Properties *)

CollectorState ==
    [stage : {"off", "checkpoint", "journal", "live"}, todo : SUBSET Row, restored : BOOLEAN,
     archive : SUBSET Row, pending : SUBSET Row, live : SUBSET Responses,
     writes : Seq(SUBSET Row), renamed : SUBSET Row, truncating : BOOLEAN,
     status : {"memory", "durable", "full"}, shown : {"memory", "durable", "full"},
     readOnly : BOOLEAN, writer : BOOLEAN, closed : BOOLEAN]

PersistTypeOK ==
    /\ checkpoint \in [ok : BOOLEAN, rows : SUBSET Row]
    /\ journal \in SUBSET Row /\ tear \in {"none", "cut", "fault"}
    /\ lease \in Collectors \cup {Nobody} /\ kept \in BOOLEAN
    /\ coll \in [Collectors -> CollectorState]
    /\ \A p \in Collectors : coll[p].renamed # {} => coll[p].truncating
    /\ starts \in 0..MaxStarts /\ accepts \in 0..MaxAccepts /\ lapsed \in BOOLEAN
    /\ faults \in 0..MaxFaults

(* A row that a collector does not count as pending would be read back: the
   next load finds its execution at that revision or a later one.  Rows after
   a line that a disk fault spoiled are excepted, and what follows when another
   program damages the checkpoint or a live writer loses its lease. *)
DurableIsReadable ==
    ~lapsed /\ tear # "fault" /\ checkpoint.ok =>
        \A p \in Collectors : \A r \in coll[p].archive \ coll[p].pending :
            \E q \in Readable : q.exec = r.exec /\ q.rev >= r.rev

(* What is readable stays readable, at the same revision or a later one: a
   collector that did not read everything does not replace the checkpoint,
   and a checkpoint that cannot be verified is kept as it is. *)
NothingReadableIsLost ==
    [][~lapsed' => /\ checkpoint'.ok => \A r \in Readable : \E q \in Readable' :
                                           q.exec = r.exec /\ q.rev >= r.rev
                   /\ ~checkpoint.ok => checkpoint' = checkpoint]_persistVars

(* Whenever the processes end, the next load sees every batch whole, and no
   revision with two contents: while no live writer lost its lease, for two
   writers may give one revision to two breakdowns. *)
ReloadIsSound ==
    ~lapsed =>
        /\ \A r \in Newest(Readable) :
              {q.part : q \in {q \in Newest(Readable) : q.exec = r.exec}} = r.batch
        /\ \A r, q \in Readable : SameRow(r, q) => r = q

(* The files keep what the collectors were told is kept: DurableIsReadable,
   ReloadIsSound and NothingReadableIsLost. *)
StorageIsSound == [](DurableIsReadable /\ ReloadIsSound) /\ NothingReadableIsLost
==============================================================================
