----------------------------- MODULE UsageLedger -----------------------------
(***************************************************************************)
(* The usage ledger of one session tree (extensions/usage/ledger.ts) as    *)
(* its collector feeds it: observations of parent calls, subagents and     *)
(* restored files, delivered in any order, repeated and revised.           *)
(*                                                                         *)
(* ingestBatch runs on a trial copy, one observation at a time, and takes  *)
(* it over when all were accepted; a step of the trial is a step of that   *)
(* loop.  Nothing else runs meanwhile: JavaScript does not interrupt it.   *)
(***************************************************************************)
EXTENDS UsageObservation, FiniteSets

CONSTANTS
    Batches,    \* what the sources may deliver at once
    Progress,   \* executions whose id starts with "toolprogress:"
    Capacity,   \* maxMemoryObservations
    PerTick,    \* perTickEvents, the largest batch
    Elsewhere   \* archived identities whose source is switched off now

ASSUME BoundsAssumption == Capacity \in Nat /\ PerTick \in Nat /\ Elsewhere \in Nat
ASSUME BatchesAssumption == Batches \subseteq (SUBSET Observations) \ {{}}

(* Progress of a tool call is always reported as provisional. *)
ASSUME ProgressAssumption ==
    \A o \in Observations : o.exec \in Progress => o.phase = "running"

VARIABLES
    ledger,     \* records and snapshotGroups
    trial,      \* the batch being tried
    uncounted,  \* uncountedSpend: the totals are a lower bound
    cache,      \* totalsCache and modelsCache
    offered     \* history: observations whose delivery has ended

vars == <<ledger, trial, uncounted, cache, offered>>

(* snapshotGroups: the revision of a group and its rows; {} is no entry. *)
GroupIds == {"self", "subtree"} \X Executions
NoGroup == [rev |-> 0, keys |-> {}]
GroupOf(o) == <<o.scope, o.exec>>

Empty == [records |-> {}, groups |-> [g \in GroupIds |-> NoGroup]]
Idle == [on |-> FALSE, ledger |-> Empty, todo |-> {}, done |-> {}, changed |-> FALSE]
NoCache == [filled |-> FALSE, rows |-> {}, unsure |-> FALSE]

Ledgers == [records : SUBSET Observations,
            groups : [GroupIds -> [rev : Nat, keys : SUBSET Partitions]]]

TypeOK ==
    /\ ledger \in Ledgers
    /\ trial \in [on : BOOLEAN, ledger : Ledgers, todo : SUBSET Observations,
                  done : SUBSET Observations, changed : BOOLEAN]
    /\ ~trial.on => trial = Idle
    /\ uncounted \in BOOLEAN
    /\ cache \in [filled : BOOLEAN, rows : SUBSET Observations, unsure : BOOLEAN]
    /\ offered \subseteq Observations

Init ==
    /\ ledger = Empty /\ trial = Idle
    /\ uncounted = FALSE /\ cache = NoCache
    /\ offered = {}

-----------------------------------------------------------------------------
(* The rows the totals add up: final ones; a subtree account only for an         *)
(* execution without its own, a snapshot only for one without responses.         *)
OfSelf(S) == {o \in Final(S) : o.scope = "self" /\ o.kind # "lifecycle"}
Finalized(S) ==
    {o \in Final(S) :
        /\ o.kind = "lifecycle" => o.usage
        /\ o.scope = "subtree" => \A p \in OfSelf(S) : p.exec # o.exec
        /\ o.kind = "snapshot" /\ o.scope = "self"
             => \A p \in OfSelf(S) : p.kind = "response" => p.exec # o.exec}

-----------------------------------------------------------------------------
(* ingest(): what a ledger does with one observation *)

Existing(L, o) == {r \in L.records : SameIdentity(r, o)}
Group(L, o) == L.groups[GroupOf(o)]
InGroup(L, o) == o.kind = "snapshot" /\ Group(L, o).keys # {}

Stale(L, o) == \/ InGroup(L, o) /\ o.rev < Group(L, o).rev
               \/ \E r \in Existing(L, o) : o.rev < r.rev
Known(L, o) == \E r \in Existing(L, o) : o.rev = r.rev
Replaces(L, o) == InGroup(L, o) /\ o.rev > Group(L, o).rev

Full(L, o) ==
    /\ Existing(L, o) = {}
    /\ Cardinality(L.records) >=
           Capacity + (IF Replaces(L, o) THEN Cardinality(Group(L, o).keys) ELSE 0)

(* evictProvisional: the oldest provisional row. *)
Evictable(L) == {r \in L.records :
    r.phase = "running" /\ \A s \in L.records : s.phase = "running" => r.at <= s.at}

(* deleteRecord for each row of `gone`. *)
Without_KeepsKeys(L, gone) == [L EXCEPT !.records = @ \ gone]
Without(L, gone) ==
    LET Left(g) == {k \in L.groups[g].keys :
                      \A r \in gone : r.kind = "snapshot" /\ GroupOf(r) = g => r.part # k}
    IN [records |-> L.records \ gone,
        groups |-> [g \in GroupIds |-> IF Left(g) = {} THEN NoGroup
                                       ELSE [L.groups[g] EXCEPT !.keys = Left(g)]]]

(* records.set and the entry of the row in its group. *)
Put(L, o) ==
    [records |-> (L.records \ Existing(L, o)) \cup {o},
     groups |-> IF o.kind # "snapshot" THEN L.groups
                ELSE [L.groups EXCEPT ![GroupOf(o)] =
                        [rev |-> IF @.keys = {} THEN o.rev ELSE @.rev,
                         keys |-> @.keys \cup {o.part}]]]

(* dropMatchingProvisional: a final response ends the provisional rows of its call. *)
Settled(L, o) == {r \in L.records : /\ o.kind = "response" /\ o.phase = "final"
                                    /\ r.phase = "running"
                                    /\ r.exec = o.exec /\ r.call = o.call}

Ingested(L, o, evicted) ==
    LET made == Without(L, evicted)
        free == IF Replaces(L, o)
                THEN Without(made, {r \in made.records : SameGroup(r, o)}) ELSE made
        kept == Put(free, o)
    IN Without(kept, Settled(kept, o))

(* The rows that make room, one choice each: none, or the oldest provisional one. *)
Evictions(L, o) == IF Full(L, o) THEN {{r} : r \in Evictable(L)} ELSE {{}}

-----------------------------------------------------------------------------
(* acceptBatch() and ingestBatch() *)

(* markUncountedSpend and markMemoryExhausted: the cached totals are dropped,    *)
(* except when both marks were there already.                                    *)
Lost == /\ uncounted' = TRUE
        /\ cache' = NoCache \/ (uncounted /\ cache' = cache)

(* The identities there would be, had the batch replaced the older revisions. *)
Identities(B) ==
    LET rows == B \cup {r \in ledger.records : \A o \in B : ~(SameGroup(r, o) /\ o.rev > r.rev)}
    IN {{p \in rows : SameIdentity(o, p)} : o \in rows}
Fits(B) == Cardinality(Identities(B)) + Elsewhere <= Capacity /\ Cardinality(B) <= PerTick

(* The collector turns a batch down, and says so. *)
TurnDown(B) ==
    /\ ~trial.on /\ ~Fits(B)
    /\ Lost
    /\ offered' = offered \cup B
    /\ UNCHANGED <<ledger, trial>>

Begin(B) ==
    /\ ~trial.on /\ Fits(B)
    /\ trial' = [on |-> TRUE, ledger |-> ledger, todo |-> B, done |-> {}, changed |-> FALSE]
    /\ UNCHANGED <<ledger, uncounted, cache, offered>>

(* A batch names an identity once and a snapshot in one revision. *)
Consistent(o) == \A p \in trial.done : ~SameIdentity(p, o) /\ (SameGroup(p, o) => p.rev = o.rev)

TakesOver(o, L, changed) ==
    trial' = [trial EXCEPT !.ledger = L, !.todo = @ \ {o}, !.done = @ \cup {o},
                           !.changed = changed]

TryKnown(o) ==
    /\ trial.on /\ o \in trial.todo /\ Consistent(o)
    /\ Known(trial.ledger, o) /\ ~Stale(trial.ledger, o)
    /\ TakesOver(o, trial.ledger, trial.changed)
    /\ UNCHANGED <<ledger, uncounted, cache, offered>>

TryIngest(o) ==
    /\ trial.on /\ o \in trial.todo /\ Consistent(o)
    /\ ~Known(trial.ledger, o) /\ ~Stale(trial.ledger, o)
    /\ \E evicted \in Evictions(trial.ledger, o) :
         TakesOver(o, Ingested(trial.ledger, o, evicted), TRUE)
    /\ UNCHANGED <<ledger, uncounted, cache, offered>>

(* One observation is refused: the ledger stays as it was, and the collector *)
(* records the gap (noteGap).                                                *)
Refuse_Quietly(o) ==
    /\ trial.on /\ o \in trial.todo
    /\ ~Consistent(o) \/ Stale(trial.ledger, o)
         \/ (~Known(trial.ledger, o) /\ Evictions(trial.ledger, o) = {})
    /\ trial' = Idle
    /\ offered' = offered \cup trial.todo \cup trial.done
    /\ UNCHANGED <<ledger, uncounted, cache>>
Refuse(o) ==
    /\ trial.on /\ o \in trial.todo
    /\ ~Consistent(o) \/ Stale(trial.ledger, o)
         \/ (~Known(trial.ledger, o) /\ Evictions(trial.ledger, o) = {})
    /\ Lost /\ trial' = Idle
    /\ offered' = offered \cup trial.todo \cup trial.done
    /\ UNCHANGED ledger

Commit ==
    /\ trial.on /\ trial.todo = {}
    /\ ledger' = IF trial.changed THEN trial.ledger ELSE ledger
    /\ cache' = IF trial.changed THEN NoCache ELSE cache
    /\ trial' = Idle
    /\ offered' = offered \cup trial.done
    /\ UNCHANGED uncounted

-----------------------------------------------------------------------------
(* finishRestore() hands over single rows of the archive, progress left aside; a  *)
(* stale one is dropped.                                                         *)
Restore(o) ==
    /\ ~trial.on /\ o.exec \notin Progress
    /\ offered' = offered \cup {o}
    /\ IF Stale(ledger, o) \/ Known(ledger, o)
       THEN UNCHANGED <<ledger, uncounted, cache>>
       ELSE \/ /\ Evictions(ledger, o) = {} /\ Lost
               /\ UNCHANGED ledger
            \/ /\ \E evicted \in Evictions(ledger, o) : ledger' = Ingested(ledger, o, evicted)
               /\ cache' = NoCache
               /\ UNCHANGED uncounted
    /\ UNCHANGED trial

(* dropProgressForToolCall: the result of the tool call has arrived. *)
DropProgress(e) ==
    LET gone == {r \in ledger.records : r.exec = e}
    IN /\ ~trial.on /\ e \in Progress /\ gone # {}
       /\ ledger' = Without(ledger, gone) /\ cache' = NoCache
       /\ UNCHANGED <<trial, uncounted, offered>>

(* A source lost evidence before it reached the ledger (UNCOUNTED_SPEND_GAPS). *)
NoteGap ==
    /\ ~trial.on
    /\ Lost /\ UNCHANGED <<ledger, trial, offered>>

(* finalizedTotals and finalizedModelStats: the status line reads the totals. *)
Read ==
    /\ ~trial.on /\ ~cache.filled
    /\ cache' = [filled |-> TRUE, rows |-> Finalized(ledger.records), unsure |-> uncounted]
    /\ UNCHANGED <<ledger, trial, uncounted, offered>>

Deliver == \E B \in Batches : TurnDown(B) \/ Begin(B)
Try == \E o \in Observations : TryKnown(o) \/ TryIngest(o) \/ Refuse(o)

Next ==
    \/ Deliver \/ Try \/ Commit
    \/ \E o \in Observations : Restore(o)
    \/ \E e \in Progress : DropProgress(e)
    \/ NoteGap \/ Read

Spec == Init /\ [][Next]_vars

-----------------------------------------------------------------------------
(* Properties *)

(* The index of the snapshot groups names exactly the rows in the map, which     *)
(* has one row per identity: a replaced partition leaves nothing behind, and a   *)
(* group is never judged by the revision of rows that are gone                   *)
(* (snapshotGroups, deleteRecord).                                               *)
Indexed(L) ==
    /\ \A r, s \in L.records : SameIdentity(r, s) => r = s
    /\ \A r \in L.records : r.kind = "snapshot" =>
           r.part \in Group(L, r).keys /\ r.rev = Group(L, r).rev
    /\ \A g \in GroupIds : \A k \in L.groups[g].keys :
           \E r \in L.records : r.kind = "snapshot" /\ GroupOf(r) = g /\ r.part = k
IndexMatches == Indexed(ledger) /\ Indexed(trial.ledger)

(* The totals on display are those of the rows in the map and carry the mark of  *)
(* a lower bound as soon as spending was lost (invalidateProjections).           *)
CacheIsCurrent ==
    cache.filled => /\ cache.rows = Finalized(ledger.records)
                    /\ cache.unsure = uncounted

(* The ledger never outgrows its memory budget, whatever is evicted or replaced  *)
(* on the way (maxMemoryObservations).                                           *)
WithinCapacity == Cardinality(ledger.records) <= Capacity

(* What readers of the ledger rely on, whatever a batch replaced, evicted or     *)
(* took back: the index, the totals on display and the memory budget agree with  *)
(* the rows in the map.                                                          *)
LedgerIsConsistent == IndexMatches /\ CacheIsCurrent /\ WithinCapacity

(* Unless marked unsure, the totals are those of the set of all observations     *)
(* delivered, whatever their order, repetitions, batches and evictions; and a    *)
(* counted amount gives way only to a newer one (ingest, ingestBatch).           *)
Totals == INSTANCE UsageTotals WITH
    heard <- offered, shown <- Final(ledger.records), unsure <- uncounted
ImplementsTotals == Totals!Spec
=============================================================================
