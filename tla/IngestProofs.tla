----------------------------- MODULE IngestProofs -----------------------------
(***************************************************************************)
(* The usage of a subagent run is counted by one way, what is final stays  *)
(* and what was inferred goes, for every set of meta files, every clock,   *)
(* queue and budget, and any number of events and reloads.                 *)
(***************************************************************************)
EXTENDS SubagentIngest, SequenceTheorems, FiniteSetTheorems, WellFoundedInduction, TLAPS

-----------------------------------------------------------------------------
(* The rows of a run and what the ingest state says of them *)

States ==
    [completed : SUBSET Keys, restored : SUBSET Keys, keys : SUBSET Keys,
     counted : SUBSET Keys, markers : SUBSET {"run", "child"}, snapshot : SUBSET Keys,
     bare : SUBSET Keys, rev : SUBSET Keys, metaRev : [Keys -> Time],
     pending : [Keys -> Time], mtime : [Keys -> Time]]
Works == [st : States, ledger : [Keys -> Rows], archive : [Keys -> Rows]]

(* What the inlets hand over: only a meta file's revision is a time, and only an *)
(* indexless file, which stands for child 0, is inferred.                         *)
RecordOk(r) ==
    /\ r \in [key : Keys, source : Sources \ {"none"}, rev : Nat, final : BOOLEAN]
    /\ r.source \in {"meta", "bare"} \/ (r.rev > 0 /\ ~r.final) => r.rev \in Time
    /\ r.source = "bare" => r.key = "0"

(* The state knows what was inferred and what is complete; its markers are those *)
(* of what it counted, which is never of both granularities.                      *)
StateOk(s) ==
    /\ s.bare \subseteq s.snapshot /\ s.bare \subseteq {"0"} /\ s.bare \cap s.completed = {}
    /\ s.completed \subseteq s.counted
    /\ s.markers = {Granularity(k) : k \in s.counted}
    /\ Aggregate \notin s.counted \/ s.counted \cap Children = {}

(* The ledger has the rows that are counted; the archive has them, too, and what  *)
(* it has beyond them was inferred.                                                *)
RowsOk(w) ==
    \A k \in Keys :
        /\ w.ledger[k] # NoRow <=> k \in w.st.counted
        /\ w.ledger[k].source = "none" => w.ledger[k] = NoRow
        /\ w.archive[k].source = "none" => w.archive[k] = NoRow
        /\ w.ledger[k].source = "bare" => k \in w.st.bare
        /\ w.archive[k].source = "bare" => k = "0"
        /\ k \in w.st.bare => w.archive[k].source = "bare"
        /\ w.ledger[k] # NoRow => w.archive[k].source = w.ledger[k].source
        /\ w.ledger[k].source = "completion" => k \in w.st.completed
        /\ Proven(w.archive[k]) => k \in w.st.counted

WorkOk(w) == w \in Works /\ StateOk(w.st) /\ RowsOk(w)

-----------------------------------------------------------------------------
(* One record *)

LEMMA KeysAre == Keys = {"0", "1", "run"} /\ Children = {"0", "1"} /\ Aggregate = "run"
BY DEF Keys, Children, Aggregate

LEMMA Granularities ==
    /\ \A k \in Keys : Granularity(k) \in {"run", "child"} /\ Other(k) \in {"run", "child"}
    /\ \A k \in Keys : Granularity(k) = "run" <=> k = "run"
    /\ \A j, k \in Keys : Granularity(j) = Other(k) <=> (j = "run" /\ k # "run") \/ (j # "run" /\ k = "run")
BY DEF Granularity, Other, Keys, Children, Aggregate

(* A record that is not fresh changes neither what is counted nor whose way it came. *)
LEMMA NotFresh ==
    ASSUME NEW s \in States, NEW r, RecordOk(r), ~Fresh(s, r)
    PROVE  /\ Selected(s, r) \in States
           /\ \A t : t = Selected(s, r) =>
                 /\ t.completed = s.completed /\ t.counted = s.counted /\ t.restored = s.restored
                 /\ t.markers = s.markers /\ t.snapshot = s.snapshot /\ t.bare = s.bare
                 /\ t.pending = s.pending /\ t.mtime = s.mtime /\ s.keys \subseteq t.keys
                 /\ r.key \in t.keys \cup t.completed \cup t.restored
<1>1. /\ r.key \in Keys /\ r.rev \in Nat /\ (r.rev > 0 /\ ~r.final => r.rev \in Time)
  BY DEF RecordOk
<1>2. CASE r.key \in s.completed
  BY <1>2 DEF Selected
<1>3. CASE r.key \notin s.completed /\ Baseline(s, r)
  <2>1. Selected(s, r) = [s EXCEPT !.metaRev = [@ EXCEPT ![r.key] = r.rev]]
    BY <1>3 DEF Selected, States
  <2>2. r.rev \in Time /\ r.key \in s.restored
    BY <1>1, <1>3 DEF Baseline
  <2> DEFINE metaRev == [s.metaRev EXCEPT ![r.key] = r.rev]
  <2>3. metaRev \in [Keys -> Time]
    BY <1>1, <2>2 DEF States
  <2> HIDE DEF metaRev
  <2>4. Selected(s, r) = [s EXCEPT !.metaRev = metaRev]
    BY <2>1 DEF metaRev
  <2>5. QED
    BY <1>1, <2>2, <2>3, <2>4 DEF States
<1>4. CASE r.key \notin s.completed /\ ~Baseline(s, r) /\ Stale(s, r)
  <2>1. Selected(s, r) = s /\ r.key \in s.keys
    BY <1>4 DEF Selected, Stale
  <2>2. QED
    BY <2>1
<1>5. CASE r.key \notin s.completed /\ ~Baseline(s, r) /\ ~Stale(s, r) /\ Covered(s, r)
  <2>1. Selected(s, r) = [s EXCEPT !.keys = @ \cup {r.key}, !.rev = With(@, r.key, r.rev > 0)]
    BY <1>5 DEF Selected
  <2> DEFINE rev == With(s.rev, r.key, r.rev > 0)
             keys == s.keys \cup {r.key}
  <2>2. rev \in SUBSET Keys /\ keys \in SUBSET Keys /\ r.key \in keys /\ s.keys \subseteq keys
    BY <1>1 DEF With, States
  <2> HIDE DEF rev, keys
  <2>3. Selected(s, r) = [s EXCEPT !.keys = keys, !.rev = rev]
    BY <2>1 DEF States, keys, rev
  <2>4. Selected(s, r) \in States
    BY <2>2, <2>3 DEF States
  <2>5. \A t : t = Selected(s, r) =>
           /\ t.completed = s.completed /\ t.counted = s.counted /\ t.restored = s.restored
           /\ t.markers = s.markers /\ t.snapshot = s.snapshot /\ t.bare = s.bare
           /\ t.pending = s.pending /\ t.mtime = s.mtime /\ t.keys = keys
    BY <2>3 DEF States
  <2>6. QED
    BY <2>2, <2>4, <2>5
<1>6. QED
  BY <1>2, <1>3, <1>4, <1>5 DEF Fresh

CompletedBy(s, r) == IF r.source = "completion" THEN s.completed \cup {r.key} ELSE s.completed

(* A fresh one is counted, under the marker of its granularity. *)
LEMMA IsFresh ==
    ASSUME NEW s \in States, NEW r, RecordOk(r), Fresh(s, r)
    PROVE  /\ Selected(s, r) \in States
           /\ r.key \notin s.completed /\ Other(r.key) \notin s.markers
           /\ \A t : t = Selected(s, r) =>
                 /\ t.completed = CompletedBy(s, r)
                 /\ t.counted = s.counted \cup {r.key} /\ t.restored = s.restored
                 /\ t.markers = s.markers \cup {Granularity(r.key)}
                 /\ t.snapshot = With(s.snapshot, r.key, r.source \in {"meta", "bare"})
                 /\ t.bare = With(s.bare, r.key, r.source = "bare")
                 /\ t.pending = s.pending /\ t.mtime = s.mtime /\ t.keys = s.keys \cup {r.key}
<1>1. /\ r.key \in Keys /\ r.rev \in Nat /\ (r.source \in {"meta", "bare"} => r.rev \in Time)
  BY DEF RecordOk
<1>2. r.key \notin s.completed /\ ~Baseline(s, r) /\ ~Stale(s, r) /\ ~Covered(s, r)
  BY DEF Fresh
<1> DEFINE completed == CompletedBy(s, r)
           rev == With(s.rev, r.key, r.rev > 0)
           metaRev == [s.metaRev EXCEPT ![r.key] = IF r.source \in {"meta", "bare"} THEN r.rev ELSE @]
           snapshot == With(s.snapshot, r.key, r.source \in {"meta", "bare"})
           bare == With(s.bare, r.key, r.source = "bare")
           keys == s.keys \cup {r.key}
           counted == s.counted \cup {r.key}
           markers == s.markers \cup {Granularity(r.key)}
<1>3. Selected(s, r) = [s EXCEPT !.keys = keys, !.counted = counted,
                   !.completed = completed, !.rev = rev, !.metaRev = metaRev,
                   !.snapshot = snapshot, !.bare = bare, !.markers = markers]
  BY <1>2 DEF Selected, States, CompletedBy
<1>4. /\ completed \in SUBSET Keys /\ rev \in SUBSET Keys /\ metaRev \in [Keys -> Time]
      /\ snapshot \in SUBSET Keys /\ bare \in SUBSET Keys
      /\ markers \in SUBSET {"run", "child"}
  BY <1>1, Granularities DEF With, States, CompletedBy
<1>5. keys \in SUBSET Keys /\ counted \in SUBSET Keys
  BY <1>1 DEF States
<1> HIDE DEF completed, rev, metaRev, snapshot, bare, keys, counted, markers
<1>6. Selected(s, r) \in States
  BY <1>3, <1>4, <1>5 DEF States
<1>7. \A t : t = Selected(s, r) =>
                 /\ t.completed = completed
                 /\ t.counted = counted /\ t.restored = s.restored
                 /\ t.markers = markers
                 /\ t.snapshot = snapshot /\ t.bare = bare
                 /\ t.pending = s.pending /\ t.mtime = s.mtime /\ t.keys = keys
  BY <1>3 DEF States
<1>8. QED
  BY <1>2, <1>6, <1>7 DEF Covered, completed, snapshot, bare, keys, counted, markers

LEMMA SelectedOk ==
    ASSUME NEW s \in States, NEW r, RecordOk(r), StateOk(s)
    PROVE  StateOk(Selected(s, r))
<1> DEFINE t == Selected(s, r)
<1>1. CASE ~Fresh(s, r)
  <2>1. /\ t.completed = s.completed /\ t.counted = s.counted
        /\ t.markers = s.markers /\ t.snapshot = s.snapshot /\ t.bare = s.bare
    BY <1>1, NotFresh
  <2>2. QED
    BY <2>1 DEF StateOk
<1>2. CASE Fresh(s, r)
  <2>1. /\ t.completed = CompletedBy(s, r)
        /\ t.counted = s.counted \cup {r.key}
        /\ t.markers = s.markers \cup {Granularity(r.key)}
        /\ t.snapshot = With(s.snapshot, r.key, r.source \in {"meta", "bare"})
        /\ t.bare = With(s.bare, r.key, r.source = "bare")
        /\ r.key \notin s.completed /\ Other(r.key) \notin s.markers
    BY <1>2, IsFresh
  <2>2. r.key \in Keys /\ (r.source = "bare" => r.key = "0")
    BY DEF RecordOk
  <2> HIDE DEF t
  <2>3. t.markers = {Granularity(k) : k \in t.counted}
    BY <2>1 DEF StateOk
  <2>4. s.counted \subseteq Keys
    BY DEF States
  <2>5. Aggregate \notin t.counted \/ t.counted \cap Children = {}
    <3>1. \A k \in s.counted : Granularity(k) # Other(r.key)
      BY <2>1 DEF StateOk
    <3>2. \A k \in s.counted : ~((k = "run" /\ r.key # "run") \/ (k # "run" /\ r.key = "run"))
      BY <2>2, <2>4, <3>1, Granularities
    <3>3. QED
      BY <2>1, <2>2, <2>4, <3>2, KeysAre DEF StateOk
  <2>6. QED
    BY <2>1, <2>2, <2>3, <2>5 DEF StateOk, With, CompletedBy, t
<1>3. QED
  BY <1>1, <1>2

(* applySubagentRecords() keeps the ledger, the archive and the state in step. *)
LEMMA ApplyOk ==
    ASSUME NEW w, WorkOk(w), NEW r, RecordOk(r), NEW entry \in SUBSET Keys
    PROVE  /\ WorkOk(Apply(w, r, entry))
           /\ Apply(w, r, entry).st = Selected(w.st, r)
           /\ Apply(w, r, entry).ledger["0"].source = "bare" =>
                 w.ledger["0"].source = "bare" \/ r.source = "bare"
           /\ \A k \in Keys : w.ledger[k].source = "completion" =>
                 Apply(w, r, entry).ledger[k].source = "completion"
<1> DEFINE k == r.key
           row == [source |-> r.source, linked |-> w.ledger[k].linked \cup w.archive[k].linked \cup entry]
           s == w.st
           t == Selected(w.st, r)
           v == Apply(w, r, entry)
<1>1. w \in Works /\ s \in States /\ StateOk(s) /\ RowsOk(w) /\ k \in Keys
  BY DEF WorkOk, RecordOk, Works
<1>2. w.ledger \in [Keys -> Rows] /\ w.archive \in [Keys -> Rows]
  BY <1>1 DEF Works
<1>3. row \in Rows /\ row.source = r.source /\ r.source # "none" /\ row # NoRow
  BY <1>1, <1>2 DEF Rows, RecordOk, NoRow, Sources
<1>4. t \in States /\ StateOk(t)
  BY <1>1, NotFresh, IsFresh, SelectedOk
<1>5. CASE ~Fresh(s, r)
  <2>1. v = [w EXCEPT !.st = t]
    BY <1>5 DEF Apply
  <2>2. v \in Works /\ v.st = t /\ v.ledger = w.ledger /\ v.archive = w.archive
    BY <1>1, <1>4, <2>1 DEF Works
  <2>3. t.completed = s.completed /\ t.counted = s.counted /\ t.bare = s.bare
    BY <1>1, <1>5, NotFresh
  <2>4. RowsOk(v)
    BY <1>1, <2>2, <2>3 DEF RowsOk
  <2>5. QED
    BY <1>4, <2>2, <2>4 DEF WorkOk
<1>6. CASE Fresh(s, r)
  <2> DEFINE L == [w.ledger EXCEPT ![k] = row]
             A == [w.archive EXCEPT ![k] = row]
  <2>1. v = [w EXCEPT !.st = t, !.ledger = L, !.archive = A]
    BY <1>1, <1>6 DEF Apply, Works
  <2>2. L \in [Keys -> Rows] /\ A \in [Keys -> Rows]
    BY <1>1, <1>2, <1>3
  <2>3. /\ \A j \in Keys : L[j] = IF j = k THEN row ELSE w.ledger[j]
        /\ \A j \in Keys : A[j] = IF j = k THEN row ELSE w.archive[j]
    BY <1>1, <1>2
  <2> HIDE DEF L, A, row
  <2>4. v \in Works /\ v.st = t /\ v.ledger = L /\ v.archive = A
    BY <1>1, <1>4, <2>1, <2>2 DEF Works
  <2>5. /\ t.counted = s.counted \cup {k} /\ k \notin s.completed
        /\ t.completed = CompletedBy(s, r)
        /\ t.bare = With(s.bare, k, r.source = "bare")
    BY <1>1, <1>6, IsFresh
  <2>6. r.source = "bare" => k = "0"
    BY DEF RecordOk
  <2>7. \A j \in Keys : j # k =>
           /\ (j \in t.counted <=> j \in s.counted) /\ (j \in t.bare <=> j \in s.bare)
           /\ (j \in t.completed <=> j \in s.completed)
           /\ L[j] = w.ledger[j] /\ A[j] = w.archive[j]
    BY <2>3, <2>5 DEF With, CompletedBy
  <2>8. /\ k \in t.counted /\ (r.source = "bare" <=> k \in t.bare)
        /\ (r.source = "completion" => k \in t.completed) /\ L[k] = row /\ A[k] = row
    BY <1>1, <2>3, <2>5 DEF With, CompletedBy
  <2> HIDE DEF v, t
  <2>9. RowsOk(v)
    <3> SUFFICES ASSUME NEW j \in Keys
                 PROVE  /\ L[j] # NoRow <=> j \in t.counted
                        /\ L[j].source = "none" => L[j] = NoRow
                        /\ A[j].source = "none" => A[j] = NoRow
                        /\ L[j].source = "bare" => j \in t.bare
                        /\ A[j].source = "bare" => j = "0"
                        /\ j \in t.bare => A[j].source = "bare"
                        /\ L[j] # NoRow => A[j].source = L[j].source
                        /\ L[j].source = "completion" => j \in t.completed
                        /\ Proven(A[j]) => j \in t.counted
      BY <2>4 DEF RowsOk
    <3>1. CASE j = k
      BY <1>3, <2>6, <2>8, <3>1
    <3>2. CASE j # k
      BY <1>1, <2>7, <3>2 DEF RowsOk
    <3>3. QED
      BY <3>1, <3>2
  <2>10. \A j \in Keys : w.ledger[j].source = "completion" => L[j].source = "completion"
    BY <1>1, <2>5, <2>7 DEF RowsOk
  <2>11. L["0"].source = "bare" => w.ledger["0"].source = "bare" \/ r.source = "bare"
    BY <1>3, <2>7, <2>8, KeysAre
  <2>12. QED
    BY <1>4, <2>4, <2>9, <2>10, <2>11 DEF WorkOk, v, t
<1>7. QED
  BY <1>5, <1>6

LEMMA LinkedOk ==
    ASSUME NEW w, WorkOk(w), NEW k \in Keys
    PROVE  /\ WorkOk(Linked(w, k)) /\ Linked(w, k).st = w.st
           /\ \A j \in Keys : Linked(w, k).ledger[j].source = w.ledger[j].source
<1> DEFINE rows == {j \in Keys : w.ledger[j] # NoRow /\ (j = k \/ Granularity(j) = Other(k))}
           L == [j \in Keys |-> IF j \in rows THEN [w.ledger[j] EXCEPT !.linked = @ \cup {k}] ELSE w.ledger[j]]
           A == [j \in Keys |-> IF j \in rows THEN [w.ledger[j] EXCEPT !.linked = @ \cup {k}] ELSE w.archive[j]]
           v == Linked(w, k)
<1>1. /\ w \in Works /\ w.ledger \in [Keys -> Rows] /\ w.archive \in [Keys -> Rows]
      /\ RowsOk(w) /\ StateOk(w.st)
  BY DEF WorkOk, Works
<1>2. v = [w EXCEPT !.ledger = L, !.archive = A]
  BY DEF Linked
<1>3. \A j \in Keys : /\ [w.ledger[j] EXCEPT !.linked = @ \cup {k}] \in Rows
                      /\ [w.ledger[j] EXCEPT !.linked = @ \cup {k}].source = w.ledger[j].source
  BY <1>1 DEF Rows
<1>4. \A j \in Keys : j \in rows => w.ledger[j] # NoRow
  OBVIOUS
<1> HIDE DEF rows
<1>5. L \in [Keys -> Rows] /\ A \in [Keys -> Rows]
  BY <1>1, <1>3
<1>6. \A j \in Keys : L[j].source = w.ledger[j].source
                      /\ A[j].source = IF j \in rows THEN w.ledger[j].source ELSE w.archive[j].source
  BY <1>1, <1>3
<1>7. \A j \in Keys : j \notin rows => L[j] = w.ledger[j] /\ A[j] = w.archive[j]
  OBVIOUS
<1> HIDE DEF L, A
<1>8. v \in Works /\ v.st = w.st /\ v.ledger = L /\ v.archive = A
  BY <1>1, <1>2, <1>5 DEF Works
<1> HIDE DEF v
<1>9. RowsOk(v)
  <2> SUFFICES ASSUME NEW j \in Keys
               PROVE  /\ L[j] # NoRow <=> j \in w.st.counted
                      /\ L[j].source = "none" => L[j] = NoRow
                      /\ A[j].source = "none" => A[j] = NoRow
                      /\ L[j].source = "bare" => j \in w.st.bare
                      /\ A[j].source = "bare" => j = "0"
                      /\ j \in w.st.bare => A[j].source = "bare"
                      /\ L[j] # NoRow => A[j].source = L[j].source
                      /\ L[j].source = "completion" => j \in w.st.completed
                      /\ Proven(A[j]) => j \in w.st.counted
    BY <1>8 DEF RowsOk
  <2>1. CASE j \notin rows
    BY <1>1, <1>7, <2>1 DEF RowsOk
  <2>2. CASE j \in rows
    <3>1. /\ w.ledger[j] # NoRow /\ L[j].source = w.ledger[j].source
          /\ A[j].source = w.ledger[j].source /\ w.ledger[j].source = w.archive[j].source
          /\ w.ledger[j].source # "none"
      BY <1>1, <1>4, <1>6, <2>2 DEF RowsOk
    <3>2. NoRow.source = "none"
      BY DEF NoRow
    <3>3. L[j] # NoRow /\ A[j] # NoRow /\ j \in w.st.counted
      BY <1>1, <3>1, <3>2 DEF RowsOk
    <3>4. QED
      BY <1>1, <3>1, <3>3 DEF RowsOk, Proven
  <2>3. QED
    BY <2>1, <2>2
<1>10. QED
  BY <1>1, <1>6, <1>8, <1>9 DEF WorkOk, v

(* What was inferred and is no longer unique is taken back, from the ledger, the state *)
(* and the markers alike; it was not complete.                                          *)
LEMMA RevokedOk ==
    ASSUME NEW w, WorkOk(w)
    PROVE  /\ WorkOk(Revoked(w))
           /\ Ambiguous(Dirs) => Revoked(w).ledger["0"].source # "bare"
           /\ \A k \in Keys : w.ledger[k].source = "completion" =>
                 Revoked(w).ledger[k].source = "completion"
<1>1. /\ w \in Works /\ w.ledger \in [Keys -> Rows] /\ w.archive \in [Keys -> Rows]
      /\ RowsOk(w) /\ StateOk(w.st) /\ w.st \in States
  BY DEF WorkOk, Works
<1>2. CASE ~Ambiguous(Dirs) \/ "0" \notin w.st.bare
  <2>1. Revoked(w) = w
    BY <1>2 DEF Revoked
  <2>2. "0" \notin w.st.bare => w.ledger["0"].source # "bare"
    BY <1>1, KeysAre DEF RowsOk
  <2>3. QED
    BY <1>2, <2>1, <2>2
<1>3. CASE Ambiguous(Dirs) /\ "0" \in w.st.bare
  <2> DEFINE counted == w.st.counted \ {"0"}
             keys == w.st.keys \ {"0"}
             bare == w.st.bare \ {"0"}
             rev == w.st.rev \ {"0"}
             snapshot == w.st.snapshot \ {"0"}
             metaRev == [w.st.metaRev EXCEPT !["0"] = 0]
             pending == [w.st.pending EXCEPT !["0"] = 0]
             mtime == [w.st.mtime EXCEPT !["0"] = 0]
             markers == {Granularity(k) : k \in counted}
             s == [w.st EXCEPT !.keys = keys, !.counted = counted, !.bare = bare,
                               !.rev = rev, !.snapshot = snapshot, !.metaRev = metaRev,
                               !.pending = pending, !.mtime = mtime, !.markers = markers]
             L == [w.ledger EXCEPT !["0"] = NoRow]
             v == Revoked(w)
  <2>1. "0" \in w.st.snapshot
    BY <1>1, <1>3 DEF StateOk
  <2>2. v = [w EXCEPT !.st = s, !.ledger = L]
    BY <1>1, <1>3, <2>1 DEF Revoked, States, Works
  <2>3. /\ counted \in SUBSET Keys /\ keys \in SUBSET Keys /\ bare \in SUBSET Keys
        /\ rev \in SUBSET Keys /\ snapshot \in SUBSET Keys
    BY <1>1 DEF States
  <2>4. 0 \in Time /\ metaRev \in [Keys -> Time] /\ pending \in [Keys -> Time] /\ mtime \in [Keys -> Time]
    <3>1. 0 \in Time
      BY IngestAssumption DEF Time
    <3>2. QED
      BY <1>1, <3>1 DEF States
  <2>5. markers \in SUBSET {"run", "child"}
    BY <1>1, Granularities DEF States
  <2>6. L \in [Keys -> Rows] /\ \A j \in Keys : L[j] = IF j = "0" THEN NoRow ELSE w.ledger[j]
    BY <1>1 DEF Rows, NoRow, Sources
  <2>7. /\ "0" \notin counted /\ "0" \notin bare /\ "0" \notin w.st.completed
        /\ \A j : j # "0" => /\ (j \in counted <=> j \in w.st.counted)
                             /\ (j \in bare <=> j \in w.st.bare)
                             /\ (j \in snapshot <=> j \in w.st.snapshot)
    BY <1>1, <1>3 DEF StateOk
  <2>8. counted \subseteq w.st.counted
    OBVIOUS
  <2> HIDE DEF counted, keys, bare, rev, snapshot, metaRev, pending, mtime, L
  <2>9. s \in States /\ s.completed = w.st.completed /\ s.counted = counted /\ s.bare = bare
        /\ s.snapshot = snapshot /\ s.markers = {Granularity(k) : k \in counted}
    <3> HIDE DEF markers
    <3>1. s \in States
      BY <1>1, <2>3, <2>4, <2>5 DEF States
    <3>2. s.completed = w.st.completed /\ s.counted = counted /\ s.bare = bare
          /\ s.snapshot = snapshot /\ s.markers = markers
      BY <1>1 DEF States
    <3>3. QED
      BY <3>1, <3>2 DEF markers
  <2> HIDE DEF s
  <2>10. v \in Works /\ v.st = s /\ v.ledger = L /\ v.archive = w.archive
    BY <1>1, <2>2, <2>6, <2>9 DEF Works
  <2> HIDE DEF v
  <2>11. StateOk(s)
    BY <1>1, <2>7, <2>8, <2>9 DEF StateOk
  <2>12. RowsOk(v)
    <3> SUFFICES ASSUME NEW j \in Keys
               PROVE  /\ L[j] # NoRow <=> j \in counted
                      /\ L[j].source = "none" => L[j] = NoRow
                      /\ w.archive[j].source = "none" => w.archive[j] = NoRow
                      /\ L[j].source = "bare" => j \in bare
                      /\ w.archive[j].source = "bare" => j = "0"
                      /\ j \in bare => w.archive[j].source = "bare"
                      /\ L[j] # NoRow => w.archive[j].source = L[j].source
                      /\ L[j].source = "completion" => j \in w.st.completed
                      /\ Proven(w.archive[j]) => j \in counted
      BY <2>9, <2>10 DEF RowsOk
    <3>1. CASE j # "0"
      BY <1>1, <2>6, <2>7, <3>1 DEF RowsOk
    <3>2. CASE j = "0"
      <4>1. L[j] = NoRow /\ L[j].source = "none" /\ j \notin counted /\ j \notin bare
        BY <2>6, <2>7, <3>2 DEF NoRow
      <4>2. w.archive[j].source = "bare" /\ ~Proven(w.archive[j])
        BY <1>1, <1>3, <3>2 DEF RowsOk, Proven
      <4>3. QED
        BY <3>2, <4>1, <4>2
    <3>3. QED
      BY <3>1, <3>2
  <2>13. L["0"].source # "bare"
    BY <2>6, KeysAre DEF NoRow
  <2>14. \A k \in Keys : w.ledger[k].source = "completion" => L[k].source = "completion"
    BY <1>1, <2>6, <2>7 DEF RowsOk
  <2>15. QED
    BY <2>9, <2>10, <2>11, <2>12, <2>13, <2>14 DEF WorkOk, v
<1>4. QED
  BY <1>2, <1>3

-----------------------------------------------------------------------------
(* One scan *)

DiskOk == disk \in [Files -> [mtime : Time, usage : BOOLEAN]]

(* What makes a file of key k, last written at m, worth reading. *)
Grown(s, k, m) ==
    \/ k \notin s.keys
    \/ s.pending[k] > 0 /\ m # s.pending[k]
    \/ s.pending[k] = 0 /\ m > s.mtime[k]

LEMMA KeyOf == \A f \in Files : Key(f) \in Children /\ Key(f) \in Keys /\ (f.index = "bare" => Key(f) = "0")
BY IngestAssumption, KeysAre DEF Key

(* A record makes no file worth reading. *)
LEMMA SelectedGrows ==
    ASSUME NEW s \in States, NEW r, RecordOk(r)
    PROVE  /\ \A k \in Keys : \A m : Grown(Selected(s, r), k, m) => Grown(s, k, m)
           /\ s.completed \subseteq Selected(s, r).completed
           /\ Selected(s, r).restored = s.restored
           /\ s.keys \subseteq Selected(s, r).keys
           /\ r.key \in Selected(s, r).keys \cup Selected(s, r).completed \cup s.restored
           /\ Selected(s, r).pending = s.pending /\ Selected(s, r).mtime = s.mtime
<1>1. CASE ~Fresh(s, r)
  BY <1>1, NotFresh DEF Grown
<1>2. CASE Fresh(s, r)
  <2> DEFINE t == Selected(s, r)
  <2>1. /\ t.completed = CompletedBy(s, r) /\ t.restored = s.restored
        /\ t.pending = s.pending /\ t.mtime = s.mtime /\ t.keys = s.keys \cup {r.key}
    BY <1>2, IsFresh
  <2>2. QED
    BY <2>1 DEF Grown, CompletedBy
<1>3. QED
  BY <1>1, <1>2

(* A file that was read is known as it is; what it tells of its child is taken. *)
LEMMA ReadingOk ==
    ASSUME NEW w, WorkOk(w), NEW f \in Files, DiskOk, Exists(f)
    PROVE  /\ WorkOk(Reading(w, f))
           /\ Reading(w, f).ledger["0"].source = "bare" =>
                 w.ledger["0"].source = "bare" \/ f.index = "bare"
           /\ \A k \in Keys : w.ledger[k].source = "completion" =>
                 Reading(w, f).ledger[k].source = "completion"
           /\ w.st.completed \subseteq Reading(w, f).st.completed
           /\ Reading(w, f).st.restored = w.st.restored
           /\ \A k \in Keys : \A m : k # Key(f) /\ Grown(Reading(w, f).st, k, m) => Grown(w.st, k, m)
           /\ Grown(Reading(w, f).st, Key(f), disk[f].mtime) =>
                 Key(f) \in Reading(w, f).st.completed \cup Reading(w, f).st.restored
<1> DEFINE k == Key(f)
           at == disk[f].mtime
           r == Record(k, IF f.index = "bare" THEN "bare" ELSE "meta", at, FALSE)
           v == Reading(w, f)
<1>1. /\ w \in Works /\ w.ledger \in [Keys -> Rows] /\ w.archive \in [Keys -> Rows]
      /\ RowsOk(w) /\ StateOk(w.st) /\ w.st \in States
  BY DEF WorkOk, Works
<1>2. k \in Keys /\ at \in Time /\ at > 0 /\ at \in Nat /\ 0 \in Time
  BY KeyOf, IngestAssumption DEF DiskOk, Exists, Time
<1>3. CASE disk[f].usage
  <2> DEFINE pending == [w.st.pending EXCEPT ![k] = 0]
             mtime == [w.st.mtime EXCEPT ![k] = at]
             t == [w.st EXCEPT !.pending = pending, !.mtime = mtime]
             u == [w EXCEPT !.st = t]
  <2>1. v = Apply(u, r, {})
    BY <1>1, <1>3 DEF Reading, Works, States
  <2>2. RecordOk(r) /\ r.key = k /\ r.source = (IF f.index = "bare" THEN "bare" ELSE "meta")
    <3>1. f.index = "bare" => k = "0"
      BY KeyOf
    <3>2. QED
      BY <1>2, <3>1 DEF RecordOk, Record, Sources
  <2>3. /\ pending \in [Keys -> Time] /\ mtime \in [Keys -> Time]
        /\ pending[k] = 0 /\ mtime[k] = at
        /\ \A j \in Keys : j # k => pending[j] = w.st.pending[j] /\ mtime[j] = w.st.mtime[j]
    BY <1>1, <1>2 DEF States
  <2> HIDE DEF r, pending, mtime
  <2>4. /\ t \in States /\ t.pending = pending /\ t.mtime = mtime /\ t.keys = w.st.keys
        /\ t.completed = w.st.completed /\ t.restored = w.st.restored /\ t.bare = w.st.bare
        /\ t.counted = w.st.counted /\ t.snapshot = w.st.snapshot /\ t.markers = w.st.markers
    BY <1>1, <2>3 DEF States
  <2> HIDE DEF t
  <2>5. u \in Works /\ u.st = t /\ u.ledger = w.ledger /\ u.archive = w.archive
    BY <1>1, <2>4 DEF Works
  <2> HIDE DEF u
  <2>6. WorkOk(u)
    BY <1>1, <2>4, <2>5 DEF WorkOk, StateOk, RowsOk
  <2>7. /\ WorkOk(v) /\ v.st = Selected(t, r)
        /\ (v.ledger["0"].source = "bare" => w.ledger["0"].source = "bare" \/ r.source = "bare")
        /\ \A j \in Keys : w.ledger[j].source = "completion" => v.ledger[j].source = "completion"
    BY <2>1, <2>2, <2>5, <2>6, ApplyOk
  <2>8. /\ \A j \in Keys : \A m : Grown(v.st, j, m) => Grown(t, j, m)
        /\ t.completed \subseteq v.st.completed /\ v.st.restored = t.restored
        /\ k \in v.st.keys \cup v.st.completed \cup t.restored
        /\ v.st.pending = pending /\ v.st.mtime = mtime
    BY <2>2, <2>4, <2>7, SelectedGrows
  <2>9. \A j \in Keys : \A m : j # k /\ Grown(v.st, j, m) => Grown(w.st, j, m)
    BY <2>3, <2>4, <2>8 DEF Grown
  <2>10. Grown(v.st, k, at) => k \in v.st.completed \cup v.st.restored
    BY <1>2, <2>3, <2>4, <2>8 DEF Grown
  <2>11. QED
    BY <2>2, <2>4, <2>7, <2>8, <2>9, <2>10
<1>4. CASE ~disk[f].usage
  <2> DEFINE pending == [w.st.pending EXCEPT ![k] = at]
             keys == w.st.keys \cup {k}
             s == [w.st EXCEPT !.keys = keys, !.pending = pending]
  <2>1. v = [w EXCEPT !.st = s]
    BY <1>1, <1>4 DEF Reading, Works, States
  <2>2. /\ pending \in [Keys -> Time] /\ pending[k] = at /\ keys \in SUBSET Keys /\ k \in keys
        /\ w.st.keys \subseteq keys
        /\ \A j \in Keys : j # k => pending[j] = w.st.pending[j]
    BY <1>1, <1>2 DEF States
  <2> HIDE DEF pending, keys
  <2>3. s \in States
    BY <1>1, <2>2 DEF States
  <2>4. /\ s.pending = pending /\ s.mtime = w.st.mtime /\ s.keys = keys
        /\ s.completed = w.st.completed /\ s.restored = w.st.restored /\ s.bare = w.st.bare
        /\ s.counted = w.st.counted /\ s.snapshot = w.st.snapshot /\ s.markers = w.st.markers
    BY <1>1, <2>2 DEF States
  <2> HIDE DEF s
  <2>5. v \in Works /\ v.st = s /\ v.ledger = w.ledger /\ v.archive = w.archive
    BY <1>1, <2>1, <2>3 DEF Works
  <2>6. WorkOk(v)
    BY <1>1, <2>3, <2>4, <2>5 DEF WorkOk, StateOk, RowsOk
  <2>7. \A j \in Keys : \A m : j # k /\ Grown(v.st, j, m) => Grown(w.st, j, m)
    BY <2>2, <2>4, <2>5 DEF Grown
  <2>8. ~Grown(v.st, k, at)
    BY <1>2, <2>2, <2>4, <2>5 DEF Grown
  <2>9. QED
    BY <2>4, <2>5, <2>6, <2>7, <2>8
<1>5. QED
  BY <1>3, <1>4

LEMMA RevivedOk ==
    ASSUME NEW w, WorkOk(w), NEW reached \in SUBSET Files
    PROVE  /\ WorkOk(Revived(w, reached)) /\ Revived(w, reached).ledger = w.ledger
           /\ Revived(w, reached).st.completed = w.st.completed
           /\ Revived(w, reached).st.restored = w.st.restored
           /\ \A k \in Keys : \A m : (\A f \in reached : Key(f) # k) /\ Grown(Revived(w, reached).st, k, m) =>
                 Grown(w.st, k, m)
<1> DEFINE K == {k \in {Key(f) : f \in reached} : w.st.pending[k] > 0}
           keys == w.st.keys \ K
           pending == [k \in Keys |-> IF k \in K THEN 0 ELSE w.st.pending[k]]
           s == [w.st EXCEPT !.keys = keys, !.pending = pending]
           v == Revived(w, reached)
<1>1. /\ w \in Works /\ w.ledger \in [Keys -> Rows] /\ w.archive \in [Keys -> Rows]
      /\ RowsOk(w) /\ StateOk(w.st) /\ w.st \in States
  BY DEF WorkOk, Works
<1>2. v = [w EXCEPT !.st = s]
  BY DEF Revived
<1>3. \A k \in Keys : (\A f \in reached : Key(f) # k) => k \notin K
  OBVIOUS
<1> HIDE DEF K
<1>4. /\ pending \in [Keys -> Time] /\ keys \in SUBSET Keys
      /\ \A k \in Keys : k \notin K => pending[k] = w.st.pending[k] /\ (k \in keys <=> k \in w.st.keys)
  <2>1. 0 \in Time
    BY IngestAssumption DEF Time
  <2>2. QED
    BY <1>1, <2>1 DEF States
<1> HIDE DEF keys, pending
<1>5. s \in States
  BY <1>1, <1>4 DEF States
<1>6. /\ s.pending = pending /\ s.mtime = w.st.mtime /\ s.keys = keys
      /\ s.completed = w.st.completed /\ s.restored = w.st.restored /\ s.bare = w.st.bare
      /\ s.counted = w.st.counted /\ s.snapshot = w.st.snapshot /\ s.markers = w.st.markers
  BY <1>1, <1>4 DEF States
<1> HIDE DEF s
<1>7. v \in Works /\ v.st = s /\ v.ledger = w.ledger /\ v.archive = w.archive
  BY <1>1, <1>2, <1>5 DEF Works
<1>8. WorkOk(v)
  BY <1>1, <1>5, <1>6, <1>7 DEF WorkOk, StateOk, RowsOk
<1>9. QED
  BY <1>3, <1>4, <1>6, <1>7, <1>8 DEF Grown

(* The library's fold, over the files that one scan reads: there are at most two. *)
ReadAll(base, R) == FoldSet(LAMBDA f, v : Reading(v, f), base, R)

IsFold(h, base, R) ==
    h = [s \in SUBSET R |-> IF s = {} THEN base
            ELSE Reading(h[s \ {CHOOSE x \in s : TRUE}], CHOOSE x \in s : TRUE)]

LEMMA FoldIs ==
    ASSUME NEW R, NEW base, NEW g, IsFold(g, base, R)
    PROVE  \E h : IsFold(h, base, R) /\ ReadAll(base, R) = h[R]
<1> DEFINE iter == CHOOSE h : h = [s \in SUBSET R |-> IF s = {} THEN base
                   ELSE Reading(h[s \ {CHOOSE x \in s : TRUE}], CHOOSE x \in s : TRUE)]
<1>1. ReadAll(base, R) = iter[R]
  BY DEF ReadAll, FoldSet, MapThenFoldSet
<1>2. iter = [s \in SUBSET R |-> IF s = {} THEN base
                   ELSE Reading(iter[s \ {CHOOSE x \in s : TRUE}], CHOOSE x \in s : TRUE)]
  BY Zenon DEF IsFold
<1> HIDE DEF iter
<1>3. IsFold(iter, base, R)
  BY <1>2, Zenon DEF IsFold
<1>4. QED
  BY <1>1, <1>3, Zenon

LEMMA FoldOfTwo ==
    ASSUME NEW R, NEW base, NEW a, NEW b, R \subseteq {a, b}
    PROVE  \/ R = {} /\ ReadAll(base, R) = base
           \/ \E x \in R : R = {x} /\ ReadAll(base, R) = Reading(base, x)
           \/ \E x, y \in R : x # y /\ R = {x, y} /\ ReadAll(base, R) = Reading(Reading(base, x), y)
<1> DEFINE ch(s) == CHOOSE x \in s : TRUE
           h1 == [s \in SUBSET R |-> base]
           h2 == [s \in SUBSET R |-> IF s = {} THEN base ELSE Reading(h1[s \ {ch(s)}], ch(s))]
           h3 == [s \in SUBSET R |-> IF s = {} THEN base ELSE Reading(h2[s \ {ch(s)}], ch(s))]
<1>1. \A s \in SUBSET R : s # {} => /\ ch(s) \in s /\ s \ {ch(s)} \in SUBSET R
                                    /\ \A t : t = s \ {ch(s)} /\ t # {} => t \ {ch(t)} = {}
  <2> SUFFICES ASSUME NEW s \in SUBSET R, s # {}
               PROVE  /\ ch(s) \in s /\ s \ {ch(s)} \in SUBSET R
                      /\ \A t : t = s \ {ch(s)} /\ t # {} => t \ {ch(t)} = {}
    OBVIOUS
  <2>1. ch(s) \in s
    OBVIOUS
  <2>2. \A t : t = s \ {ch(s)} /\ t # {} => ch(t) \in t
    OBVIOUS
  <2> HIDE DEF ch
  <2>3. QED
    BY <2>1, <2>2
<1> HIDE DEF ch
<1>2. \A s \in SUBSET R : s \ {ch(s)} = {} \/ s = {} => h3[s] = h2[s]
  OBVIOUS
<1>3. h3 = [s \in SUBSET R |-> IF s = {} THEN base ELSE Reading(h3[s \ {ch(s)}], ch(s))]
  <2>1. \A s \in SUBSET R : s # {} => h3[s \ {ch(s)}] = h2[s \ {ch(s)}]
    BY <1>1, <1>2
  <2> HIDE DEF h2
  <2>2. QED
    BY <1>1, <2>1
<1> HIDE DEF h3
<1>4. PICK h : /\ h = [s \in SUBSET R |-> IF s = {} THEN base ELSE Reading(h[s \ {ch(s)}], ch(s))]
               /\ ReadAll(base, R) = h[R]
  <2>1. IsFold(h3, base, R)
    BY <1>3, Zenon DEF ch, IsFold
  <2>2. PICK h : IsFold(h, base, R) /\ ReadAll(base, R) = h[R]
    BY <2>1, FoldIs, Zenon
  <2>3. h = [s \in SUBSET R |-> IF s = {} THEN base ELSE Reading(h[s \ {ch(s)}], ch(s))]
    BY <2>2, Zenon DEF ch, IsFold
  <2>4. QED
    BY <2>2, <2>3, Zenon
<1>5. \A s \in SUBSET R : h[s] = IF s = {} THEN base ELSE Reading(h[s \ {ch(s)}], ch(s))
  BY <1>4
<1>6. CASE R = {}
  BY <1>4, <1>5, <1>6
<1>7. CASE R # {} /\ R \ {ch(R)} = {}
  <2>1. R = {ch(R)} /\ ch(R) \in R
    BY <1>1, <1>7
  <2>2. h[R] = Reading(base, ch(R))
    BY <1>5, <1>7
  <2>3. QED
    BY <1>4, <2>1, <2>2
<1>8. CASE R # {} /\ R \ {ch(R)} # {}
  <2> DEFINE y == ch(R)
             t == R \ {y}
             x == ch(t)
  <2>1. y \in R /\ t \in SUBSET R /\ t # {} /\ t \ {x} = {} /\ x \in t
    BY <1>1, <1>8
  <2>2. h[R] = Reading(h[t], y) /\ h[t] = Reading(h[t \ {x}], x) /\ h[t \ {x}] = base
    BY <1>5, <1>8, <2>1
  <2>3. x \in R /\ x # y /\ R = {x, y}
    BY <2>1
  <2>4. QED
    BY <1>4, <2>2, <2>3
<1>9. QED
  BY <1>6, <1>7, <1>8

(* A run writes one file for each child under its index; the indexless form may stand *)
(* in any directory.                                                                  *)
OneFileEach == \A f, g \in Files : f.index = g.index /\ f.index # "bare" => f = g

(* What a scan would read. *)
FoundFiles == {f \in Files : Candidate(Revoked(Work).st, f)}

LEMMA ScanOk ==
    ASSUME WorkOk(Work), DiskOk, NEW R \in MayRead(FoundFiles), NEW extra \in SUBSET FoundFiles
    PROVE  LET w == Revoked(Work)
               v == Collected(w, R, R \cup extra) IN
           /\ WorkOk(v)
           /\ \A k \in Keys : ledger[k].source = "completion" => v.ledger[k].source = "completion"
           /\ Ambiguous(Dirs) => v.ledger["0"].source # "bare"
           /\ \A k \in Keys : \A m : (\A f \in R \cup extra : Key(f) # k) /\ Grown(v.st, k, m) =>
                 Grown(w.st, k, m)
           /\ \A f \in R : Grown(v.st, Key(f), disk[f].mtime) =>
                 Key(f) \in v.st.completed \cup v.st.restored
<1> DEFINE w == Revoked(Work)
           u == Revived(w, R \cup extra)
           v == Collected(w, R, R \cup extra)
<1>1. /\ R \subseteq FoundFiles /\ FoundFiles \subseteq Files /\ R \cup extra \in SUBSET Files
      /\ \A f, g \in R : Key(f) = Key(g) => f = g
      /\ \A f \in R : f \in Files /\ Exists(f) /\ (f.index = "bare" => ~Ambiguous(Dirs))
  BY DEF MayRead, Candidate, FoundFiles
<1>2. /\ WorkOk(w) /\ (Ambiguous(Dirs) => w.ledger["0"].source # "bare")
      /\ \A k \in Keys : ledger[k].source = "completion" => w.ledger[k].source = "completion"
  <2>1. Work.ledger = ledger
    BY DEF Work
  <2>2. QED
    BY <2>1, RevokedOk
<1> HIDE DEF w
<1>3. /\ WorkOk(u) /\ u.ledger = w.ledger
      /\ u.st.completed = w.st.completed /\ u.st.restored = w.st.restored
      /\ \A k \in Keys : \A m : (\A f \in R \cup extra : Key(f) # k) /\ Grown(u.st, k, m) =>
            Grown(w.st, k, m)
  BY <1>1, <1>2, RevivedOk
<1>4. v = ReadAll(u, R)
  BY DEF Collected, ReadAll
<1> HIDE DEF u, v
<1>5. \/ R = {} /\ v = u
      \/ \E x \in R : R = {x} /\ v = Reading(u, x)
      \/ \E x, y \in R : x # y /\ R = {x, y} /\ v = Reading(Reading(u, x), y)
  <2> DEFINE a == CHOOSE f \in R : Key(f) = "0"
             b == CHOOSE f \in R : Key(f) = "1"
  <2>1. \A f \in R : Key(f) = "0" \/ Key(f) = "1"
    BY <1>1, KeyOf, KeysAre
  <2>2. (\E f \in R : Key(f) = "0") => a \in R /\ Key(a) = "0"
    OBVIOUS
  <2>3. (\E f \in R : Key(f) = "1") => b \in R /\ Key(b) = "1"
    OBVIOUS
  <2> HIDE DEF a, b
  <2>4. R \subseteq {a, b}
    BY <1>1, <2>1, <2>2, <2>3
  <2>5. \/ R = {} /\ ReadAll(u, R) = u
        \/ \E x \in R : R = {x} /\ ReadAll(u, R) = Reading(u, x)
        \/ \E x, y \in R : x # y /\ R = {x, y} /\ ReadAll(u, R) = Reading(Reading(u, x), y)
    BY <2>4, FoldOfTwo
  <2>6. QED
    BY <1>4, <2>5
<1>6. CASE R = {} /\ v = u
  BY <1>2, <1>3, <1>6 DEF w, v
<1>7. CASE \E x \in R : R = {x} /\ v = Reading(u, x)
  <2>1. PICK x \in R : R = {x} /\ v = Reading(u, x)
    BY <1>7
  <2>2. /\ WorkOk(v)
        /\ (v.ledger["0"].source = "bare" => u.ledger["0"].source = "bare" \/ x.index = "bare")
        /\ \A k \in Keys : u.ledger[k].source = "completion" => v.ledger[k].source = "completion"
        /\ \A k \in Keys : \A m : k # Key(x) /\ Grown(v.st, k, m) => Grown(u.st, k, m)
        /\ (Grown(v.st, Key(x), disk[x].mtime) => Key(x) \in v.st.completed \cup v.st.restored)
    BY <1>1, <1>3, <2>1, ReadingOk
  <2>3. Ambiguous(Dirs) => v.ledger["0"].source # "bare"
    BY <1>1, <1>2, <1>3, <2>2
  <2>4. \A k \in Keys : \A m : (\A f \in R \cup extra : Key(f) # k) /\ Grown(v.st, k, m) => Grown(w.st, k, m)
    BY <1>3, <2>2
  <2>5. QED
    BY <1>2, <1>3, <2>1, <2>2, <2>3, <2>4 DEF w, v
<1>8. CASE \E x, y \in R : x # y /\ R = {x, y} /\ v = Reading(Reading(u, x), y)
  <2>1. PICK x, y \in R : x # y /\ R = {x, y} /\ v = Reading(Reading(u, x), y)
    BY <1>8
  <2> DEFINE t == Reading(u, x)
  <2>2. /\ WorkOk(t)
        /\ (t.ledger["0"].source = "bare" => u.ledger["0"].source = "bare" \/ x.index = "bare")
        /\ \A k \in Keys : u.ledger[k].source = "completion" => t.ledger[k].source = "completion"
        /\ \A k \in Keys : \A m : k # Key(x) /\ Grown(t.st, k, m) => Grown(u.st, k, m)
        /\ (Grown(t.st, Key(x), disk[x].mtime) => Key(x) \in t.st.completed \cup t.st.restored)
    BY <1>1, <1>3, ReadingOk
  <2> HIDE DEF t
  <2>3. v = Reading(t, y)
    BY <2>1 DEF t
  <2>4. /\ WorkOk(v)
        /\ (v.ledger["0"].source = "bare" => t.ledger["0"].source = "bare" \/ y.index = "bare")
        /\ \A k \in Keys : t.ledger[k].source = "completion" => v.ledger[k].source = "completion"
        /\ t.st.completed \subseteq v.st.completed /\ v.st.restored = t.st.restored
        /\ \A k \in Keys : \A m : k # Key(y) /\ Grown(v.st, k, m) => Grown(t.st, k, m)
        /\ (Grown(v.st, Key(y), disk[y].mtime) => Key(y) \in v.st.completed \cup v.st.restored)
    <3>1. y \in Files /\ Exists(y) /\ WorkOk(t)
      BY <1>1, <2>1, <2>2
    <3>2. QED
      BY <2>3, <3>1, ReadingOk
  <2>5. Key(x) # Key(y) /\ Key(x) \in Keys /\ Key(y) \in Keys
    BY <1>1, <2>1, KeyOf
  <2>6. Ambiguous(Dirs) => v.ledger["0"].source # "bare"
    BY <1>1, <1>2, <1>3, <2>2, <2>4
  <2>7. \A k \in Keys : \A m : (\A f \in R \cup extra : Key(f) # k) /\ Grown(v.st, k, m) => Grown(w.st, k, m)
    BY <1>3, <2>2, <2>4
  <2>8. \A f \in R : Grown(v.st, Key(f), disk[f].mtime) => Key(f) \in v.st.completed \cup v.st.restored
    BY <2>1, <2>2, <2>4, <2>5
  <2>9. \A k \in Keys : ledger[k].source = "completion" => v.ledger[k].source = "completion"
    BY <1>2, <1>3, <2>2, <2>4
  <2>10. QED
    BY <2>4, <2>6, <2>7, <2>8, <2>9 DEF w, v
<1>9. QED
  BY <1>5, <1>6, <1>7, <1>8

(* A scan that came to its end leaves nothing to read. *)
LEMMA ScanReadsAll ==
    ASSUME OneFileEach, WorkOk(Work), DiskOk, FoundFiles \in MayRead(FoundFiles)
    PROVE  LET v == Collected(Revoked(Work), FoundFiles, FoundFiles) IN
           \A f \in Files : Candidate(v.st, f) => Key(f) \in v.st.completed \cup v.st.restored
<1> DEFINE w == Revoked(Work)
           v == Collected(w, FoundFiles, FoundFiles)
<1>1. /\ \A k \in Keys : \A m : (\A f \in FoundFiles : Key(f) # k) /\ Grown(v.st, k, m) => Grown(w.st, k, m)
      /\ \A f \in FoundFiles : Grown(v.st, Key(f), disk[f].mtime) =>
            Key(f) \in v.st.completed \cup v.st.restored
  <2>1. {} \in SUBSET FoundFiles /\ FoundFiles \cup {} = FoundFiles
    OBVIOUS
  <2>2. /\ \A k \in Keys : \A m : (\A f \in FoundFiles \cup {} : Key(f) # k) /\ Grown(Collected(w, FoundFiles, FoundFiles \cup {}).st, k, m)
              => Grown(w.st, k, m)
        /\ \A f \in FoundFiles : Grown(Collected(w, FoundFiles, FoundFiles \cup {}).st, Key(f), disk[f].mtime) =>
              Key(f) \in Collected(w, FoundFiles, FoundFiles \cup {}).st.completed \cup Collected(w, FoundFiles, FoundFiles \cup {}).st.restored
    BY <2>1, ScanOk
  <2>3. QED
    BY <2>1, <2>2
<1>2. \A f \in FoundFiles : f \in Files /\ Exists(f) /\ (f.index = "bare" => ~Ambiguous(Dirs))
  BY DEF Candidate, FoundFiles
<1> HIDE DEF v
<1> SUFFICES ASSUME NEW g \in Files, Candidate(v.st, g)
             PROVE  Key(g) \in v.st.completed \cup v.st.restored
  BY DEF v
<1>3. Exists(g) /\ Grown(v.st, Key(g), disk[g].mtime) /\ Key(g) \in Keys
      /\ (g.index = "bare" => ~Ambiguous(Dirs))
  BY KeyOf DEF Candidate, Grown
<1>4. CASE \A f \in FoundFiles : Key(f) # Key(g)
  <2>1. Grown(w.st, Key(g), disk[g].mtime)
    BY <1>1, <1>3, <1>4
  <2>2. Candidate(w.st, g)
    BY <2>1 DEF Candidate, Grown
  <2>3. QED
    BY <1>4, <2>2 DEF FoundFiles
<1>5. CASE \E f \in FoundFiles : Key(f) = Key(g)
  <2>1. PICK f \in FoundFiles : Key(f) = Key(g)
    BY <1>5
  <2>2. f \in Files /\ Exists(f) /\ (f.index = "bare" => ~Ambiguous(Dirs))
    BY <1>2
  <2>3. f = g
    <3> SUFFICES ASSUME f # g PROVE FALSE
      OBVIOUS
    <3>1. f.dir \in Dirs /\ g.dir \in Dirs
      BY <2>2 DEF Dirs
    <3>2. CASE f.index = "bare" /\ g.index = "bare"
      <4>1. {f, g} \subseteq Bare(Dirs) /\ Bare(Dirs) \subseteq Files
        BY <1>3, <2>2, <3>1, <3>2 DEF Bare
      <4>2. IsFiniteSet(Bare(Dirs)) /\ IsFiniteSet({f, g})
        BY <4>1, IngestAssumption, FS_Subset
      <4>3. Cardinality({f, g}) = 2
        <5>1. {f, g} = {g} \cup {f} /\ f \notin {g}
          OBVIOUS
        <5>2. Cardinality({g}) = 1 /\ IsFiniteSet({g})
          BY FS_Singleton
        <5>3. Cardinality({g} \cup {f}) = Cardinality({g}) + 1
          BY <5>1, <5>2, FS_AddElement
        <5>4. QED
          BY <5>1, <5>2, <5>3
      <4>4. Cardinality(Bare(Dirs)) >= 2 /\ Cardinality(Bare(Dirs)) \in Nat
        BY <4>1, <4>2, <4>3, FS_Subset, FS_CardinalityType
      <4>5. Bare(Dirs) # {} /\ Cardinality(Bare(Dirs)) > 1
        BY <4>1, <4>4
      <4>6. Ambiguous(Dirs)
        BY <4>5 DEF Ambiguous
      <4>7. QED
        BY <2>2, <3>2, <4>6
    <3>3. CASE f.index = "bare" /\ g.index # "bare"
      <4>1. f \in Bare(Dirs) /\ g \in Indexed(Dirs)
        BY <1>3, <2>2, <3>1, <3>3 DEF Bare, Indexed
      <4>2. QED
        BY <2>2, <3>3, <4>1 DEF Ambiguous
    <3>4. CASE f.index # "bare" /\ g.index = "bare"
      <4>1. g \in Bare(Dirs) /\ f \in Indexed(Dirs)
        BY <1>3, <2>2, <3>1, <3>4 DEF Bare, Indexed
      <4>2. QED
        BY <1>3, <3>4, <4>1 DEF Ambiguous
    <3>5. CASE f.index # "bare" /\ g.index # "bare"
      <4>1. f.index = g.index
        BY <2>1, <3>5 DEF Key
      <4>2. QED
        BY <2>2, <3>5, <4>1 DEF OneFileEach
    <3>6. QED
      BY <3>2, <3>3, <3>4, <3>5
  <2>4. QED
    BY <1>1, <1>3, <2>3
<1>6. QED
  BY <1>4, <1>5

-----------------------------------------------------------------------------
(* The queue *)

Tasks == [kind : {"completion", "scan", "settle"}, key : Keys]

LEMMA FirstIs ==
    ASSUME NEW q \in Seq(Tasks)
    PROVE  FirstBackground(q) \in 0..Len(q)
<1> DEFINE I == {i \in 1..Len(q) : q[i].kind # "completion"}
<1>1. FirstBackground(q) = IF I # {} THEN Min(I) ELSE 0
  BY DEF FirstBackground, SelectInSeq
<1>2. Len(q) \in Nat
  BY LenProperties
<1>3. CASE I = {}
  BY <1>1, <1>2, <1>3
<1>4. CASE I # {}
  <2>1. I \subseteq Nat /\ I \subseteq 1..Len(q)
    BY <1>2
  <2> HIDE DEF I
  <2>2. PICK x \in I : \A y \in I : ~ (<<y, x>> \in OpToRel(<, Nat))
    BY <1>4, <2>1, NatLessThanWellFounded, WFMin
  <2>3. \A y \in I : ~(y < x)
    BY <2>1, <2>2, Zenon DEF OpToRel
  <2>4. \A y \in I : x =< y
    BY <2>1, <2>3
  <2>5. Min(I) \in I
    BY <2>4 DEF Min
  <2>6. FirstBackground(q) = Min(I)
    BY <1>1, <1>4
  <2>7. \A i \in 1..Len(q) : i \in 0..Len(q)
    BY <1>2
  <2>8. QED
    BY <2>1, <2>5, <2>6, <2>7
<1>5. QED
  BY <1>3, <1>4

LEMMA EnqueuedOk ==
    ASSUME NEW q \in Seq(Tasks), NEW ts \in Seq(Tasks)
    PROVE  Enqueued(q, ts) \in Seq(Tasks) /\ Len(Enqueued(q, ts)) = Len(q) + Len(ts)
<1> DEFINE at == FirstBackground(q)
<1>1. Len(q) \in Nat /\ at \in 0..Len(q) /\ Len(ts) \in Nat
  BY FirstIs, LenProperties
<1>2. CASE at = 0
  BY <1>2, ConcatProperties DEF Enqueued
<1>3. CASE at # 0
  <2> DEFINE before == SubSeq(q, 1, at - 1)
             after == SubSeq(q, at, Len(q))
  <2>1. Enqueued(q, ts) = before \o ts \o after
    BY <1>3 DEF Enqueued
  <2>2. /\ at \in Int /\ at - 1 \in Int /\ Len(q) \in Int
        /\ \A i \in 1..(at - 1) : i \in 1..Len(q)
        /\ \A i \in at..Len(q) : i \in 1..Len(q)
    BY <1>1, <1>3
  <2>3. \A i \in 1..Len(q) : q[i] \in Tasks
    BY ElementOfSeq
  <2> HIDE DEF at
  <2>4. before \in Seq(Tasks) /\ Len(before) = at - 1
    <3>1. Len(before) = IF 1 <= at - 1 THEN at - 1 - 1 + 1 ELSE 0
      BY <2>2, <2>3, SubSeqProperties
    <3>2. before \in Seq(Tasks)
      BY <2>2, <2>3, SubSeqProperties
    <3>3. (IF 1 <= at - 1 THEN at - 1 - 1 + 1 ELSE 0) = at - 1
      BY <1>1, <1>3
    <3>4. QED
      BY <3>1, <3>2, <3>3
  <2>5. after \in Seq(Tasks) /\ Len(after) = Len(q) - at + 1
    <3>1. Len(after) = IF at <= Len(q) THEN Len(q) - at + 1 ELSE 0
      BY <2>2, <2>3, SubSeqProperties
    <3>2. after \in Seq(Tasks)
      BY <2>2, <2>3, SubSeqProperties
    <3>3. at <= Len(q)
      BY <1>1
    <3>4. QED
      BY <3>1, <3>2, <3>3
  <2> HIDE DEF before, after
  <2>6. before \o ts \in Seq(Tasks) /\ Len(before \o ts) = Len(before) + Len(ts)
    BY <2>4, ConcatProperties
  <2> DEFINE front == before \o ts
  <2> HIDE DEF front
  <2>7. front \in Seq(Tasks) /\ front \o after \in Seq(Tasks)
        /\ Len(front) = Len(before) + Len(ts) /\ Len(front \o after) = Len(front) + Len(after)
    <3>1. front \in Seq(Tasks) /\ Len(front) = Len(before) + Len(ts)
      BY <2>6 DEF front
    <3>2. QED
      BY <2>5, <3>1, ConcatProperties
  <2>8. Len(before) + Len(ts) + Len(after) = Len(q) + Len(ts)
    BY <1>1, <1>3, <2>4, <2>5
  <2>9. QED
    BY <2>1, <2>7, <2>8 DEF front
<1>4. QED
  BY <1>2, <1>3

LEMMA TasksOf ==
    ASSUME NEW S \in SUBSET Tasks, IsFiniteSet(S)
    PROVE  SetToSeq(S) \in Seq(Tasks)
<1>1. ExistsBijection(1..Cardinality(S), S) /\ Cardinality(S) \in Nat
  BY FS_CardinalityType
<1>2. PICK f : f \in Bijection(1..Cardinality(S), S)
  BY <1>1 DEF ExistsBijection
<1>3. f \in [1..Cardinality(S) -> S] /\ IsInjective(f)
  BY <1>2 DEF Bijection, Injection
<1>4. SetToSeq(S) \in [1..Cardinality(S) -> S]
  BY <1>3 DEF SetToSeq
<1>5. SetToSeq(S) \in Seq(S)
  BY <1>1, <1>4, SeqDef
<1>6. QED
  BY <1>5, SeqMonotonic

LEMMA AppendedOk ==
    ASSUME NEW q \in Seq(Tasks), NEW t \in Tasks
    PROVE  /\ Append(q, t) \in Seq(Tasks) /\ Len(Append(q, t)) = Len(q) + 1
           /\ t.kind \in {"scan", "settle"} => Scanning(Append(q, t))
<1>1. /\ Append(q, t) \in Seq(Tasks) /\ Len(Append(q, t)) = Len(q) + 1
      /\ Append(q, t)[Len(q) + 1] = t /\ Len(q) \in Nat
  BY AppendProperties, LenProperties
<1>2. DOMAIN Append(q, t) = 1..(Len(q) + 1)
  BY <1>1, LenProperties
<1>3. QED
  BY <1>1, <1>2 DEF Scanning

LEMMA Roomy == ASSUME NEW q \in Seq(Tasks), NEW n \in Nat
               PROVE  Len(q) \in Nat /\ (Room(q, n) <=> Len(q) + n <= QueueLimit)
BY LenProperties DEF Room

LEMMA ScanTasks == Scan \in Tasks /\ SettleScan \in Tasks /\ Scan.kind = "scan" /\ SettleScan.kind = "settle"
                   /\ \A k \in Keys : Task(k) \in Tasks
BY KeysAre DEF Scan, SettleScan, Task, Tasks

(* What ensureSubagentWatcher() leaves: it drops no task. *)
LEMMA EnsuresOk ==
    ASSUME NEW q \in Seq(Tasks), Len(q) <= QueueLimit, NEW lost \in BOOLEAN,
           gap \in BOOLEAN, watched \subseteq Dirs, EnsuresWatcher(q, lost)
    PROVE  /\ queue' \in Seq(Tasks) /\ Len(queue') <= QueueLimit /\ Len(q) <= Len(queue')
           /\ gap' \in BOOLEAN /\ watched' \subseteq Dirs /\ watched \subseteq watched'
<1>1. Present \subseteq Dirs
  BY DEF Present, Dirs
<1>2. Len(q) \in Nat /\ QueueLimit \in Nat
  BY LenProperties, IngestAssumption
<1>3. watched' = watched \cup Present
  BY DEF EnsuresWatcher
<1>4. CASE queue' = q /\ gap' \in BOOLEAN
  BY <1>1, <1>2, <1>3, <1>4
<1>5. CASE Room(q, 1) /\ queue' = Append(q, Scan) /\ gap' = (gap \/ lost)
  <2>1. Append(q, Scan) \in Seq(Tasks) /\ Len(Append(q, Scan)) = Len(q) + 1 /\ Len(q) + 1 <= QueueLimit
    BY <1>5, AppendedOk, ScanTasks DEF Room
  <2>2. QED
    BY <1>1, <1>2, <1>3, <1>5, <2>1
<1>6. (gap \/ lost) \in BOOLEAN /\ TRUE \in BOOLEAN
  OBVIOUS
<1>7. QED
  BY <1>4, <1>5, <1>6 DEF EnsuresWatcher

-----------------------------------------------------------------------------
(* The inductive invariant *)

RestOk ==
    /\ DiskOk /\ now \in Time /\ since \in Time
    /\ owned \in BOOLEAN /\ watched \subseteq Dirs /\ notices \subseteq watched
    /\ timer \in BOOLEAN /\ gap \in BOOLEAN
    /\ queue \in Seq(Tasks) /\ Len(queue) <= QueueLimit
    /\ unread \subseteq log /\ log \subseteq Keys
    /\ events \in 0..MaxEvents /\ reloads \in 0..MaxReloads

(* Nothing is inferred before the log was replayed: a result in it comes first. *)
ReplayFirst == unread # {} => ledger["0"].source # "bare"

IngestInv == RestOk /\ WorkOk(Work) /\ ReplayFirst

LEMMA IngestInvGives ==
    ASSUME IngestInv
    PROVE  IngestTypeOK /\ CountedOnce /\ LedgerAgrees
<1>1. /\ Work.st = st /\ Work.ledger = ledger /\ Work.archive = archive
  BY DEF Work
<1>2. st \in States /\ ledger \in [Keys -> Rows] /\ archive \in [Keys -> Rows]
      /\ StateOk(st) /\ RowsOk(Work)
  BY <1>1 DEF IngestInv, WorkOk, Works
<1>3. IngestTypeOK
  BY <1>2 DEF IngestTypeOK, IngestInv, RestOk, DiskOk, States, StateOk, Tasks
<1>4. LedgerAgrees
  BY <1>1, <1>2 DEF LedgerAgrees, RowsOk
<1>5. CountedOnce
  BY <1>2, <1>4, KeysAre DEF CountedOnce, LedgerAgrees, StateOk
<1>6. QED
  BY <1>3, <1>4, <1>5

LEMMA IngestInitInv == IngestInit => IngestInv
<1> SUFFICES ASSUME IngestInit PROVE IngestInv
  OBVIOUS
<1>1. /\ 0 \in Time /\ 1 \in Time /\ 0 \in 0..MaxEvents /\ 0 \in 0..MaxReloads
      /\ <<>> \in Seq(Tasks) /\ Len(<<>>) <= QueueLimit
  BY IngestAssumption, EmptySeq DEF Time
<1>2. NoRow \in Rows /\ NoRow.source = "none"
  BY DEF NoRow, Rows, Sources
<1>3. NewState \in States /\ NewState.counted = {} /\ NewState.completed = {} /\ NewState.markers = {}
      /\ NewState.bare = {} /\ NewState.snapshot = {}
  BY <1>1 DEF NewState, States
<1>4. RestOk
  BY <1>1 DEF IngestInit, RestOk, DiskOk
<1>5. st = NewState /\ ledger = [k \in Keys |-> NoRow] /\ archive = [k \in Keys |-> NoRow]
  BY DEF IngestInit
<1>6. Work.st = NewState /\ Work.ledger = ledger /\ Work.archive = archive /\ Work \in Works
  BY <1>2, <1>3, <1>5 DEF Work, Works
<1>7. StateOk(NewState)
  BY <1>3 DEF StateOk
<1>8. RowsOk(Work)
  BY <1>2, <1>3, <1>5, <1>6 DEF RowsOk, Proven
<1>9. ReplayFirst
  BY <1>2, <1>5, KeysAre DEF ReplayFirst
<1>10. QED
  BY <1>4, <1>6, <1>7, <1>8, <1>9 DEF IngestInv, WorkOk

LEMMA DoesOk ==
    ASSUME NEW w, WorkOk(w), Does(w)
    PROVE  WorkOk(Work') /\ Work' = w /\ st' = w.st /\ ledger' = w.ledger /\ archive' = w.archive
<1>1. st' = w.st /\ ledger' = w.ledger /\ archive' = w.archive
  BY DEF Does
<1>2. Work' = [st |-> w.st, ledger |-> w.ledger, archive |-> w.archive]
  BY <1>1 DEF Work
<1>3. w = [st |-> w.st, ledger |-> w.ledger, archive |-> w.archive]
  BY DEF WorkOk, Works
<1>4. QED
  BY <1>1, <1>2, <1>3

(* What the properties of single steps ask of the ledger. *)
FinalKept == \A k \in Keys : ledger[k].source = "completion" => ledger'[k].source = "completion"
InferredTaken ==
    /\ Len(queue') < Len(queue) /\ Head(queue).kind # "completion" /\ Ambiguous(Dirs) =>
          ledger'["0"].source # "bare"
    /\ reloads' # reloads => ledger'["0"].source # "bare"

(* Steps that leave the rows and the ingest state alone. *)
LEMMA RowsAlone ==
    ASSUME IngestInv, UNCHANGED <<st, ledger, archive, unread, reloads>>, RestOk', Len(queue) <= Len(queue')
    PROVE  IngestInv' /\ FinalKept /\ InferredTaken
<1>1. Work' = Work
  BY DEF Work
<1>2. Len(queue) \in Nat /\ Len(queue') \in Nat
  BY LenProperties DEF IngestInv, RestOk
<1>3. QED
  BY <1>1, <1>2 DEF IngestInv, ReplayFirst, FinalKept, InferredTaken

LEMMA WriteMetaStep ==
    ASSUME IngestInv, NEW f \in Files, WriteMeta(f)
    PROVE  IngestInv' /\ FinalKept /\ InferredTaken
<1> USE DEF WriteMeta
<1>1. now' \in Time
  BY IngestAssumption DEF IngestInv, RestOk, Time
<1>2. DiskOk'
  BY <1>1 DEF IngestInv, RestOk, DiskOk
<1>3. notices' \subseteq watched'
  BY DEF IngestInv, RestOk
<1>4. RestOk'
  BY <1>1, <1>2, <1>3 DEF IngestInv, RestOk
<1>5. Len(queue) <= Len(queue')
  BY LenProperties DEF IngestInv, RestOk
<1>6. QED
  BY <1>4, <1>5, RowsAlone

LEMMA WatcherCallsStep ==
    ASSUME IngestInv, NEW d \in Dirs, WatcherCalls(d)
    PROVE  IngestInv' /\ FinalKept /\ InferredTaken
<1>1. RestOk'
  BY DEF WatcherCalls, IngestInv, RestOk, DiskOk
<1>2. Len(queue) <= Len(queue')
  BY LenProperties DEF IngestInv, RestOk, WatcherCalls
<1>3. QED
  BY <1>1, <1>2, RowsAlone DEF WatcherCalls

LEMMA Ticks == ASSUME IngestInv, Event PROVE events' \in 0..MaxEvents
BY IngestAssumption DEF IngestInv, RestOk, Event

LEMMA FiniteThree == ASSUME NEW a, NEW b, NEW c PROVE IsFiniteSet({a, b, c})
<1>1. IsFiniteSet({a})
  BY FS_Singleton
<1>2. IsFiniteSet({a} \cup {b})
  BY <1>1, FS_AddElement
<1>3. IsFiniteSet(({a} \cup {b}) \cup {c})
  BY <1>2, FS_AddElement
<1>4. {a, b, c} = ({a} \cup {b}) \cup {c}
  OBVIOUS
<1>5. QED
  BY <1>3, <1>4

LEMMA AsyncCompleteStep ==
    ASSUME IngestInv, NEW K \in (SUBSET Children) \cup {{Aggregate}}, AsyncComplete(K)
    PROVE  IngestInv' /\ FinalKept /\ InferredTaken
<1> DEFINE S == {Task(k) : k \in K}
           ts == SetToSeq(S)
           q == Enqueued(queue, ts)
<1>1. /\ queue \in Seq(Tasks) /\ Len(queue) <= QueueLimit /\ gap \in BOOLEAN /\ watched \subseteq Dirs
      /\ notices \subseteq watched /\ Len(queue) \in Nat
  BY LenProperties DEF IngestInv, RestOk
<1>2. ts \in Seq(Tasks)
  <2>1. K \subseteq Keys
    BY KeysAre
  <2>2. S \in SUBSET Tasks
    BY <2>1, ScanTasks
  <2>3. IsFiniteSet(K)
    <3>1. IsFiniteSet({"0", "1", "run"})
      BY FiniteThree
    <3>2. QED
      BY <2>1, <3>1, KeysAre, FS_Subset
  <2>4. IsFiniteSet(S)
    <3>1. S = {Task(k) : k \in K}
      OBVIOUS
    <3>2. S = {Task("0") : x \in K \cap {"0"}} \cup {Task("1") : x \in K \cap {"1"}}
               \cup {Task("run") : x \in K \cap {"run"}}
      BY <2>1, KeysAre
    <3>3. S \subseteq {Task("0"), Task("1"), Task("run")}
      BY <3>2
    <3>4. IsFiniteSet({Task("0"), Task("1"), Task("run")})
      BY FiniteThree
    <3>5. QED
      BY <3>3, <3>4, FS_Subset
  <2>5. QED
    BY <2>2, <2>4, TasksOf
<1> HIDE DEF ts
<1>3. q \in Seq(Tasks) /\ Len(q) = Len(queue) + Len(ts) /\ Len(ts) \in Nat
  BY <1>1, <1>2, EnqueuedOk, LenProperties
<1>4. events' \in 0..MaxEvents
  BY Ticks DEF AsyncComplete
<1>5. CASE Room(queue, Len(ts))
  <2>1. owned' = TRUE /\ timer' = TRUE /\ EnsuresWatcher(q, FALSE)
    BY <1>5 DEF AsyncComplete, ts
  <2>2. Len(q) <= QueueLimit /\ FALSE \in BOOLEAN
    BY <1>3, <1>5 DEF Room
  <2> HIDE DEF q
  <2>3. /\ queue' \in Seq(Tasks) /\ Len(queue') <= QueueLimit /\ Len(q) <= Len(queue')
        /\ gap' \in BOOLEAN /\ watched' \subseteq Dirs /\ watched \subseteq watched'
    BY <1>1, <1>3, <2>1, <2>2, EnsuresOk
  <2>4. RestOk'
    BY <1>1, <1>4, <2>1, <2>3 DEF AsyncComplete, IngestInv, RestOk, DiskOk
  <2>5. Len(queue) <= Len(queue')
    BY <1>1, <1>3, <2>3, LenProperties
  <2>6. QED
    BY <2>4, <2>5, RowsAlone DEF AsyncComplete
<1>6. CASE ~Room(queue, Len(ts))
  <2>1. gap' = TRUE /\ UNCHANGED <<owned, timer, watched, queue>>
    BY <1>6 DEF AsyncComplete, ts
  <2>2. RestOk'
    BY <1>1, <1>4, <2>1 DEF AsyncComplete, IngestInv, RestOk, DiskOk
  <2>3. QED
    BY <1>1, <2>1, <2>2, RowsAlone DEF AsyncComplete
<1>7. QED
  BY <1>5, <1>6

LEMMA RunObservedStep ==
    ASSUME IngestInv, RunObserved
    PROVE  IngestInv' /\ FinalKept /\ InferredTaken
<1>1. /\ queue' \in Seq(Tasks) /\ Len(queue') <= QueueLimit /\ Len(queue) <= Len(queue')
      /\ gap' \in BOOLEAN /\ watched' \subseteq Dirs /\ watched \subseteq watched'
  BY EnsuresOk DEF RunObserved, IngestInv, RestOk
<1>2. events' \in 0..MaxEvents
  BY Ticks DEF RunObserved
<1>3. RestOk'
  BY <1>1, <1>2 DEF RunObserved, IngestInv, RestOk, DiskOk
<1>4. QED
  BY <1>1, <1>3, RowsAlone DEF RunObserved

LEMMA ScanTimerFiresStep ==
    ASSUME IngestInv, ScanTimerFires
    PROVE  IngestInv' /\ FinalKept /\ InferredTaken
<1>1. queue \in Seq(Tasks) /\ Len(queue) <= QueueLimit /\ gap \in BOOLEAN /\ Len(queue) \in Nat
  BY LenProperties DEF IngestInv, RestOk
<1>2. queue' \in Seq(Tasks) /\ Len(queue') <= QueueLimit /\ Len(queue) <= Len(queue') /\ gap' \in BOOLEAN
  <2>1. CASE Room(queue, 1)
    <3>1. queue' = Append(queue, Scan) /\ gap' = gap /\ Len(queue) + 1 <= QueueLimit
      BY <2>1 DEF ScanTimerFires, Room
    <3>2. queue' \in Seq(Tasks) /\ Len(queue') = Len(queue) + 1
      BY <1>1, <3>1, AppendedOk, ScanTasks
    <3>3. QED
      BY <1>1, <3>1, <3>2
  <2>2. CASE ~Room(queue, 1)
    BY <1>1, <2>2 DEF ScanTimerFires
  <2>3. QED
    BY <2>1, <2>2
<1>3. RestOk'
  BY <1>2 DEF ScanTimerFires, IngestInv, RestOk, DiskOk
<1>4. QED
  BY <1>2, <1>3, RowsAlone DEF ScanTimerFires

LEMMA SettledStep ==
    ASSUME IngestInv, Settled
    PROVE  IngestInv' /\ FinalKept /\ InferredTaken
<1> DEFINE first == IF Unwatched # {} /\ Room(queue, 1) THEN Append(queue, Scan) ELSE queue
           lost == Unwatched # {} /\ ~Room(queue, 1)
<1>1. queue \in Seq(Tasks) /\ Len(queue) <= QueueLimit /\ gap \in BOOLEAN /\ Len(queue) \in Nat
  BY LenProperties DEF IngestInv, RestOk
<1>2. first \in Seq(Tasks) /\ Len(first) <= QueueLimit /\ Len(queue) <= Len(first) /\ Len(first) \in Nat
  <2>1. CASE Unwatched # {} /\ Room(queue, 1)
    <3>1. Append(queue, Scan) \in Seq(Tasks) /\ Len(Append(queue, Scan)) = Len(queue) + 1
      BY <1>1, AppendedOk, ScanTasks
    <3>2. QED
      BY <1>1, <2>1, <3>1 DEF Room
  <2>2. CASE ~(Unwatched # {} /\ Room(queue, 1))
    BY <1>1, <2>2
  <2>3. QED
    BY <2>1, <2>2
<1>3. IF Room(first, 1) THEN queue' = Append(first, SettleScan) /\ gap' = (gap \/ lost)
           ELSE queue' = first /\ gap' = TRUE
  BY DEF Settled
<1> HIDE DEF first
<1>4. queue' \in Seq(Tasks) /\ Len(queue') <= QueueLimit /\ Len(queue) <= Len(queue') /\ gap' \in BOOLEAN
  <2>1. CASE Room(first, 1)
    <3>1. queue' = Append(first, SettleScan) /\ gap' \in BOOLEAN /\ Len(first) + 1 <= QueueLimit
      BY <1>3, <2>1 DEF Room
    <3>2. queue' \in Seq(Tasks) /\ Len(queue') = Len(first) + 1
      BY <1>2, <3>1, AppendedOk, ScanTasks
    <3>3. QED
      BY <1>1, <1>2, <3>1, <3>2
  <2>2. CASE ~Room(first, 1)
    BY <1>1, <1>2, <1>3, <2>2
  <2>3. QED
    BY <2>1, <2>2
<1>5. watched' \subseteq Dirs /\ notices' \subseteq watched' /\ timer' = FALSE
  BY DEF Settled, IngestInv, RestOk, Present, Dirs
<1>6. events' \in 0..MaxEvents
  BY Ticks DEF Settled
<1>7. RestOk'
  BY <1>4, <1>5, <1>6 DEF Settled, IngestInv, RestOk, DiskOk
<1>8. QED
  BY <1>4, <1>7, RowsAlone DEF Settled

LEMMA TailOk ==
    ASSUME IngestInv, queue # <<>>, queue' = Tail(queue)
    PROVE  queue' \in Seq(Tasks) /\ Len(queue') <= QueueLimit /\ Head(queue) \in Tasks
           /\ Len(queue') < Len(queue)
<1>1. queue \in Seq(Tasks) /\ Len(queue) <= QueueLimit /\ Len(queue) \in Nat /\ QueueLimit \in Nat
  BY LenProperties, IngestAssumption DEF IngestInv, RestOk
<1>2. Tail(queue) \in Seq(Tasks) /\ Len(Tail(queue)) = Len(queue) - 1 /\ Head(queue) \in Tasks
  BY <1>1, HeadTailProperties
<1>3. QED
  BY <1>1, <1>2

LEMMA ToolEntryStep ==
    ASSUME IngestInv, NEW k \in Keys, ToolEntry(k)
    PROVE  IngestInv' /\ FinalKept /\ InferredTaken
<1> DEFINE r == Record(k, "tool", 1, TRUE)
           w == Apply(Work, r, {k})
           v == Linked(w, k)
<1>1. RecordOk(r)
  BY DEF RecordOk, Record, Sources
<1>2. Work.ledger = ledger /\ WorkOk(Work)
  BY DEF Work, IngestInv
<1> HIDE DEF r
<1>3. WorkOk(w) /\ \A j \in Keys : ledger[j].source = "completion" => w.ledger[j].source = "completion"
  BY <1>1, <1>2, ApplyOk
<1> HIDE DEF w
<1>4. WorkOk(v) /\ \A j \in Keys : v.ledger[j].source = w.ledger[j].source
  BY <1>3, LinkedOk
<1> HIDE DEF v
<1>5. Does(v)
  BY DEF ToolEntry, v, w, r
<1>6. WorkOk(Work') /\ ledger' = v.ledger
  BY <1>4, <1>5, DoesOk
<1>7. FinalKept
  BY <1>3, <1>4, <1>6 DEF FinalKept
<1>8. events' \in 0..MaxEvents
  BY Ticks DEF ToolEntry
<1>9. RestOk' /\ ReplayFirst' /\ InferredTaken
  <2>1. RestOk'
    BY <1>8 DEF ToolEntry, IngestInv, RestOk, DiskOk
  <2>2. ReplayFirst'
    BY DEF ToolEntry, ReplayFirst
  <2>3. ~(Len(queue') < Len(queue)) /\ reloads' = reloads
    BY LenProperties DEF ToolEntry, IngestInv, RestOk
  <2>4. QED
    BY <2>1, <2>2, <2>3 DEF InferredTaken
<1>10. QED
  BY <1>6, <1>7, <1>9 DEF IngestInv

LEMMA RunCompletionStep ==
    ASSUME IngestInv, RunCompletion
    PROVE  IngestInv' /\ FinalKept /\ InferredTaken
<1> DEFINE r == Record(Head(queue).key, "completion", 0, TRUE)
           w == Apply(Work, r, {})
<1>1. queue' \in Seq(Tasks) /\ Len(queue') <= QueueLimit /\ Head(queue) \in Tasks
  BY TailOk DEF RunCompletion
<1>2. RecordOk(r) /\ r.source = "completion"
  BY <1>1 DEF RecordOk, Record, Sources, Tasks
<1>3. Work.ledger = ledger /\ WorkOk(Work)
  BY DEF Work, IngestInv
<1> HIDE DEF r
<1>4. /\ WorkOk(w) /\ \A j \in Keys : ledger[j].source = "completion" => w.ledger[j].source = "completion"
      /\ w.ledger["0"].source = "bare" => ledger["0"].source = "bare" \/ r.source = "bare"
  BY <1>2, <1>3, ApplyOk
<1> HIDE DEF w
<1>5. Does(w)
  BY DEF RunCompletion, w, r
<1>6. WorkOk(Work') /\ ledger' = w.ledger
  BY <1>4, <1>5, DoesOk
<1>7. RestOk'
  BY <1>1 DEF RunCompletion, IngestInv, RestOk, DiskOk
<1>8. ReplayFirst'
  BY <1>2, <1>4, <1>6 DEF ReplayFirst, IngestInv, RunCompletion
<1>9. FinalKept /\ InferredTaken
  BY <1>4, <1>6 DEF FinalKept, InferredTaken, RunCompletion
<1>10. QED
  BY <1>6, <1>7, <1>8, <1>9 DEF IngestInv

(* What RunScan does, as ScanOk tells it. *)
LEMMA ScanIs ==
    ASSUME IngestInv, RunScan
    PROVE  \E R \in MayRead(FoundFiles), extra \in SUBSET FoundFiles :
               /\ Does(Collected(Revoked(Work), R, R \cup extra)) /\ (R = FoundFiles => extra = {})
               /\ R # FoundFiles => timer' \/ gap'
<1>1. PICK res \in ScanResults :
         LET again == res.truncated /\ res.grew /\ Head(queue).kind = "scan" IN
         /\ Does(res.work)
         /\ timer' = (timer \/ again) /\ gap' = (gap \/ (res.truncated /\ ~again))
  BY DEF RunScan
<1>2. ScanResults = UNION {{ScanResult(Revoked(Work), FoundFiles, R, extra) : extra \in MayReach(FoundFiles, R)} : R \in MayRead(FoundFiles)}
  BY DEF ScanResults, FoundFiles
<1>3. PICK R \in MayRead(FoundFiles) : \E extra \in MayReach(FoundFiles, R) : res = ScanResult(Revoked(Work), FoundFiles, R, extra)
  BY <1>1, <1>2
<1>4. PICK extra \in MayReach(FoundFiles, R) : res = ScanResult(Revoked(Work), FoundFiles, R, extra)
  BY <1>3
<1>5. res.work = Collected(Revoked(Work), R, R \cup extra) /\ res.truncated = (R # FoundFiles)
  BY <1>4 DEF ScanResult
<1>6. extra \in SUBSET FoundFiles /\ (R = FoundFiles => extra = {})
  BY DEF MayReach
<1>7. R # FoundFiles => timer' \/ gap'
  BY <1>1, <1>5
<1>8. Does(Collected(Revoked(Work), R, R \cup extra))
  BY <1>1, <1>5
<1>9. QED
  BY <1>6, <1>7, <1>8

LEMMA RunScanStep ==
    ASSUME IngestInv, RunScan
    PROVE  IngestInv' /\ FinalKept /\ InferredTaken
<1>2. PICK R \in MayRead(FoundFiles), extra \in SUBSET FoundFiles : Does(Collected(Revoked(Work), R, R \cup extra))
  BY ScanIs
<1> DEFINE v == Collected(Revoked(Work), R, R \cup extra)
<1>3. WorkOk(Work) /\ DiskOk
  BY DEF IngestInv, RestOk
<1>4. /\ WorkOk(v)
      /\ \A k \in Keys : ledger[k].source = "completion" => v.ledger[k].source = "completion"
      /\ Ambiguous(Dirs) => v.ledger["0"].source # "bare"
  BY <1>3, ScanOk
<1>5. Does(v)
  BY <1>2
<1> HIDE DEF v
<1>6. WorkOk(Work') /\ ledger' = v.ledger
  BY <1>4, <1>5, DoesOk
<1>7. queue' \in Seq(Tasks) /\ Len(queue') <= QueueLimit
  BY TailOk DEF RunScan
<1>8. timer' \in BOOLEAN /\ gap' \in BOOLEAN
  BY DEF RunScan
<1>9. RestOk'
  BY <1>7, <1>8 DEF RunScan, IngestInv, RestOk, DiskOk
<1>10. ReplayFirst'
  BY DEF ReplayFirst, RunScan
<1>11. FinalKept /\ InferredTaken
  BY <1>4, <1>6 DEF FinalKept, InferredTaken, RunScan
<1>12. QED
  BY <1>6, <1>9, <1>10, <1>11 DEF IngestInv

-----------------------------------------------------------------------------
(* Reloads *)

LEMMA ReloadStep ==
    ASSUME IngestInv, Reload
    PROVE  IngestInv' /\ FinalKept /\ InferredTaken
<1> DEFINE known == {k \in Keys : archive[k] # NoRow}
           counted == {k \in known : Proven(archive[k])}
           completed == {k \in known : archive[k].source = "completion"}
           markers == {Granularity(k) : k \in counted}
           bare == known \ counted
           s == [NewState EXCEPT !.keys = known, !.rev = known, !.restored = known,
                    !.counted = counted, !.completed = completed, !.snapshot = bare, !.bare = bare,
                    !.markers = markers]
<1>1. /\ st \in States /\ ledger \in [Keys -> Rows] /\ archive \in [Keys -> Rows]
      /\ StateOk(st) /\ RowsOk(Work) /\ Work.st = st /\ Work.ledger = ledger /\ Work.archive = archive
  BY DEF IngestInv, WorkOk, Works, Work
<1>2. 0 \in Time
  BY IngestAssumption DEF Time
<1>3. /\ known \in SUBSET Keys /\ counted \in SUBSET Keys /\ completed \in SUBSET Keys
      /\ bare \in SUBSET Keys /\ markers \in SUBSET {"run", "child"}
  BY Granularities
<1>4. RestoredState(archive) = s
  BY DEF RestoredState
<1>5. /\ completed \subseteq counted /\ bare \cap completed = {} /\ bare \subseteq {"0"}
      /\ counted \subseteq st.counted /\ \A k \in Keys : k \in counted <=> Proven(archive[k])
      /\ \A k \in counted : archive[k] # NoRow
      /\ \A k \in Keys : k \in bare => archive[k].source = "bare"
  <2>1. \A k \in Keys : archive[k].source \in Sources
    BY <1>1 DEF Rows
  <2>2. \A k \in Keys : Proven(archive[k]) <=> archive[k].source \notin {"none", "bare"}
    BY DEF Proven
  <2>3. \A k \in Keys : /\ archive[k].source = "none" => archive[k] = NoRow
                        /\ archive[k].source = "bare" => k = "0"
                        /\ Proven(archive[k]) => k \in st.counted
    BY <1>1 DEF RowsOk
  <2>4. NoRow.source = "none"
    BY DEF NoRow
  <2>5. QED
    BY <2>2, <2>3, <2>4
<1> DEFINE L == [k \in Keys |-> IF k \in counted THEN archive[k] ELSE NoRow]
<1>6. NoRow \in Rows /\ NoRow.source = "none"
  BY DEF NoRow, Rows, Sources
<1>7. L \in [Keys -> Rows] /\ \A k \in Keys : L[k] = IF k \in counted THEN archive[k] ELSE NoRow
  BY <1>1, <1>6
<1> HIDE DEF known, counted, completed, bare, L
<1>8. /\ s \in States /\ s.counted = counted /\ s.completed = completed /\ s.bare = bare
      /\ s.snapshot = bare /\ s.markers = {Granularity(k) : k \in counted}
  <2> HIDE DEF markers
  <2>1. s \in States
    BY <1>2, <1>3 DEF States, NewState
  <2>2. /\ s.counted = counted /\ s.completed = completed /\ s.bare = bare
        /\ s.snapshot = bare /\ s.markers = markers
    BY DEF NewState
  <2>3. QED
    BY <2>1, <2>2 DEF markers
<1> HIDE DEF s, markers
<1>9. StateOk(s)
  BY <1>1, <1>5, <1>8 DEF StateOk
<1>10. st' = s /\ ledger' = L /\ archive' = archive
  BY <1>4, <1>8 DEF Reload, L
<1>11. Work'.st = s /\ Work'.ledger = L /\ Work'.archive = archive /\ Work' \in Works
  BY <1>1, <1>7, <1>8, <1>10 DEF Work, Works
<1>12. RowsOk(Work')
  <2> SUFFICES ASSUME NEW j \in Keys
               PROVE  /\ L[j] # NoRow <=> j \in counted
                      /\ L[j].source = "none" => L[j] = NoRow
                      /\ archive[j].source = "none" => archive[j] = NoRow
                      /\ L[j].source = "bare" => j \in bare
                      /\ archive[j].source = "bare" => j = "0"
                      /\ j \in bare => archive[j].source = "bare"
                      /\ L[j] # NoRow => archive[j].source = L[j].source
                      /\ L[j].source = "completion" => j \in completed
                      /\ Proven(archive[j]) => j \in counted
    BY <1>8, <1>11 DEF RowsOk
  <2>1. /\ archive[j].source = "none" => archive[j] = NoRow
        /\ archive[j].source = "bare" => j = "0"
    BY <1>1 DEF RowsOk
  <2>2. CASE j \in counted
    <3>1. L[j] = archive[j] /\ archive[j] # NoRow /\ Proven(archive[j])
      BY <1>5, <1>7, <2>2
    <3>2. archive[j].source # "bare" /\ archive[j].source # "none"
      BY <3>1 DEF Proven
    <3>3. archive[j].source = "completion" => j \in completed
      BY <3>1 DEF completed, known
    <3>4. QED
      BY <1>5, <2>1, <2>2, <3>1, <3>2, <3>3
  <2>3. CASE j \notin counted
    BY <1>5, <1>6, <1>7, <2>1, <2>3
  <2>4. QED
    BY <2>2, <2>3
<1>13. L["0"].source # "bare"
  BY <1>5, <1>6, <1>7, KeysAre DEF Proven
<1>14. FinalKept
  <2> SUFFICES ASSUME NEW k \in Keys, ledger[k].source = "completion"
               PROVE  L[k].source = "completion"
    BY <1>10 DEF FinalKept
  <2>1. ledger[k] # NoRow
    BY <1>6
  <2>2. archive[k].source = "completion"
    BY <1>1, <2>1 DEF RowsOk
  <2>3. k \in counted
    BY <1>5, <2>2 DEF Proven
  <2>4. QED
    BY <1>7, <2>2, <2>3
<1>15. RestOk'
  <2>1. now' \in Time /\ since' \in Time
    BY IngestAssumption DEF Reload, IngestInv, RestOk, Time
  <2>2. reloads' \in 0..MaxReloads
    BY IngestAssumption DEF Reload, IngestInv, RestOk
  <2>3. queue' \in Seq(Tasks) /\ Len(queue') <= QueueLimit
    <3>1. queue' = <<>> \/ (queue' = <<Scan>> /\ QueueLimit > 0)
      BY DEF Reload
    <3>2. <<Scan>> = Append(<<>>, Scan) /\ <<>> \in Seq(Tasks) /\ Len(<<>>) = 0
      BY EmptySeq
    <3>3. <<Scan>> \in Seq(Tasks) /\ Len(<<Scan>>) = 1
      BY <3>2, AppendedOk, ScanTasks
    <3>4. QueueLimit \in Nat /\ 0 <= QueueLimit /\ (QueueLimit > 0 => 1 <= QueueLimit)
      BY IngestAssumption
    <3>5. CASE queue' = <<>>
      BY <3>2, <3>4, <3>5
    <3>6. CASE queue' = <<Scan>> /\ QueueLimit > 0
      BY <3>3, <3>4, <3>6
    <3>7. QED
      BY <3>1, <3>5, <3>6
  <2>4. watched' \subseteq Dirs /\ notices' \subseteq watched'
    BY DEF Reload, Present, Dirs
  <2>5. QED
    BY <2>1, <2>2, <2>3, <2>4 DEF Reload, IngestInv, RestOk, DiskOk
<1>16. QED
  BY <1>8, <1>9, <1>10, <1>11, <1>12, <1>13, <1>14, <1>15
     DEF IngestInv, WorkOk, ReplayFirst, InferredTaken

LEMMA ReplayEntryStep ==
    ASSUME IngestInv, NEW k \in Keys, ReplayEntry(k)
    PROVE  IngestInv' /\ FinalKept /\ InferredTaken
<1> DEFINE rows == {j \in Keys : k \in archive[j].linked /\ Proven(archive[j])}
           r == Record(k, "tool", 0, FALSE)
           fresh == Fresh(st, r) \/ (archive[k] # NoRow /\ k \in st.counted)
           row == [source |-> "tool", linked |-> {}]
           t == Selected(st, r)
<1>1. /\ st \in States /\ ledger \in [Keys -> Rows] /\ archive \in [Keys -> Rows]
      /\ StateOk(st) /\ RowsOk(Work) /\ Work.st = st /\ Work.ledger = ledger /\ Work.archive = archive
  BY DEF IngestInv, WorkOk, Works, Work
<1>2. RecordOk(r) /\ r.key = k /\ r.source = "tool"
  BY DEF RecordOk, Record, Sources
<1>3. row \in Rows /\ row.source = "tool" /\ row # NoRow /\ NoRow.source = "none"
  BY DEF Rows, Sources, NoRow
<1>4. Work'.st = st' /\ Work'.ledger = ledger' /\ Work'.archive = archive'
      /\ Work' = [st |-> st', ledger |-> ledger', archive |-> archive']
  BY DEF Work
<1>5. RestOk'
  BY DEF ReplayEntry, IngestInv, RestOk, DiskOk
<1>6. ledger["0"].source # "bare"
  BY DEF ReplayEntry, IngestInv, ReplayFirst
<1>7. ~(Len(queue') < Len(queue)) /\ reloads' = reloads
  BY LenProperties DEF ReplayEntry, IngestInv, RestOk
<1>8. \A j \in Keys : Proven(archive[j]) =>
         /\ archive[j] # NoRow /\ archive[j].source \notin {"none", "bare"} /\ j \in st.counted
         /\ ledger[j] # NoRow /\ ledger[j].source = archive[j].source
  BY <1>1, <1>3 DEF RowsOk, Proven
<1>9. CASE rows # {}
  <2>1. /\ ledger' = [j \in Keys |-> IF j \in rows THEN archive[j] ELSE ledger[j]]
        /\ st' = st /\ archive' = archive
    BY <1>9 DEF ReplayEntry
  <2>2. \A j \in Keys : j \in rows => Proven(archive[j])
    OBVIOUS
  <2> HIDE DEF rows
  <2>3. \A j \in Keys : /\ ledger'[j].source = ledger[j].source
                        /\ (ledger'[j] # NoRow <=> ledger[j] # NoRow)
                        /\ ledger'[j] = ledger[j] \/ ledger'[j] = archive[j]
    BY <1>8, <2>1, <2>2
  <2>4. ledger' \in [Keys -> Rows]
    BY <1>1, <2>1
  <2>5. Work' \in Works
    BY <1>1, <1>4, <2>1, <2>4 DEF Works
  <2>6. RowsOk(Work')
    <3>1. \A j \in Keys : ledger'[j].source = "none" => ledger'[j] = NoRow
      BY <1>1, <2>3 DEF RowsOk
    <3>2. QED
      BY <1>1, <1>4, <2>1, <2>3, <3>1 DEF RowsOk
  <2>7. FinalKept /\ ReplayFirst'
    BY <1>6, <2>3, KeysAre DEF FinalKept, ReplayFirst
  <2>8. QED
    BY <1>1, <1>4, <1>5, <1>7, <2>1, <2>5, <2>6, <2>7 DEF IngestInv, WorkOk, InferredTaken
<1>10. CASE rows = {}
  <2>1. /\ st' = t
        /\ IF fresh /\ Proven(archive[k])
           THEN ledger' = [ledger EXCEPT ![k] = archive[k]] /\ archive' = archive
           ELSE IF fresh /\ ledger[k] = NoRow
           THEN ledger' = [ledger EXCEPT ![k] = row] /\ archive' = [archive EXCEPT ![k] = row]
           ELSE ledger' = ledger /\ archive' = archive
    BY <1>10 DEF ReplayEntry
  <2> HIDE DEF rows, r, row
  <2>2. t \in States /\ StateOk(t)
    BY <1>1, <1>2, NotFresh, IsFresh, SelectedOk
  <2>3. ~Fresh(st, r) => t.completed = st.completed /\ t.counted = st.counted /\ t.bare = st.bare
    BY <1>1, <1>2, NotFresh
  <2>4. Fresh(st, r) => /\ t.completed = st.completed /\ t.counted = st.counted \cup {k}
                        /\ t.bare = st.bare \ {k}
    <3>1. Fresh(st, r) => /\ t.completed = CompletedBy(st, r) /\ t.counted = st.counted \cup {r.key}
                          /\ t.bare = With(st.bare, r.key, r.source = "bare")
      BY <1>1, <1>2, IsFresh
    <3> HIDE DEF t
    <3>2. QED
      BY <1>2, <3>1 DEF CompletedBy, With
  <2> HIDE DEF t
  <2>5. /\ t.completed = st.completed /\ t.bare \subseteq st.bare
        /\ \A j \in Keys : j # k => (j \in t.counted <=> j \in st.counted) /\ (j \in t.bare <=> j \in st.bare)
        /\ fresh => k \in t.counted
        /\ ~fresh => t.counted = st.counted /\ t.bare = st.bare
        /\ st.counted \subseteq t.counted
    BY <2>3, <2>4
  <2>6. ledger[k].source # "bare"
    BY <1>1, <1>6 DEF RowsOk, StateOk
  <2>7. CASE fresh /\ Proven(archive[k])
    <3>1. ledger' = [ledger EXCEPT ![k] = archive[k]] /\ archive' = archive /\ st' = t
      BY <2>1, <2>7
    <3>2. /\ ledger' \in [Keys -> Rows]
          /\ \A j \in Keys : ledger'[j] = IF j = k THEN archive[j] ELSE ledger[j]
      BY <1>1, <3>1
    <3>3. \A j \in Keys : ledger'[j].source = ledger[j].source /\ (ledger'[j] # NoRow <=> ledger[j] # NoRow)
      BY <1>8, <2>7, <3>2
    <3>4. Work' \in Works
      BY <1>1, <1>4, <2>2, <3>1, <3>2 DEF Works
    <3>5. \A j \in Keys : j \in t.counted <=> j \in st.counted
      BY <1>8, <2>5, <2>7
    <3>6. RowsOk(Work')
      <4> SUFFICES ASSUME NEW j \in Keys
               PROVE  /\ ledger'[j] # NoRow <=> j \in t.counted
                      /\ ledger'[j].source = "none" => ledger'[j] = NoRow
                      /\ archive[j].source = "none" => archive[j] = NoRow
                      /\ ledger'[j].source = "bare" => j \in t.bare
                      /\ archive[j].source = "bare" => j = "0"
                      /\ j \in t.bare => archive[j].source = "bare"
                      /\ ledger'[j] # NoRow => archive[j].source = ledger'[j].source
                      /\ ledger'[j].source = "completion" => j \in t.completed
                      /\ Proven(archive[j]) => j \in t.counted
        BY <1>4, <3>1 DEF RowsOk
      <4>1. /\ ledger[j] # NoRow <=> j \in st.counted
            /\ ledger[j].source = "none" => ledger[j] = NoRow
            /\ archive[j].source = "none" => archive[j] = NoRow
            /\ ledger[j].source = "bare" => j \in st.bare
            /\ archive[j].source = "bare" => j = "0"
            /\ j \in st.bare => archive[j].source = "bare"
            /\ ledger[j] # NoRow => archive[j].source = ledger[j].source
            /\ ledger[j].source = "completion" => j \in st.completed
            /\ Proven(archive[j]) => j \in st.counted
        BY <1>1 DEF RowsOk
      <4>2. ledger'[j].source = "bare" => j \in t.bare
        BY <1>6, <1>8, <2>5, <2>6, <3>3, <4>1
      <4>3. QED
        BY <2>5, <3>3, <3>5, <4>1, <4>2
    <3>7. FinalKept /\ ReplayFirst'
      BY <1>6, <3>3, KeysAre DEF FinalKept, ReplayFirst
    <3>8. QED
      BY <1>4, <1>5, <1>7, <2>2, <3>1, <3>4, <3>6, <3>7 DEF IngestInv, WorkOk, InferredTaken
  <2>8. CASE fresh /\ ~Proven(archive[k]) /\ ledger[k] = NoRow
    <3>1. ledger' = [ledger EXCEPT ![k] = row] /\ archive' = [archive EXCEPT ![k] = row] /\ st' = t
      BY <2>1, <2>8
    <3>2. /\ ledger' \in [Keys -> Rows] /\ archive' \in [Keys -> Rows]
          /\ \A j \in Keys : ledger'[j] = IF j = k THEN row ELSE ledger[j]
          /\ \A j \in Keys : archive'[j] = IF j = k THEN row ELSE archive[j]
      BY <1>1, <1>3, <3>1
    <3>3. Work' \in Works
      BY <1>4, <2>2, <3>1, <3>2 DEF Works
    <3>4. k \notin st.counted
      BY <1>1, <2>8 DEF RowsOk
    <3>5. Fresh(st, r)
      BY <2>8, <3>4
    <3>6. k \in t.counted /\ k \notin t.bare
      BY <2>4, <3>5
    <3>7. RowsOk(Work')
      <4> SUFFICES ASSUME NEW j \in Keys
               PROVE  /\ ledger'[j] # NoRow <=> j \in t.counted
                      /\ ledger'[j].source = "none" => ledger'[j] = NoRow
                      /\ archive'[j].source = "none" => archive'[j] = NoRow
                      /\ ledger'[j].source = "bare" => j \in t.bare
                      /\ archive'[j].source = "bare" => j = "0"
                      /\ j \in t.bare => archive'[j].source = "bare"
                      /\ ledger'[j] # NoRow => archive'[j].source = ledger'[j].source
                      /\ ledger'[j].source = "completion" => j \in t.completed
                      /\ Proven(archive'[j]) => j \in t.counted
        BY <1>4, <3>1 DEF RowsOk
      <4>1. CASE j = k
        BY <1>3, <3>2, <3>6, <4>1
      <4>2. CASE j # k
        BY <1>1, <2>5, <3>2, <4>2 DEF RowsOk
      <4>3. QED
        BY <4>1, <4>2
    <3>8. FinalKept /\ ReplayFirst'
      BY <1>3, <1>6, <2>8, <3>2, KeysAre DEF FinalKept, ReplayFirst
    <3>9. QED
      BY <1>4, <1>5, <1>7, <2>2, <3>1, <3>3, <3>7, <3>8 DEF IngestInv, WorkOk, InferredTaken
  <2>9. CASE ~fresh \/ (~Proven(archive[k]) /\ ledger[k] # NoRow)
    <3>1. ~fresh
      BY <1>1, <2>6, <2>9 DEF RowsOk, Proven
    <3>2. ledger' = ledger /\ archive' = archive /\ st' = t
      BY <2>1, <3>1
    <3>3. Work' \in Works
      BY <1>1, <1>4, <2>2, <3>2 DEF Works
    <3>4. RowsOk(Work')
      BY <1>1, <1>4, <2>5, <3>1, <3>2 DEF RowsOk
    <3>5. FinalKept /\ ReplayFirst'
      BY <1>6, <3>2 DEF FinalKept, ReplayFirst
    <3>6. QED
      BY <1>4, <1>5, <1>7, <2>2, <3>2, <3>3, <3>4, <3>5 DEF IngestInv, WorkOk, InferredTaken
  <2>10. QED
    BY <2>7, <2>8, <2>9
<1>11. QED
  BY <1>9, <1>10

-----------------------------------------------------------------------------
(* No file is left behind *)

Waits(f) == timer \/ Scanning(queue) \/ f.dir \in notices \/ f.dir \notin watched \/ gap

(* A step that makes no file worth reading and drops no scan. *)
LEMMA NoneStranded ==
    ASSUME NoStrandedFile, UNCHANGED <<disk, since, owned>>,
           \A k \in Keys : \A m : Grown(st', k, m) => Grown(st, k, m),
           st.completed \cup st.restored \subseteq st'.completed \cup st'.restored,
           \A f \in Files : Waits(f) => Waits(f)'
    PROVE  NoStrandedFile'
<1> SUFFICES ASSUME NEW f \in Files, Candidate(st, f)', Key(f) \notin st'.completed \cup st'.restored
             PROVE  Waits(f)'
  BY DEF NoStrandedFile, Waits, Key
<1>1. Exists(f)' = Exists(f) /\ Ambiguous(Dirs)' = Ambiguous(Dirs)
  BY DEF Exists, Ambiguous, Bare, Indexed
<1>2. Grown(st', Key(f), disk[f].mtime) /\ Key(f) \in Keys
  BY KeyOf DEF Candidate, Grown, Key
<1>3. Grown(st, Key(f), disk[f].mtime)
  BY <1>2
<1>4. Candidate(st, f)
  BY <1>1, <1>3 DEF Candidate, Grown
<1>5. QED
  BY <1>4 DEF NoStrandedFile, Waits

LEMMA ScanningTail ==
    ASSUME NEW q \in Seq(Tasks), q # <<>>, Head(q).kind = "completion", Scanning(q)
    PROVE  Scanning(Tail(q))
<1>1. PICK i \in DOMAIN q : q[i].kind \in {"scan", "settle"}
  BY DEF Scanning
<1>2. Len(q) \in Nat /\ DOMAIN q = 1..Len(q) /\ q[1] = Head(q)
  BY LenProperties
<1>3. i # 1 /\ i - 1 \in 1..(Len(q) - 1)
  BY <1>1, <1>2
<1>4. /\ Tail(q) \in Seq(Tasks) /\ Len(Tail(q)) = Len(q) - 1
      /\ \A j \in 1..Len(Tail(q)) : Tail(q)[j] = q[j + 1]
  BY HeadTailProperties
<1>5. DOMAIN Tail(q) = 1..(Len(q) - 1)
  BY <1>4, LenProperties
<1>6. Tail(q)[i - 1] = q[(i - 1) + 1] /\ (i - 1) + 1 = i
  BY <1>1, <1>2, <1>3, <1>4
<1>7. QED
  BY <1>1, <1>3, <1>5, <1>6 DEF Scanning

LEMMA RecordStrandsNone ==
    ASSUME IngestInv, NEW r, RecordOk(r), st' = Selected(st, r)
    PROVE  /\ \A k \in Keys : \A m : Grown(st', k, m) => Grown(st, k, m)
           /\ st.completed \cup st.restored \subseteq st'.completed \cup st'.restored
<1>1. st \in States
  BY DEF IngestInv, WorkOk, Works, Work
<1>2. QED
  BY <1>1, SelectedGrows

LEMMA NoneStrandedStep ==
    ASSUME OneFileEach, IngestInv, NoStrandedFile, [IngestNext]_ingestVars
    PROVE  NoStrandedFile'
<1>0. queue \in Seq(Tasks) /\ Work.st = st /\ WorkOk(Work)
  BY DEF IngestInv, RestOk, Work
<1>1. ASSUME NEW f \in Files, WriteMeta(f) PROVE NoStrandedFile'
  <2> SUFFICES ASSUME NEW g \in Files, Candidate(st, g)', Key(g) \notin st.completed \cup st.restored
               PROVE  Waits(g)'
    BY <1>1 DEF NoStrandedFile, Waits, Key, WriteMeta
  <2>1. PICK usage \in BOOLEAN : disk' = [disk EXCEPT ![f] = [mtime |-> now', usage |-> usage]]
    BY <1>1 DEF WriteMeta
  <2>2. now' = now + 1 /\ now \in Nat /\ DiskOk
    BY <1>1 DEF WriteMeta, IngestInv, RestOk, Time
  <2>3. \A h \in Files : h # f => disk'[h] = disk[h]
    BY <2>1, <2>2 DEF DiskOk
  <2>4. disk'[f].mtime = now'
    BY <2>1, <2>2 DEF DiskOk
  <2>5. CASE g = f
    BY <1>1, <2>5 DEF WriteMeta, Waits
  <2>6. CASE g # f
    <3>1. \A h \in Files : Exists(h) => Exists(h)'
      BY <2>2, <2>3, <2>4 DEF Exists
    <3>2. Bare(Dirs) \subseteq Bare(Dirs)' /\ Indexed(Dirs) \subseteq Indexed(Dirs)'
      BY <3>1 DEF Bare, Indexed
    <3>3. Ambiguous(Dirs) => Ambiguous(Dirs)'
      <4> SUFFICES ASSUME Ambiguous(Dirs) PROVE Ambiguous(Dirs)'
        OBVIOUS
      <4>1. Bare(Dirs)' \subseteq Files
        BY DEF Bare
      <4>2. IsFiniteSet(Bare(Dirs)') /\ Cardinality(Bare(Dirs)) <= Cardinality(Bare(Dirs)')
            /\ Cardinality(Bare(Dirs)) \in Nat /\ Cardinality(Bare(Dirs)') \in Nat
        <5>1. IsFiniteSet(Bare(Dirs)')
          BY <4>1, IngestAssumption, FS_Subset
        <5>2. IsFiniteSet(Bare(Dirs)) /\ Cardinality(Bare(Dirs)) <= Cardinality(Bare(Dirs)')
          BY <3>2, <5>1, FS_Subset
        <5>3. QED
          BY <5>1, <5>2, FS_CardinalityType
      <4>3. QED
        BY <3>2, <4>2 DEF Ambiguous
    <3>4. Candidate(st, g)
      BY <1>1, <2>3, <2>6, <3>3 DEF Candidate, Exists, Key, WriteMeta
    <3>5. Waits(g)
      BY <3>4 DEF NoStrandedFile, Waits
    <3>6. QED
      BY <1>1, <3>5 DEF WriteMeta, Waits
  <2>7. QED
    BY <2>5, <2>6
<1>2. ASSUME timer' = TRUE \/ gap' = TRUE PROVE NoStrandedFile'
  BY <1>2 DEF NoStrandedFile
<1>3. ASSUME NEW K \in (SUBSET Children) \cup {{Aggregate}}, AsyncComplete(K) PROVE NoStrandedFile'
  BY <1>2, <1>3 DEF AsyncComplete
<1>4. ASSUME ScanTimerFires PROVE NoStrandedFile'
  <2>1. CASE Room(queue, 1)
    <3>1. Scanning(queue')
      BY <1>0, <1>4, <2>1, AppendedOk, ScanTasks DEF ScanTimerFires
    <3>2. Scanning(queue)'
      BY <3>1 DEF Scanning
    <3>3. QED
      BY <3>2 DEF NoStrandedFile
  <2>2. CASE ~Room(queue, 1)
    BY <1>2, <1>4, <2>2 DEF ScanTimerFires
  <2>3. QED
    BY <2>1, <2>2
<1>5. ASSUME Settled PROVE NoStrandedFile'
  <2> DEFINE first == IF Unwatched # {} /\ Room(queue, 1) THEN Append(queue, Scan) ELSE queue
             lost == Unwatched # {} /\ ~Room(queue, 1)
  <2>1. first \in Seq(Tasks)
    BY <1>0, AppendedOk, ScanTasks
  <2>2. IF Room(first, 1) THEN queue' = Append(first, SettleScan) /\ gap' = (gap \/ lost)
           ELSE queue' = first /\ gap' = TRUE
    BY <1>5 DEF Settled
  <2> HIDE DEF first
  <2>3. CASE Room(first, 1)
    <3>1. Scanning(queue')
      BY <2>1, <2>2, <2>3, AppendedOk, ScanTasks
    <3>2. Scanning(queue)'
      BY <3>1 DEF Scanning
    <3>3. QED
      BY <3>2 DEF NoStrandedFile
  <2>4. CASE ~Room(first, 1)
    BY <1>2, <2>2, <2>4
  <2>5. QED
    BY <2>3, <2>4
<1>6. ASSUME NEW k \in Keys, ToolEntry(k) PROVE NoStrandedFile'
  <2> DEFINE r == Record(k, "tool", 1, TRUE)
             w == Apply(Work, r, {k})
             v == Linked(w, k)
  <2>1. RecordOk(r)
    BY DEF RecordOk, Record, Sources
  <2> HIDE DEF r
  <2>2. WorkOk(w) /\ w.st = Selected(st, r)
    BY <1>0, <2>1, ApplyOk
  <2> HIDE DEF w
  <2>3. v.st = w.st
    BY <2>2, LinkedOk
  <2>4. Does(v)
    BY <1>6 DEF ToolEntry, w, r
  <2>5. st' = Selected(st, r)
    BY <2>2, <2>3, <2>4 DEF Does
  <2>6. /\ \A j \in Keys : \A m : Grown(st', j, m) => Grown(st, j, m)
        /\ st.completed \cup st.restored \subseteq st'.completed \cup st'.restored
    BY <2>1, <2>5, RecordStrandsNone
  <2>7. \A f \in Files : Waits(f) => Waits(f)'
    BY <1>6 DEF ToolEntry, Waits, Scanning
  <2>8. UNCHANGED <<disk, since, owned>>
    BY <1>6 DEF ToolEntry
  <2>9. QED
    BY <2>6, <2>7, <2>8, NoneStranded
<1>7. ASSUME NEW k \in Keys, ReplayEntry(k) PROVE NoStrandedFile'
  <2> DEFINE r == Record(k, "tool", 0, FALSE)
  <2>1. RecordOk(r)
    BY DEF RecordOk, Record, Sources
  <2>2. st' = st \/ st' = Selected(st, r)
    BY <1>7 DEF ReplayEntry
  <2> HIDE DEF r
  <2>3. /\ \A j \in Keys : \A m : Grown(st', j, m) => Grown(st, j, m)
        /\ st.completed \cup st.restored \subseteq st'.completed \cup st'.restored
    <3>1. CASE st' = st
      BY <3>1
    <3>2. CASE st' = Selected(st, r)
      BY <2>1, <3>2, RecordStrandsNone
    <3>3. QED
      BY <2>2, <3>1, <3>2
  <2>4. \A f \in Files : Waits(f) => Waits(f)'
    BY <1>7 DEF ReplayEntry, Waits, Scanning
  <2>5. UNCHANGED <<disk, since, owned>>
    BY <1>7 DEF ReplayEntry
  <2>6. QED
    BY <2>3, <2>4, <2>5, NoneStranded
<1>8. ASSUME RunCompletion PROVE NoStrandedFile'
  <2> DEFINE r == Record(Head(queue).key, "completion", 0, TRUE)
             w == Apply(Work, r, {})
  <2>1. Head(queue) \in Tasks
    BY <1>8, TailOk DEF RunCompletion
  <2>2. RecordOk(r)
    BY <2>1 DEF RecordOk, Record, Sources, Tasks
  <2> HIDE DEF r
  <2>3. w.st = Selected(st, r)
    BY <1>0, <2>2, ApplyOk
  <2>4. Does(w)
    BY <1>8 DEF RunCompletion, r
  <2>5. st' = Selected(st, r)
    BY <2>3, <2>4 DEF Does
  <2>6. /\ \A j \in Keys : \A m : Grown(st', j, m) => Grown(st, j, m)
        /\ st.completed \cup st.restored \subseteq st'.completed \cup st'.restored
    BY <2>2, <2>5, RecordStrandsNone
  <2>7. Scanning(queue) => Scanning(queue')
    BY <1>0, <1>8, ScanningTail DEF RunCompletion
  <2>8. Scanning(queue') = Scanning(queue)'
    BY DEF Scanning
  <2>9. \A f \in Files : Waits(f) => Waits(f)'
    BY <1>8, <2>7, <2>8 DEF RunCompletion, Waits
  <2>10. UNCHANGED <<disk, since, owned>>
    BY <1>8 DEF RunCompletion
  <2>11. QED
    BY <2>6, <2>9, <2>10, NoneStranded
<1>9. ASSUME RunScan PROVE NoStrandedFile'
  <2>1. PICK R \in MayRead(FoundFiles), extra \in SUBSET FoundFiles :
               /\ Does(Collected(Revoked(Work), R, R \cup extra)) /\ (R = FoundFiles => extra = {})
               /\ R # FoundFiles => timer' \/ gap'
    BY <1>9, ScanIs
  <2>2. timer' \in BOOLEAN /\ gap' \in BOOLEAN
    BY <1>9, RunScanStep DEF IngestInv, RestOk
  <2>3. CASE R # FoundFiles
    BY <1>2, <2>1, <2>2, <2>3
  <2>4. CASE R = FoundFiles
    <3> DEFINE v == Collected(Revoked(Work), FoundFiles, FoundFiles)
    <3>1. Does(v)
      <4>1. extra = {} /\ R \cup extra = FoundFiles
        BY <2>1, <2>4
      <4>2. QED
        BY <2>1, <2>4, <4>1
    <3>2. \A f \in Files : Candidate(v.st, f) => Key(f) \in v.st.completed \cup v.st.restored
      <4>1. FoundFiles \in MayRead(FoundFiles) /\ DiskOk
        BY <2>4 DEF IngestInv, RestOk
      <4>2. QED
        BY <1>0, <4>1, ScanReadsAll
    <3> HIDE DEF v
    <3>3. st' = v.st /\ UNCHANGED <<disk, since, owned>>
      BY <1>9, <3>1 DEF Does, RunScan
    <3> SUFFICES ASSUME NEW f \in Files, Candidate(st, f)'
                 PROVE  Key(f) \in st'.completed \cup st'.restored
      BY DEF NoStrandedFile, Key
    <3>4. Exists(f)' = Exists(f) /\ Ambiguous(Dirs)' = Ambiguous(Dirs)
      BY <3>3 DEF Exists, Ambiguous, Bare, Indexed
    <3>5. Candidate(st', f)
      BY <3>3, <3>4 DEF Candidate, Key
    <3>6. QED
      BY <3>2, <3>3, <3>5
  <2>5. QED
    BY <2>3, <2>4
<1>10. ASSUME Reload PROVE NoStrandedFile'
  BY <1>10 DEF Reload, NoStrandedFile, Candidate
<1>11. ASSUME (\E d \in Dirs : WatcherCalls(d)) \/ RunObserved PROVE NoStrandedFile'
  BY <1>2, <1>11 DEF WatcherCalls, RunObserved
<1>12. CASE UNCHANGED ingestVars
  <2>1. \A k \in Keys : \A m : Grown(st', k, m) => Grown(st, k, m)
    BY <1>12 DEF ingestVars
  <2>2. \A f \in Files : Waits(f) => Waits(f)'
    BY <1>12 DEF ingestVars, Waits, Scanning
  <2>3. st' = st /\ UNCHANGED <<disk, since, owned>>
    BY <1>12 DEF ingestVars
  <2>4. QED
    BY <2>1, <2>2, <2>3, NoneStranded
<1>13. QED
  BY <1>1, <1>3, <1>4, <1>5, <1>6, <1>7, <1>8, <1>9, <1>10, <1>11, <1>12 DEF IngestNext

-----------------------------------------------------------------------------
(* The theorems *)

LEMMA IngestSteps ==
    ASSUME IngestInv, [IngestNext]_ingestVars
    PROVE  IngestInv' /\ (UNCHANGED ingestVars \/ (FinalKept /\ InferredTaken))
<1>1. CASE UNCHANGED ingestVars
  <2>1. Work' = Work
    BY <1>1 DEF ingestVars, Work
  <2>2. RestOk'
    BY <1>1 DEF ingestVars, IngestInv, RestOk, DiskOk
  <2>3. ReplayFirst'
    BY <1>1 DEF ingestVars, IngestInv, ReplayFirst
  <2>4. QED
    BY <1>1, <2>1, <2>2, <2>3 DEF IngestInv
<1>2. CASE \E f \in Files : WriteMeta(f)
  BY <1>2, WriteMetaStep
<1>3. CASE \E d \in Dirs : WatcherCalls(d)
  BY <1>3, WatcherCallsStep
<1>4. CASE \E K \in (SUBSET Children) \cup {{Aggregate}} : AsyncComplete(K)
  BY <1>4, AsyncCompleteStep
<1>5. CASE RunObserved \/ ScanTimerFires \/ Settled
  BY <1>5, RunObservedStep, ScanTimerFiresStep, SettledStep
<1>6. CASE RunCompletion \/ RunScan \/ Reload
  BY <1>6, RunCompletionStep, RunScanStep, ReloadStep
<1>7. CASE \E k \in Keys : ToolEntry(k) \/ ReplayEntry(k)
  BY <1>7, ToolEntryStep, ReplayEntryStep
<1>8. QED
  BY <1>1, <1>2, <1>3, <1>4, <1>5, <1>6, <1>7 DEF IngestNext

(* The inductive invariant of the ingest: ledger, archive and ingest state say *)
(* the same of every key, the markers are those of what is counted, and nothing *)
(* is inferred while the log is replayed.                                        *)
THEOREM IngestInvariant == IngestSpec => []IngestInv
<1>1. IngestInit => IngestInv
  BY IngestInitInv
<1>2. IngestInv /\ [IngestNext]_ingestVars => IngestInv'
  BY IngestSteps
<1>3. QED
  BY <1>1, <1>2, PTL DEF IngestSpec

(* The variables keep their types, and what is complete is counted. *)
THEOREM IngestTypesCorrect == IngestSpec => []IngestTypeOK
<1>1. IngestInv => IngestTypeOK
  BY IngestInvGives
<1>2. QED
  BY <1>1, IngestInvariant, PTL

(* A completion stays, whatever comes after it, and what was inferred from a file *)
(* without an index is taken back when its identity is no longer unique           *)
(* (selectFreshSubagentRecords, revokeAmbiguousIndexlessMeta, finishRestore).      *)
THEOREM FinalStaysInferredGoes == IngestSpec => FinalOrRevoked
<1>1. IngestInv /\ [IngestNext]_ingestVars =>
        [\A k \in Keys : ledger[k].source = "completion" => ledger'[k].source = "completion"]_ingestVars
  BY IngestSteps DEF FinalKept
<1>2. IngestInv /\ [IngestNext]_ingestVars =>
        [/\ Len(queue') < Len(queue) /\ Head(queue).kind # "completion" /\ Ambiguous(Dirs) =>
             ledger'["0"].source # "bare"
         /\ reloads' # reloads => ledger'["0"].source # "bare"]_ingestVars
  BY IngestSteps DEF InferredTaken
<1>3. IngestSpec => CompletionIsFinal
  BY <1>1, IngestInvariant, PTL DEF IngestSpec, CompletionIsFinal
<1>4. IngestSpec => InferredIsRevoked
  BY <1>2, IngestInvariant, PTL DEF IngestSpec, InferredIsRevoked
<1>5. QED
  BY <1>3, <1>4 DEF FinalOrRevoked

(* Where the run writes one file for a child under its index, its usage is counted *)
(* by one way and none of its files is left unread: what is new has a scan ahead    *)
(* of it, or something was dropped and that noted.                                  *)
THEOREM UsageCountedByOneWay ==
    ASSUME OneFileEach
    PROVE  IngestSpec => []CountedByOneWay
<1>1. IngestInit => NoStrandedFile
  BY DEF IngestInit, NoStrandedFile, Candidate
<1>2. IngestInv /\ NoStrandedFile /\ [IngestNext]_ingestVars => NoStrandedFile'
  BY OneFileEach, NoneStrandedStep
<1>3. IngestSpec => []NoStrandedFile
  BY <1>1, <1>2, IngestInvariant, PTL DEF IngestSpec
<1>4. IngestInv /\ NoStrandedFile => CountedByOneWay
  BY IngestInvGives DEF CountedByOneWay
<1>5. QED
  BY <1>3, <1>4, IngestInvariant, PTL
===============================================================================
