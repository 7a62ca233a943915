------------------------------ MODULE UsageProofs ------------------------------
(***************************************************************************)
(* Proofs about the usage accounting.                                      *)
(*                                                                         *)
(* The ledger (UsageLedger) keeps its index, and shows what the            *)
(* observations amount to, for every pool of observations and every        *)
(* capacity.                                                               *)
(*                                                                         *)
(* The journal and the checkpoint (UsagePersist): what is durable can be   *)
(* read, what can be read stays readable, and what a load sees is whole,   *)
(* for any number of collectors, restarts, accepted batches, faults and    *)
(* crashes.  A row is known to a set that has it or a later revision of    *)
(* its execution.  The argument: while no live writer lost its lease, one  *)
(* collector at most writes, and one that may write knows every row that   *)
(* can be read, that waits in its chain or that its restore has still to   *)
(* look at; so its checkpoint replaces nothing that it does not hold.      *)
(***************************************************************************)
EXTENDS UsageLedger, UsagePersist, FiniteSetTheorems, WellFoundedInduction, TLAPS

-----------------------------------------------------------------------------
(* What observations are, and how they compete *)

LEMMA ObservationParts ==
    ASSUME NEW o \in Observations
    PROVE  /\ o.kind \in {"response", "snapshot", "lifecycle"}
           /\ o.phase \in {"running", "final"}
           /\ o.rev \in Nat /\ o.part \in Partitions
           /\ o.exec \in Executions /\ o.scope \in {"self", "subtree"}
           /\ GroupOf(o) \in GroupIds
  BY ObservationsAssumption DEF Observation, GroupOf, GroupIds

LEMMA RivalsSymmetric ==
    ASSUME NEW o \in Observations, NEW p \in Observations, Rivals(o, p)
    PROVE  Rivals(p, o)
  BY DEF Rivals, SameGroup, SameIdentity

LEMMA BeatsTransitive ==
    ASSUME NEW o \in Observations, NEW p \in Observations, NEW q \in Observations,
           Beats(q, p), Beats(p, o)
    PROVE  Beats(q, o)
  <1>1. Rivals(q, o)
    BY DEF Beats, Rivals, SameGroup, SameIdentity
  <1>2. q.rev > o.rev
    BY ObservationParts DEF Beats
  <1> QED BY <1>1, <1>2 DEF Beats

(* Only a final observation beats a final one. *)
LEMMA BeatsFinal ==
    ASSUME NEW o \in Observations, NEW p \in Observations,
           o.phase = "final", Beats(p, o)
    PROVE  p.phase = "final"
  <1>1. Rivals(o, p)
    BY RivalsSymmetric DEF Beats
  <1>2. ~(p.rev < o.rev)
    BY ObservationParts DEF Beats
  <1> QED BY <1>1, <1>2, PhaseAssumption, ObservationParts

(* In an indexed ledger no row is a newer account of another. *)
LEMMA IndexedUnbeaten ==
    ASSUME NEW L \in Ledgers, Indexed(L), NEW r \in L.records, NEW s \in L.records
    PROVE  ~Beats(s, r)
  <1>1. r \in Observations /\ s \in Observations
    BY DEF Ledgers
  <1>2. CASE s.kind = "snapshot"
    <2>1. ASSUME Rivals(s, r)
          PROVE  s.rev = r.rev
      <3>1. r.kind = "snapshot" /\ GroupOf(r) = GroupOf(s)
        BY <1>2, <2>1 DEF Rivals, SameGroup, GroupOf
      <3>2. r.rev = L.groups[GroupOf(r)].rev /\ s.rev = L.groups[GroupOf(s)].rev
        BY <1>2, <3>1 DEF Indexed, Group
      <3> QED BY <3>1, <3>2
    <2> QED BY <2>1, <1>1, ObservationParts DEF Beats
  <1>3. CASE s.kind # "snapshot"
    <2>1. Rivals(s, r) => s = r
      BY <1>3 DEF Rivals, Indexed
    <2> QED BY <2>1, <1>1, ObservationParts DEF Beats
  <1> QED BY <1>2, <1>3

-----------------------------------------------------------------------------
(* deleteRecord and records.set keep the index *)

LEMMA WithoutIndexed ==
    ASSUME NEW L \in Ledgers, Indexed(L), NEW gone \in SUBSET L.records
    PROVE  /\ Without(L, gone) \in Ledgers
           /\ Indexed(Without(L, gone))
           /\ Without(L, gone).records = L.records \ gone
           /\ \A g \in GroupIds :
                 /\ Without(L, gone).groups[g].keys \subseteq L.groups[g].keys
                 /\ \/ Without(L, gone).groups[g].keys = {}
                    \/ Without(L, gone).groups[g].rev = L.groups[g].rev
  <1> DEFINE W == Without(L, gone)
             Left(g) == {k \in L.groups[g].keys :
                           \A r \in gone : r.kind = "snapshot" /\ GroupOf(r) = g => r.part # k}
  <1>0. /\ L.records \in SUBSET Observations
        /\ \A g \in GroupIds : /\ L.groups[g].rev \in Nat
                               /\ L.groups[g].keys \in SUBSET Partitions
        /\ L.groups \in [GroupIds -> [rev : Nat, keys : SUBSET Partitions]]
    BY DEF Ledgers
  <1>1. W = [records |-> L.records \ gone,
             groups |-> [g \in GroupIds |-> IF Left(g) = {} THEN NoGroup
                                            ELSE [L.groups[g] EXCEPT !.keys = Left(g)]]]
    BY DEF Without
  <1> HIDE DEF W
  <1>2. W.records = L.records \ gone
    BY <1>1
  <1>3. \A g \in GroupIds :
           W.groups[g] = IF Left(g) = {} THEN NoGroup ELSE [L.groups[g] EXCEPT !.keys = Left(g)]
    BY <1>1
  <1>4. ASSUME NEW g \in GroupIds
        PROVE  /\ W.groups[g].keys = Left(g)
               /\ Left(g) = {} \/ W.groups[g].rev = L.groups[g].rev
               /\ W.groups[g] \in [rev : Nat, keys : SUBSET Partitions]
    <2>0. L.groups[g] \in [rev : Nat, keys : SUBSET Partitions] /\ Left(g) \subseteq Partitions
      BY <1>0
    <2>1. W.groups[g] = IF Left(g) = {} THEN NoGroup ELSE [L.groups[g] EXCEPT !.keys = Left(g)]
      BY <1>3
    <2> HIDE DEF Left
    <2>2. CASE Left(g) = {}
      BY <2>1, <2>2 DEF NoGroup
    <2>3. CASE Left(g) # {}
      BY <2>0, <2>1, <2>3
    <2> QED BY <2>2, <2>3
  <1>5. W \in Ledgers
    <2>1. W.groups \in [GroupIds -> [rev : Nat, keys : SUBSET Partitions]]
      <3> DEFINE Of(g) == IF Left(g) = {} THEN NoGroup ELSE [L.groups[g] EXCEPT !.keys = Left(g)]
      <3>1. W.groups = [g \in GroupIds |-> Of(g)]
        BY <1>1
      <3>2. \A g \in GroupIds : Of(g) \in [rev : Nat, keys : SUBSET Partitions]
        BY <1>3, <1>4
      <3> HIDE DEF Of
      <3> QED BY <3>1, <3>2
    <2>2. W.records \in SUBSET Observations
      BY <1>0, <1>2
    <2>3. W = [records |-> W.records, groups |-> W.groups]
      BY <1>1
    <2> QED BY <2>1, <2>2, <2>3 DEF Ledgers
  <1>6. \A r, s \in W.records : SameIdentity(r, s) => r = s
    BY <1>2 DEF Indexed
  <1>7. ASSUME NEW r \in W.records, r.kind = "snapshot"
        PROVE  r.part \in Group(W, r).keys /\ r.rev = Group(W, r).rev
    <2>1. r \in L.records /\ r \notin gone /\ r \in Observations
      BY <1>2, <1>0
    <2>2. r.part \in L.groups[GroupOf(r)].keys /\ r.rev = L.groups[GroupOf(r)].rev
      BY <1>7, <2>1 DEF Indexed, Group
    <2>3. r.part \in Left(GroupOf(r))
      <3> SUFFICES ASSUME NEW s \in gone, s.kind = "snapshot", GroupOf(s) = GroupOf(r),
                          s.part = r.part
                   PROVE  FALSE
        BY <2>2
      <3>1. SameIdentity(s, r)
        BY <1>7 DEF SameIdentity, GroupOf
      <3>2. s = r
        BY <3>1, <2>1 DEF Indexed
      <3> QED BY <3>2, <2>1
    <2>4. GroupOf(r) \in GroupIds
      BY <2>1, ObservationParts
    <2> QED BY <2>2, <2>3, <2>4, <1>4 DEF Group
  <1>8. ASSUME NEW g \in GroupIds, NEW k \in W.groups[g].keys
        PROVE  \E r \in W.records : r.kind = "snapshot" /\ GroupOf(r) = g /\ r.part = k
    <2>1. k \in Left(g)
      BY <1>4
    <2>2. PICK r \in L.records : r.kind = "snapshot" /\ GroupOf(r) = g /\ r.part = k
      BY <2>1 DEF Indexed
    <2>3. r \notin gone
      BY <2>1, <2>2
    <2> QED BY <2>2, <2>3, <1>2
  <1>9. Indexed(W)
    BY <1>6, <1>7, <1>8 DEF Indexed
  <1> QED BY <1>2, <1>4, <1>5, <1>9 DEF W

(* A row may be put into a ledger whose group for it is empty or of its revision. *)
LEMMA PutIndexed ==
    ASSUME NEW L \in Ledgers, Indexed(L), NEW o \in Observations,
           o.kind = "snapshot" => Group(L, o).keys = {} \/ Group(L, o).rev = o.rev
    PROVE  Put(L, o) \in Ledgers /\ Indexed(Put(L, o))
  <1> DEFINE P == Put(L, o)
  <1>0. /\ L.records \in SUBSET Observations
        /\ \A g \in GroupIds : /\ L.groups[g].rev \in Nat
                               /\ L.groups[g].keys \in SUBSET Partitions
        /\ L.groups \in [GroupIds -> [rev : Nat, keys : SUBSET Partitions]]
        /\ GroupOf(o) \in GroupIds /\ o.rev \in Nat /\ o.part \in Partitions
    BY ObservationParts DEF Ledgers
  <1>1. P.records = (L.records \ Existing(L, o)) \cup {o}
    BY DEF Put
  <1>2. P.groups = IF o.kind # "snapshot" THEN L.groups
                   ELSE [L.groups EXCEPT ![GroupOf(o)] =
                           [rev |-> IF @.keys = {} THEN o.rev ELSE @.rev,
                            keys |-> @.keys \cup {o.part}]]
    BY DEF Put
  <1>3. P \in Ledgers
    <2>1. P.groups \in [GroupIds -> [rev : Nat, keys : SUBSET Partitions]]
      BY <1>0, <1>2
    <2>2. P.records \in SUBSET Observations
      BY <1>0, <1>1
    <2>3. P = [records |-> P.records, groups |-> P.groups]
      BY DEF Put
    <2> QED BY <2>1, <2>2, <2>3 DEF Ledgers
  <1>4. ASSUME NEW g \in GroupIds, o.kind # "snapshot" \/ g # GroupOf(o)
        PROVE  P.groups[g] = L.groups[g]
    BY <1>0, <1>2, <1>4
  <1>5. ASSUME o.kind = "snapshot"
        PROVE  /\ P.groups[GroupOf(o)].rev = o.rev
               /\ P.groups[GroupOf(o)].keys = L.groups[GroupOf(o)].keys \cup {o.part}
    BY <1>0, <1>2, <1>5 DEF Group
  <1> HIDE DEF P
  <1>6. \A r, s \in P.records : SameIdentity(r, s) => r = s
    <2> SUFFICES ASSUME NEW r \in P.records, NEW s \in P.records, SameIdentity(r, s)
                 PROVE  r = s
      OBVIOUS
    <2>1. SameIdentity(s, r)
      BY DEF SameIdentity
    <2>2. CASE r \in L.records /\ s \in L.records
      BY <2>2 DEF Indexed
    <2>3. CASE r = o /\ s # o
      BY <2>1, <2>3, <1>1 DEF Existing
    <2>4. CASE s = o /\ r # o
      BY <2>4, <1>1 DEF Existing
    <2> QED BY <2>2, <2>3, <2>4, <1>1
  <1>7. ASSUME NEW r \in P.records, r.kind = "snapshot"
        PROVE  r.part \in Group(P, r).keys /\ r.rev = Group(P, r).rev
    <2>1. CASE r = o
      BY <2>1, <1>5, <1>7 DEF Group
    <2>2. CASE r # o
      <3>1. r \in L.records /\ GroupOf(r) \in GroupIds
        BY <2>2, <1>1, <1>0, ObservationParts
      <3>2. r.part \in L.groups[GroupOf(r)].keys /\ r.rev = L.groups[GroupOf(r)].rev
        BY <3>1, <1>7 DEF Indexed, Group
      <3>3. CASE o.kind # "snapshot" \/ GroupOf(r) # GroupOf(o)
        BY <3>1, <3>2, <3>3, <1>4 DEF Group
      <3>4. CASE o.kind = "snapshot" /\ GroupOf(r) = GroupOf(o)
        BY <3>2, <3>4, <1>5 DEF Group
      <3> QED BY <3>3, <3>4
    <2> QED BY <2>1, <2>2
  <1>8. ASSUME NEW g \in GroupIds, NEW k \in P.groups[g].keys
        PROVE  \E r \in P.records : r.kind = "snapshot" /\ GroupOf(r) = g /\ r.part = k
    <2>1. o \in P.records
      BY <1>1
    <2>2. CASE o.kind = "snapshot" /\ g = GroupOf(o) /\ k = o.part
      BY <2>1, <2>2
    <2>3. CASE ~(o.kind = "snapshot" /\ g = GroupOf(o) /\ k = o.part)
      <3>1. k \in L.groups[g].keys
        BY <2>3, <1>4, <1>5
      <3>2. PICK r \in L.records : r.kind = "snapshot" /\ GroupOf(r) = g /\ r.part = k
        BY <3>1 DEF Indexed
      <3>3. ~SameIdentity(r, o)
        BY <2>3, <3>2 DEF SameIdentity, GroupOf
      <3> QED BY <3>2, <3>3, <1>1 DEF Existing
    <2> QED BY <2>2, <2>3
  <1>9. Indexed(P)
    BY <1>6, <1>7, <1>8 DEF Indexed
  <1> QED BY <1>3, <1>9 DEF P

-----------------------------------------------------------------------------
(* One observation *)

(* What ingest() does with an observation it accepts: the index stays right, the *)
(* observation is in, and a final row is still there or beaten by it.            *)
LEMMA IngestedKeeps ==
    ASSUME NEW L \in Ledgers, Indexed(L), NEW o \in Observations,
           ~Stale(L, o), ~Known(L, o), NEW evicted \in Evictions(L, o)
    PROVE  LET N == Ingested(L, o, evicted)
           IN /\ N \in Ledgers /\ Indexed(N)
              /\ o \in N.records /\ N.records \subseteq L.records \cup {o}
              /\ \A r \in Final(L.records) : r \in N.records \/ Beats(o, r)
  <1> DEFINE made == Without(L, evicted)
             old == {r \in made.records : SameGroup(r, o)}
             free == IF Replaces(L, o) THEN Without(made, old) ELSE made
             staying == Put(free, o)
             N == Without(staying, Settled(staying, o))
  <1>0. L.records \subseteq Observations
    BY DEF Ledgers
  <1>1. /\ evicted \in SUBSET L.records
        /\ \A r \in evicted : r.phase = "running"
    BY DEF Evictions, Evictable
  <1>2. /\ made \in Ledgers /\ Indexed(made) /\ made.records = L.records \ evicted
        /\ \A g \in GroupIds :
              /\ made.groups[g].keys \subseteq L.groups[g].keys
              /\ made.groups[g].keys = {} \/ made.groups[g].rev = L.groups[g].rev
    BY <1>1, WithoutIndexed
  <1> HIDE DEF made
  <1>3. /\ free \in Ledgers /\ Indexed(free)
        /\ free.records = IF Replaces(L, o) THEN made.records \ old ELSE made.records
    BY <1>2, WithoutIndexed
  <1>4. o.kind = "snapshot" => Group(free, o).keys = {} \/ Group(free, o).rev = o.rev
    <2> SUFFICES ASSUME o.kind = "snapshot" PROVE Group(free, o).keys = {} \/ Group(free, o).rev = o.rev
      OBVIOUS
    <2>0. GroupOf(o) \in GroupIds /\ o.rev \in Nat
      BY ObservationParts
    <2>1. CASE Replaces(L, o)
      <3> SUFFICES ASSUME NEW k \in Group(free, o).keys PROVE FALSE
        OBVIOUS
      <3>1. PICK r \in free.records : r.kind = "snapshot" /\ GroupOf(r) = GroupOf(o) /\ r.part = k
        BY <2>0, <1>3 DEF Indexed, Group
      <3>2. SameGroup(r, o)
        BY <3>1 DEF SameGroup, GroupOf
      <3> QED BY <3>1, <3>2, <2>1, <1>3
    <2>2. CASE ~Replaces(L, o)
      <3>1. L.groups[GroupOf(o)].rev \in Nat
        BY <2>0 DEF Ledgers
      <3>2. Group(L, o).keys = {} \/ Group(L, o).rev = o.rev
        BY <2>0, <2>2, <3>1 DEF Replaces, Stale, InGroup, Group
      <3>3. free = made
        BY <2>2
      <3> QED BY <3>2, <3>3, <2>0, <1>2 DEF Group
    <2> QED BY <2>1, <2>2
  <1>5. ~Replaces(L, o) \/ \A r \in old : Beats(o, r)
    <2> SUFFICES ASSUME Replaces(L, o), NEW r \in old PROVE Beats(o, r)
      OBVIOUS
    <2>1. r \in L.records /\ SameGroup(r, o) /\ r.kind = "snapshot" /\ GroupOf(r) = GroupOf(o)
      BY <1>2 DEF SameGroup, GroupOf
    <2>2. r.rev = L.groups[GroupOf(o)].rev
      BY <2>1 DEF Indexed, Group
    <2>3. Rivals(o, r)
      BY <2>1 DEF Rivals, SameGroup
    <2> QED BY <2>2, <2>3 DEF Replaces, Group, Beats
  <1> HIDE DEF free, old
  <1>6. staying \in Ledgers /\ Indexed(staying) /\ staying.records = (free.records \ Existing(free, o)) \cup {o}
    BY <1>3, <1>4, PutIndexed DEF Put
  <1>7. Settled(staying, o) \in SUBSET staying.records /\ \A r \in Settled(staying, o) : r.phase = "running"
    BY DEF Settled
  <1>8. o \notin Settled(staying, o)
    BY DEF Settled
  <1> HIDE DEF staying
  <1>9. N \in Ledgers /\ Indexed(N) /\ N.records = staying.records \ Settled(staying, o)
    BY <1>6, <1>7, WithoutIndexed
  <1> HIDE DEF N
  <1>10. o \in N.records /\ N.records \subseteq L.records \cup {o}
    BY <1>2, <1>3, <1>6, <1>8, <1>9
  <1>11. ASSUME NEW r \in Final(L.records), r \notin N.records
         PROVE  Beats(o, r)
    <2>1. r \in L.records /\ r.phase = "final" /\ r \in Observations
      BY <1>0 DEF Final
    <2>2. r \in made.records
      BY <2>1, <1>1, <1>2
    <2>3. r \notin staying.records
      BY <1>11, <2>1, <1>7, <1>9
    <2>4. CASE r \notin free.records
      BY <2>2, <2>4, <1>3, <1>5
    <2>5. CASE r \in free.records
      <3>1. SameIdentity(r, o)
        BY <2>3, <2>5, <1>6 DEF Existing
      <3>2. r \in Existing(L, o)
        BY <2>1, <3>1 DEF Existing
      <3>3. o.rev > r.rev
        BY <3>2, <2>1, ObservationParts DEF Stale, Known
      <3>4. Rivals(o, r)
        BY <3>1 DEF SameIdentity, Rivals, SameGroup
      <3> QED BY <3>3, <3>4 DEF Beats
    <2> QED BY <2>4, <2>5
  <1>12. N = Ingested(L, o, evicted)
    BY DEF N, staying, free, old, made, Ingested
  <1> QED BY <1>9, <1>10, <1>11, <1>12

(* What it leaves aside, it holds already, or a newer account of the same. *)
LEMMA StaleIsBeaten ==
    ASSUME NEW L \in Ledgers, Indexed(L), NEW o \in Observations, Stale(L, o)
    PROVE  \E r \in L.records : Beats(r, o)
  <1>0. GroupOf(o) \in GroupIds
    BY ObservationParts
  <1>1. CASE InGroup(L, o) /\ o.rev < Group(L, o).rev
    <2>1. PICK k : k \in Group(L, o).keys
      BY <1>1 DEF InGroup
    <2>2. PICK r \in L.records : r.kind = "snapshot" /\ GroupOf(r) = GroupOf(o)
      BY <1>0, <2>1 DEF Indexed, Group
    <2>3. r.rev = Group(L, o).rev
      BY <2>2 DEF Indexed, Group
    <2>4. Rivals(r, o)
      BY <1>1, <2>2 DEF InGroup, Rivals, SameGroup, GroupOf
    <2>5. r.rev \in Nat /\ o.rev \in Nat
      BY ObservationParts DEF Ledgers
    <2> QED BY <1>1, <2>3, <2>4, <2>5 DEF Beats
  <1>2. CASE \E r \in Existing(L, o) : o.rev < r.rev
    <2>1. PICK r \in L.records : SameIdentity(r, o) /\ o.rev < r.rev
      BY <1>2 DEF Existing
    <2>2. Rivals(r, o)
      BY <2>1 DEF SameIdentity, Rivals, SameGroup
    <2>3. r.rev \in Nat /\ o.rev \in Nat
      BY ObservationParts DEF Ledgers
    <2> QED BY <2>1, <2>2, <2>3 DEF Beats
  <1> QED BY <1>1, <1>2 DEF Stale

LEMMA KnownIsHeld ==
    ASSUME NEW L \in Ledgers, NEW o \in Observations, Known(L, o)
    PROVE  o \in L.records
  BY RevisionAssumption DEF Known, Existing, Ledgers

-----------------------------------------------------------------------------
(* The inductive invariant: while no loss is marked, the rows account for every  *)
(* final observation delivered; a trial accounts, besides, for what it has done. *)

TrialSound ==
    /\ trial.ledger.records \subseteq ledger.records \cup trial.done
    /\ Improves(Final(ledger.records \cup trial.done), trial.ledger.records)
    /\ ~trial.changed => trial.ledger = ledger

IInv ==
    /\ TypeOK
    /\ IndexMatches
    /\ ledger.records \subseteq offered
    /\ ~uncounted => Improves(Final(offered), ledger.records)
    /\ trial.on => TrialSound

(* Whoever accounts for the rows accounts for what the rows account for. *)
LEMMA ImprovesChain ==
    ASSUME NEW S \in SUBSET Observations, NEW T \in SUBSET Observations,
           NEW U \in SUBSET Observations,
           Improves(Final(S), T), Improves(Final(T), U)
    PROVE  Improves(Final(S), U)
  <1> SUFFICES ASSUME NEW o \in Final(S), o \notin U
               PROVE  \E q \in U : Beats(q, o)
    BY DEF Improves
  <1>1. o \in Observations /\ o.phase = "final"
    BY DEF Final
  <1>2. CASE o \in T
    BY <1>1, <1>2 DEF Improves, Final
  <1>3. CASE o \notin T
    <2>1. PICK p \in T : Beats(p, o)
      BY <1>3 DEF Improves
    <2>2. p.phase = "final" /\ p \in Observations
      BY <2>1, <1>1, BeatsFinal
    <2>3. p \in U \/ \E q \in U : Beats(q, p)
      BY <2>2 DEF Improves, Final
    <2> QED BY <2>1, <2>2, <2>3, <1>1, BeatsTransitive
  <1> QED BY <1>2, <1>3

LEMMA IngestedImproves ==
    ASSUME NEW L \in Ledgers, Indexed(L), NEW o \in Observations,
           ~Stale(L, o), ~Known(L, o), NEW evicted \in Evictions(L, o),
           NEW H \in SUBSET Observations, Improves(Final(H), L.records)
    PROVE  Improves(Final(H \cup {o}), Ingested(L, o, evicted).records)
  <1> DEFINE N == Ingested(L, o, evicted)
  <1>1. /\ N \in Ledgers /\ o \in N.records
        /\ \A r \in Final(L.records) : r \in N.records \/ Beats(o, r)
    BY IngestedKeeps
  <1> HIDE DEF N
  <1>2. L.records \in SUBSET Observations /\ N.records \in SUBSET Observations
    BY <1>1 DEF Ledgers
  <1>3. Improves(Final(L.records), N.records)
    BY <1>1 DEF Improves
  <1>4. Improves(Final(H), N.records)
    BY <1>2, <1>3, ImprovesChain
  <1> QED BY <1>1, <1>4 DEF Improves, Final, N

(* What has been shown is withdrawn only for a newer account. *)
LEMMA FinalImproves ==
    ASSUME NEW S \in SUBSET Observations, NEW T \in SUBSET Observations,
           Improves(Final(S), T)
    PROVE  Improves(Final(S), Final(T))
  BY BeatsFinal DEF Improves, Final

LEMMA InitIInv == Init => IInv
  <1> SUFFICES ASSUME Init PROVE IInv
    OBVIOUS
  <1>1. Empty \in Ledgers /\ Indexed(Empty)
    BY DEF Empty, Ledgers, NoGroup, Indexed
  <1> QED BY <1>1 DEF Init, IInv, TypeOK, IndexMatches, Idle, NoCache, Improves, Final, Empty

-----------------------------------------------------------------------------
(* The steps, one lemma each *)

CacheType == [filled : BOOLEAN, rows : SUBSET Observations, unsure : BOOLEAN]

LEMMA NoCacheTyped == NoCache \in CacheType
  BY DEF NoCache, CacheType

LEMMA LostTyped == ASSUME TypeOK, Lost PROVE uncounted' = TRUE /\ cache' \in CacheType
  BY NoCacheTyped DEF Lost, TypeOK, CacheType

LEMMA TurnDownStep == ASSUME IInv, NEW B \in Batches, TurnDown(B) PROVE IInv'
  <1>1. B \subseteq Observations
    BY BatchesAssumption
  <1>2. uncounted' = TRUE /\ cache' \in CacheType
    BY LostTyped DEF TurnDown, IInv
  <1>3. TrialSound => TrialSound'
    BY DEF TurnDown, TrialSound
  <1> QED BY <1>1, <1>2, <1>3 DEF TurnDown, IInv, TypeOK, IndexMatches, CacheType

LEMMA BeginStep == ASSUME IInv, NEW B \in Batches, Begin(B) PROVE IInv'
  <1>1. B \subseteq Observations
    BY BatchesAssumption
  <1>2. TrialSound'
    BY DEF Begin, TrialSound, Improves, Final
  <1> QED BY <1>1, <1>2 DEF Begin, IInv, TypeOK, IndexMatches

LEMMA TryKnownStep == ASSUME IInv, NEW o \in Observations, TryKnown(o) PROVE IInv'
  <1>1. trial.ledger \in Ledgers /\ o \in trial.ledger.records
    BY KnownIsHeld DEF IInv, TypeOK, TryKnown
  <1>2. trial' = [trial EXCEPT !.todo = @ \ {o}, !.done = @ \cup {o}]
    BY DEF TryKnown, TakesOver, IInv, TypeOK
  <1>3. TrialSound'
    BY <1>1, <1>2 DEF TryKnown, IInv, TypeOK, TrialSound, Improves, Final
  <1> QED BY <1>2, <1>3 DEF TryKnown, IInv, TypeOK, IndexMatches

LEMMA TryIngestStep == ASSUME IInv, NEW o \in Observations, TryIngest(o) PROVE IInv'
  <1> DEFINE L == trial.ledger
  <1>1. L \in Ledgers /\ Indexed(L) /\ TrialSound /\ trial.done \in SUBSET Observations
        /\ ledger.records \in SUBSET Observations
    BY DEF IInv, TypeOK, IndexMatches, TryIngest, Ledgers
  <1>2. PICK evicted \in Evictions(L, o) : TakesOver(o, Ingested(L, o, evicted), TRUE)
    BY DEF TryIngest
  <1> DEFINE N == Ingested(L, o, evicted)
  <1>3. N \in Ledgers /\ Indexed(N) /\ N.records \subseteq L.records \cup {o}
    BY <1>1, <1>2, IngestedKeeps DEF TryIngest
  <1>4. Improves(Final((ledger.records \cup trial.done) \cup {o}), N.records)
    BY <1>1, <1>2, IngestedImproves DEF TryIngest, TrialSound
  <1>5. trial' = [trial EXCEPT !.ledger = N, !.todo = @ \ {o}, !.done = @ \cup {o},
                               !.changed = TRUE]
    BY <1>2 DEF TakesOver
  <1> HIDE DEF N
  <1>6. /\ trial'.on /\ trial'.ledger = N /\ trial'.done = trial.done \cup {o}
        /\ trial'.changed = TRUE /\ trial'.todo = trial.todo \ {o}
        /\ trial' \in [on : BOOLEAN, ledger : Ledgers, todo : SUBSET Observations,
                       done : SUBSET Observations, changed : BOOLEAN]
    BY <1>3, <1>5 DEF IInv, TypeOK, TryIngest
  <1>7. TrialSound'
    <2>1. N.records \subseteq ledger.records \cup (trial.done \cup {o})
      BY <1>1, <1>3 DEF TrialSound
    <2>2. (ledger.records \cup trial.done) \cup {o} = ledger.records \cup (trial.done \cup {o})
      OBVIOUS
    <2>3. ledger' = ledger
      BY DEF TryIngest
    <2> QED BY <2>1, <2>2, <2>3, <1>4, <1>6 DEF TrialSound
  <1> QED BY <1>3, <1>6, <1>7 DEF TryIngest, IInv, TypeOK, IndexMatches

LEMMA IdleSound == Idle.ledger \in Ledgers /\ Indexed(Idle.ledger)
                   /\ Idle \in [on : BOOLEAN, ledger : Ledgers, todo : SUBSET Observations,
                                done : SUBSET Observations, changed : BOOLEAN]
                   /\ ~Idle.on
  BY DEF Idle, Empty, Ledgers, NoGroup, Indexed

LEMMA RefuseStep == ASSUME IInv, NEW o \in Observations, Refuse(o) PROVE IInv'
  <1>1. uncounted' = TRUE /\ cache' \in CacheType
    BY LostTyped DEF Refuse, IInv
  <1>2. offered' \subseteq Observations /\ ledger.records \subseteq offered'
    BY DEF Refuse, IInv, TypeOK
  <1> QED BY <1>1, <1>2, IdleSound DEF Refuse, IInv, TypeOK, IndexMatches, CacheType

LEMMA CommitStep == ASSUME IInv, Commit PROVE IInv'
  <1>1. ledger' = trial.ledger
    BY DEF Commit, IInv, TrialSound
  <1>2. /\ TrialSound /\ trial.ledger \in Ledgers /\ trial.done \in SUBSET Observations
        /\ ledger.records \in SUBSET Observations /\ trial.ledger.records \in SUBSET Observations
        /\ offered \in SUBSET Observations
    BY DEF Commit, IInv, TypeOK, Ledgers
  <1>3. ledger'.records \subseteq offered'
    BY <1>1, <1>2 DEF Commit, TrialSound, IInv
  <1>4. ASSUME ~uncounted PROVE Improves(Final(offered'), ledger'.records)
    <2>1. Improves(Final(offered), ledger.records)
      BY <1>4 DEF IInv
    <2>2. Improves(Final(ledger.records), trial.ledger.records)
      BY <1>2 DEF TrialSound, Improves, Final
    <2>3. Improves(Final(offered), trial.ledger.records)
      BY <2>1, <2>2, <1>2, ImprovesChain
    <2>4. Improves(Final(trial.done), trial.ledger.records)
      BY <1>2 DEF TrialSound, Improves, Final
    <2> QED BY <2>3, <2>4, <1>1 DEF Commit, Improves, Final
  <1> QED BY <1>1, <1>2, <1>3, <1>4, IdleSound DEF Commit, IInv, TypeOK, IndexMatches, NoCache

LEMMA RestoreStep == ASSUME IInv, NEW o \in Observations, Restore(o) PROVE IInv'
  <1>0. /\ ledger \in Ledgers /\ Indexed(ledger) /\ ledger.records \in SUBSET Observations
        /\ offered \in SUBSET Observations
    BY DEF IInv, TypeOK, IndexMatches, Ledgers
  <1>1. CASE Stale(ledger, o) \/ Known(ledger, o)
    <2>1. o \in ledger.records \/ \E r \in ledger.records : Beats(r, o)
      BY <1>0, <1>1, StaleIsBeaten, KnownIsHeld
    <2> QED BY <1>1, <2>1 DEF Restore, IInv, TypeOK, IndexMatches, Improves, Final
  <1>2. CASE Lost /\ UNCHANGED ledger
    <2>1. uncounted' = TRUE /\ cache' \in CacheType
      BY <1>2, LostTyped DEF IInv
    <2> QED BY <1>2, <2>1 DEF Restore, IInv, TypeOK, IndexMatches, CacheType
  <1>3. ASSUME ~Stale(ledger, o), ~Known(ledger, o),
               NEW evicted \in Evictions(ledger, o),
               ledger' = Ingested(ledger, o, evicted), cache' = NoCache, UNCHANGED uncounted
        PROVE  IInv'
    <2>1. /\ ledger' \in Ledgers /\ Indexed(ledger')
          /\ ledger'.records \subseteq ledger.records \cup {o}
      BY <1>0, <1>3, IngestedKeeps
    <2>2. ~uncounted => Improves(Final(offered \cup {o}), ledger'.records)
      BY <1>0, <1>3, IngestedImproves DEF IInv
    <2>3. offered' = offered \cup {o} /\ UNCHANGED trial /\ ~trial.on
      BY DEF Restore
    <2>4. cache' \in CacheType
      BY <1>3, NoCacheTyped
    <2> QED BY <1>0, <1>3, <2>1, <2>2, <2>3, <2>4 DEF IInv, TypeOK, IndexMatches, CacheType
  <1>4. \/ Stale(ledger, o) \/ Known(ledger, o)
        \/ (Lost /\ UNCHANGED ledger)
        \/ /\ ~Stale(ledger, o) /\ ~Known(ledger, o)
           /\ \E evicted \in Evictions(ledger, o) : ledger' = Ingested(ledger, o, evicted)
           /\ cache' = NoCache /\ UNCHANGED uncounted
    BY DEF Restore
  <1> QED BY <1>1, <1>2, <1>3, <1>4

LEMMA DropProgressStep == ASSUME IInv, NEW e \in Progress, DropProgress(e) PROVE IInv'
  <1> DEFINE gone == {r \in ledger.records : r.exec = e}
  <1>0. /\ ledger \in Ledgers /\ Indexed(ledger) /\ ledger.records \in SUBSET Observations
        /\ gone \in SUBSET ledger.records /\ ~trial.on
    BY DEF IInv, TypeOK, IndexMatches, Ledgers, DropProgress
  <1>1. ledger' = Without(ledger, gone) /\ cache' = NoCache
    BY DEF DropProgress
  <1>2. \A r \in gone : r.phase = "running"
    BY <1>0, ProgressAssumption
  <1> HIDE DEF gone
  <1>3. ledger' \in Ledgers /\ Indexed(ledger') /\ ledger'.records = ledger.records \ gone
    BY <1>0, <1>1, WithoutIndexed
  <1>4. ~uncounted => Improves(Final(offered), ledger'.records)
    <2> SUFFICES ASSUME ~uncounted, NEW o \in Final(offered), o \notin ledger'.records
                 PROVE  \E p \in ledger'.records : Beats(p, o)
      BY DEF Improves
    <2>1. o \in Observations /\ o.phase = "final"
      BY DEF Final, IInv, TypeOK
    <2>2. o \notin ledger.records
      BY <2>1, <1>2, <1>3
    <2>3. PICK p \in ledger.records : Beats(p, o)
      BY <2>2 DEF IInv, Improves
    <2>4. p.phase = "final"
      BY <2>1, <2>3, <1>0, BeatsFinal
    <2> QED BY <2>3, <2>4, <1>2, <1>3
  <1> QED BY <1>0, <1>1, <1>3, <1>4, NoCacheTyped
      DEF DropProgress, IInv, TypeOK, IndexMatches, CacheType

LEMMA NoteGapStep == ASSUME IInv, NoteGap PROVE IInv'
  <1>1. uncounted' = TRUE /\ cache' \in CacheType
    BY LostTyped DEF NoteGap, IInv
  <1> QED BY <1>1 DEF NoteGap, IInv, TypeOK, IndexMatches, CacheType

LEMMA ReadStep == ASSUME IInv, Read PROVE IInv'
  <1>1. Finalized(ledger.records) \subseteq Observations
    BY DEF IInv, TypeOK, Ledgers, Finalized, Final
  <1> QED BY <1>1 DEF Read, IInv, TypeOK, IndexMatches

LEMMA StutterStep == ASSUME IInv, UNCHANGED vars PROVE IInv'
  BY DEF vars, IInv, TypeOK, IndexMatches, TrialSound

LEMMA NextIInv == IInv /\ [Next]_vars => IInv'
  BY TurnDownStep, BeginStep, TryKnownStep, TryIngestStep, RefuseStep, CommitStep,
     RestoreStep, DropProgressStep, NoteGapStep, ReadStep, StutterStep
     DEF Next, Deliver, Try

LEMMA Inductive == Spec => []IInv
  BY InitIInv, NextIInv, PTL DEF Spec

(* The ledger, the trial and the cache have their types throughout.              *)
THEOREM TypeCorrect == Spec => []TypeOK
  <1>1. IInv => TypeOK
    BY DEF IInv
  <1> QED BY <1>1, Inductive, PTL

(* The index of the groups names exactly the rows in the map.                    *)
THEOREM IndexAlwaysMatches == Spec => []IndexMatches
  <1>1. IInv => IndexMatches
    BY DEF IInv
  <1> QED BY <1>1, Inductive, PTL

-----------------------------------------------------------------------------
(* Every step of the ledger is a step of UsageTotals *)

(* Rows that account for everything delivered are what it amounts to.            *)
LEMMA RowsAreTheProjection ==
    ASSUME NEW L \in Ledgers, Indexed(L), NEW H \in SUBSET Observations,
           L.records \subseteq H, Improves(Final(H), L.records)
    PROVE  Final(L.records) = Projection(H)
  <1>1. ASSUME NEW o \in Final(L.records)
        PROVE  o \in Projection(H)
    <2>1. o \in L.records /\ o.phase = "final" /\ o \in H
      BY DEF Final
    <2> SUFFICES ASSUME NEW p \in H, Beats(p, o)
                 PROVE  FALSE
      BY <2>1 DEF Projection, Latest, Final
    <2>2. p \in Final(H)
      BY <2>1, BeatsFinal DEF Final
    <2>3. CASE p \in L.records
      BY <2>1, <2>3, IndexedUnbeaten
    <2>4. CASE p \notin L.records
      <3>1. PICK q \in L.records : Beats(q, p)
        BY <2>2, <2>4 DEF Improves
      <3>2. Beats(q, o)
        BY <2>1, <3>1, BeatsTransitive
      <3> QED BY <2>1, <3>2, IndexedUnbeaten
    <2> QED BY <2>3, <2>4
  <1>2. ASSUME NEW o \in Projection(H)
        PROVE  o \in Final(L.records)
    BY DEF Projection, Latest, Final, Improves
  <1> QED BY <1>1, <1>2

LEMMA TotalsInit == Init => Totals!Init
  BY DEF Init, Totals!Init, Empty, Final

LEMMA ShownImproves == IInv /\ IInv' /\ [Next]_vars =>
                       Improves(Final(ledger.records), Final(ledger'.records))
  <1> SUFFICES ASSUME IInv, IInv', [Next]_vars
               PROVE  Improves(Final(ledger.records), Final(ledger'.records))
    OBVIOUS
  <1>0. /\ ledger.records \in SUBSET Observations /\ ledger'.records \in SUBSET Observations
        /\ ledger \in Ledgers /\ Indexed(ledger)
    BY DEF IInv, TypeOK, IndexMatches, Ledgers
  <1> SUFFICES Improves(Final(ledger.records), ledger'.records)
    BY <1>0, FinalImproves
  <1>1. CASE UNCHANGED ledger
    BY <1>1 DEF Improves, Final
  <1>2. CASE Commit
    <2>1. ledger' = trial.ledger /\ TrialSound
      BY <1>2 DEF Commit, IInv, TrialSound
    <2> QED BY <2>1 DEF TrialSound, Improves, Final
  <1>3. ASSUME NEW o \in Observations, Restore(o)
        PROVE  Improves(Final(ledger.records), ledger'.records)
    <2>1. CASE ~Stale(ledger, o) /\ ~Known(ledger, o)
               /\ \E evicted \in Evictions(ledger, o) : ledger' = Ingested(ledger, o, evicted)
      <3>1. PICK evicted \in Evictions(ledger, o) : ledger' = Ingested(ledger, o, evicted)
        BY <2>1
      <3>2. Improves(Final(ledger.records), ledger.records)
        BY DEF Improves, Final
      <3>3. Improves(Final(ledger.records \cup {o}), ledger'.records)
        BY <1>0, <2>1, <3>1, <3>2, IngestedImproves
      <3> QED BY <3>3 DEF Improves, Final
    <2>2. CASE UNCHANGED ledger
      BY <1>1, <2>2
    <2> QED BY <1>3, <2>1, <2>2 DEF Restore
  <1>4. ASSUME NEW e \in Progress, DropProgress(e)
        PROVE  Improves(Final(ledger.records), ledger'.records)
    <2>1. ledger' = Without(ledger, {r \in ledger.records : r.exec = e})
      BY <1>4 DEF DropProgress
    <2>2. ledger'.records = ledger.records \ {r \in ledger.records : r.exec = e}
      BY <2>1, <1>0, WithoutIndexed
    <2>3. \A r \in ledger.records : r.exec = e => r.phase = "running"
      BY <1>0, ProgressAssumption
    <2> QED BY <2>2, <2>3 DEF Improves, Final
  <1>5. UNCHANGED ledger \/ Commit \/ (\E o \in Observations : Restore(o))
        \/ (\E e \in Progress : DropProgress(e))
    BY DEF Next, Deliver, Try, TurnDown, Begin, TryKnown, TryIngest, Refuse, NoteGap, Read, vars
  <1> QED BY <1>1, <1>2, <1>3, <1>4, <1>5

LEMMA OfferedGrows == [Next]_vars => offered \subseteq offered' /\ (uncounted => uncounted')
  <1> SUFFICES ASSUME [Next]_vars PROVE offered \subseteq offered' /\ (uncounted => uncounted')
    OBVIOUS
  <1>1. offered \subseteq offered'
    BY DEF Next, Deliver, Try, TurnDown, Begin, TryKnown, TryIngest, Refuse, Commit, Restore,
           DropProgress, NoteGap, Read, vars
  <1>2. uncounted' = TRUE \/ uncounted' = uncounted
    BY DEF Next, Deliver, Try, TurnDown, Begin, TryKnown, TryIngest, Refuse, Commit, Restore,
           DropProgress, NoteGap, Read, Lost, vars
  <1>3. CASE uncounted' = TRUE
    BY <1>1, <1>3
  <1>4. CASE uncounted' = uncounted
    BY <1>1, <1>4
  <1> QED BY <1>2, <1>3, <1>4

(* UsageTotals and UsageLedger speak of the same relations.                      *)
LEMMA SameRelations ==
    ASSUME NEW S, NEW T
    PROVE  /\ Totals!Improves(S, T) <=> Improves(S, T)
           /\ Totals!Projection(S) = Projection(S)
  <1>1. \A o, p : Totals!Beats(p, o) <=> Beats(p, o)
    BY DEF Totals!Beats, Totals!Rivals, Totals!SameGroup, Totals!SameIdentity,
           Beats, Rivals, SameGroup, SameIdentity
  <1>2. Totals!Improves(S, T) <=> Improves(S, T)
    BY <1>1 DEF Totals!Improves, Improves
  <1>3. Totals!Projection(S) = Projection(S)
    BY <1>1 DEF Totals!Projection, Totals!Final, Totals!Latest, Projection, Final, Latest
  <1> QED BY <1>2, <1>3

LEMMA TotalsStep == IInv /\ IInv' /\ [Next]_vars => Totals!Next
  <1> SUFFICES ASSUME IInv, IInv', [Next]_vars PROVE Totals!Next
    OBVIOUS
  <1>1. offered \subseteq offered' /\ offered' \subseteq Observations
    BY OfferedGrows DEF IInv, TypeOK
  <1>2. Final(ledger'.records) \subseteq offered'
    BY DEF IInv, Final
  <1>3. Improves(Final(ledger.records), Final(ledger'.records))
    BY ShownImproves
  <1>4. uncounted' \in BOOLEAN /\ (uncounted => uncounted')
    BY OfferedGrows DEF IInv, TypeOK
  <1>5. ~uncounted' => Final(ledger'.records) = Projection(offered')
    BY <1>1, RowsAreTheProjection DEF IInv, TypeOK, IndexMatches
  <1>6. /\ Totals!Improves(Final(ledger.records), Final(ledger'.records))
        /\ ~uncounted' => Final(ledger'.records) = Totals!Projection(offered')
    BY <1>3, <1>5, SameRelations
  <1> QED BY <1>1, <1>2, <1>4, <1>6 DEF Totals!Next

(* The ledger implements UsageTotals: while no loss is marked, the totals are    *)
(* those of the set of all observations delivered, whatever their order.         *)
THEOREM LedgerImplementsTotals == Spec => ImplementsTotals
  BY TotalsInit, TotalsStep, Inductive, PTL DEF Spec, ImplementsTotals, Totals!Spec

-----------------------------------------------------------------------------
(* The cached totals, and the memory budget *)

LEMMA CacheStep == CacheIsCurrent /\ IInv /\ [Next]_vars => CacheIsCurrent'
  <1> SUFFICES ASSUME CacheIsCurrent, IInv, [Next]_vars PROVE CacheIsCurrent'
    OBVIOUS
  <1>0. ~NoCache.filled
    BY DEF NoCache
  <1>1. CASE cache' = NoCache
    BY <1>0, <1>1 DEF CacheIsCurrent
  <1>2. CASE UNCHANGED <<cache, ledger, uncounted>>
    BY <1>2 DEF CacheIsCurrent
  <1>3. CASE Lost /\ UNCHANGED ledger
    <2>1. cache' = NoCache \/ UNCHANGED <<cache, ledger, uncounted>>
      BY <1>3 DEF Lost, IInv, TypeOK
    <2> QED BY <2>1, <1>1, <1>2
  <1>4. CASE Read
    BY <1>4 DEF Read, CacheIsCurrent
  <1>5. \/ cache' = NoCache \/ UNCHANGED <<cache, ledger, uncounted>>
        \/ (Lost /\ UNCHANGED ledger) \/ Read
    BY DEF Next, Deliver, Try, TurnDown, Begin, TryKnown, TryIngest, Refuse, Commit, Restore,
           DropProgress, NoteGap, vars
  <1> QED BY <1>1, <1>2, <1>3, <1>4, <1>5

(* The totals on display are never those of an earlier state of the ledger.      *)
THEOREM CacheAlwaysCurrent == Spec => []CacheIsCurrent
  <1>1. Init => CacheIsCurrent
    BY DEF Init, NoCache, CacheIsCurrent
  <1> QED BY <1>1, CacheStep, Inductive, PTL DEF Spec

(* The rows of a ledger fit into its memory. *)
HasRoom(L) == IsFiniteSet(L.records) /\ Cardinality(L.records) <= Capacity

LEMMA OneMore ==
    ASSUME NEW S, IsFiniteSet(S), NEW o
    PROVE  /\ IsFiniteSet(S \cup {o})
           /\ Cardinality(S \cup {o}) <= Cardinality(S) + 1
  <1>1. Cardinality(S) \in Nat
    BY FS_CardinalityType
  <1>2. /\ IsFiniteSet(S \cup {o})
        /\ Cardinality(S \cup {o}) = IF o \in S THEN Cardinality(S) ELSE Cardinality(S) + 1
    BY FS_AddElement
  <1> QED BY <1>1, <1>2

LEMMA SwapFits ==
    ASSUME NEW S, IsFiniteSet(S), NEW x \in S, NEW o, NEW T \in SUBSET ((S \ {x}) \cup {o})
    PROVE  IsFiniteSet(T) /\ Cardinality(T) <= Cardinality(S)
  <1> DEFINE R == S \ {x}
  <1>1. IsFiniteSet(R) /\ Cardinality(R) = Cardinality(S) - 1
    BY FS_RemoveElement
  <1> HIDE DEF R
  <1>2. IsFiniteSet(R \cup {o}) /\ Cardinality(R \cup {o}) <= Cardinality(R) + 1
    BY <1>1, OneMore
  <1>3. IsFiniteSet(T) /\ Cardinality(T) <= Cardinality(R \cup {o})
    BY <1>2, FS_Subset DEF R
  <1>4. Cardinality(S) \in Nat /\ Cardinality(R \cup {o}) \in Nat /\ Cardinality(T) \in Nat
    BY <1>2, <1>3, FS_CardinalityType
  <1> QED BY <1>1, <1>2, <1>3, <1>4

LEMMA WithoutFits ==
    ASSUME NEW L, HasRoom(L), NEW gone
    PROVE  HasRoom(Without(L, gone))
  <1>1. Without(L, gone).records \in SUBSET L.records
    BY DEF Without
  <1> QED BY <1>1, FS_Subset, FS_CardinalityType, BoundsAssumption DEF HasRoom

(* A row comes in for one that goes, or finds room. *)
LEMMA IngestedFits ==
    ASSUME NEW L \in Ledgers, Indexed(L), HasRoom(L), NEW o \in Observations,
           NEW evicted \in Evictions(L, o)
    PROVE  HasRoom(Ingested(L, o, evicted))
  <1> DEFINE made == Without(L, evicted)
             old == {r \in made.records : SameGroup(r, o)}
             free == IF Replaces(L, o) THEN Without(made, old) ELSE made
             N == Ingested(L, o, evicted)
  <1>1. /\ made.records = L.records \ evicted
        /\ free.records = IF Replaces(L, o) THEN made.records \ old ELSE made.records
    BY DEF Without
  <1>2. N.records \subseteq (free.records \ Existing(free, o)) \cup {o}
    BY DEF Ingested, Without, Put
  <1> SUFFICES HasRoom(N)
    OBVIOUS
  <1> HIDE DEF N, free, made
  <1>3. ASSUME NEW x \in L.records, N.records \subseteq (L.records \ {x}) \cup {o}
        PROVE  HasRoom(N)
    <2>1. IsFiniteSet(N.records) /\ Cardinality(N.records) <= Cardinality(L.records)
      BY <1>3, SwapFits DEF HasRoom
    <2> QED BY <2>1, FS_CardinalityType, BoundsAssumption DEF HasRoom
  <1>4. CASE Existing(L, o) # {}
    <2>1. PICK x \in L.records : SameIdentity(x, o)
      BY <1>4 DEF Existing
    <2>2. N.records \subseteq (L.records \ {x}) \cup {o}
      BY <2>1, <1>1, <1>2 DEF Existing
    <2> QED BY <2>2, <1>3
  <1>5. CASE Full(L, o)
    <2>1. PICK x \in L.records : evicted = {x}
      BY <1>5 DEF Evictions, Evictable
    <2>2. N.records \subseteq (L.records \ {x}) \cup {o}
      BY <2>1, <1>1, <1>2
    <2> QED BY <2>2, <1>3
  <1>6. CASE ~Full(L, o) /\ Replaces(L, o)
    <2>1. PICK k : k \in L.groups[GroupOf(o)].keys
      BY <1>6 DEF Replaces, InGroup, Group
    <2>2. PICK x \in L.records : x.kind = "snapshot" /\ GroupOf(x) = GroupOf(o)
      BY <2>1, ObservationParts DEF Indexed
    <2>3. SameGroup(x, o)
      BY <2>2, <1>6 DEF SameGroup, GroupOf, Replaces, InGroup
    <2>4. x \notin free.records
      BY <2>3, <1>1, <1>6
    <2>5. N.records \subseteq (L.records \ {x}) \cup {o}
      BY <2>4, <1>1, <1>2
    <2> QED BY <2>5, <1>3
  <1>7. CASE ~Full(L, o) /\ ~Replaces(L, o) /\ Existing(L, o) = {}
    <2>1. Cardinality(L.records) \in Nat /\ Cardinality(L.records) < Capacity
      BY <1>7, FS_CardinalityType, BoundsAssumption DEF Full, HasRoom
    <2>2. IsFiniteSet(L.records \cup {o}) /\ Cardinality(L.records \cup {o}) <= Capacity
      <3>1. /\ IsFiniteSet(L.records \cup {o})
            /\ Cardinality(L.records \cup {o}) <= Cardinality(L.records) + 1
        BY OneMore DEF HasRoom
      <3>2. Cardinality(L.records \cup {o}) \in Nat
        BY <3>1, FS_CardinalityType
      <3> QED BY <2>1, <3>1, <3>2, BoundsAssumption
    <2>3. N.records \in SUBSET (L.records \cup {o})
      BY <1>1, <1>2
    <2>4. IsFiniteSet(N.records) /\ Cardinality(N.records) <= Cardinality(L.records \cup {o})
      BY <2>2, <2>3, FS_Subset
    <2> QED BY <2>2, <2>4, FS_CardinalityType, BoundsAssumption DEF HasRoom
  <1> QED BY <1>4, <1>5, <1>6, <1>7

Roomy == HasRoom(ledger) /\ HasRoom(trial.ledger)

LEMMA EmptyFits == HasRoom(Empty) /\ HasRoom(Idle.ledger)
  BY FS_EmptySet, BoundsAssumption DEF HasRoom, Empty, Idle

LEMMA RoomyStep == Roomy /\ IInv /\ [Next]_vars => Roomy'
  <1> SUFFICES ASSUME Roomy, IInv, [Next]_vars PROVE Roomy'
    OBVIOUS
  <1>1. CASE UNCHANGED <<ledger, trial>>
    BY <1>1 DEF Roomy
  <1>2. CASE UNCHANGED ledger /\ trial'.ledger = trial.ledger
    BY <1>2 DEF Roomy
  <1>3. CASE UNCHANGED ledger /\ trial' = Idle
    BY <1>3, EmptyFits DEF Roomy
  <1>4. ASSUME NEW B \in Batches, Begin(B) PROVE Roomy'
    BY <1>4 DEF Begin, Roomy
  <1>5. ASSUME NEW o \in Observations, TryIngest(o) PROVE Roomy'
    <2>1. PICK evicted \in Evictions(trial.ledger, o) :
             trial' = [trial EXCEPT !.ledger = Ingested(trial.ledger, o, evicted),
                                    !.todo = @ \ {o}, !.done = @ \cup {o}, !.changed = TRUE]
      BY <1>5 DEF TryIngest, TakesOver
    <2>2. trial'.ledger = Ingested(trial.ledger, o, evicted)
      BY <2>1 DEF IInv, TypeOK
    <2>3. HasRoom(Ingested(trial.ledger, o, evicted))
      BY IngestedFits DEF IInv, TypeOK, IndexMatches, Roomy
    <2> QED BY <1>5, <2>2, <2>3 DEF TryIngest, Roomy
  <1>6. CASE Commit
    <2>1. ledger' = trial.ledger \/ ledger' = ledger
      BY <1>6 DEF Commit
    <2> QED BY <1>6, <2>1, EmptyFits DEF Commit, Roomy
  <1>7. ASSUME NEW o \in Observations, Restore(o) PROVE Roomy'
    <2>1. CASE \E evicted \in Evictions(ledger, o) : ledger' = Ingested(ledger, o, evicted)
      <3>1. HasRoom(ledger')
        BY <2>1, IngestedFits DEF IInv, TypeOK, IndexMatches, Roomy
      <3> QED BY <3>1, <1>7 DEF Restore, Roomy
    <2>2. CASE UNCHANGED ledger
      BY <2>2, <1>7 DEF Restore, Roomy
    <2> QED BY <1>7, <2>1, <2>2 DEF Restore
  <1>8. ASSUME NEW e \in Progress, DropProgress(e) PROVE Roomy'
    BY <1>8, WithoutFits DEF DropProgress, Roomy
  <1>9. ASSUME NEW o \in Observations, TryKnown(o) PROVE UNCHANGED ledger /\ trial'.ledger = trial.ledger
    BY <1>9 DEF TryKnown, TakesOver, IInv, TypeOK
  <1>10. ASSUME NEW o \in Observations, Refuse(o) PROVE UNCHANGED ledger /\ trial' = Idle
    BY <1>10 DEF Refuse
  <1>11. ASSUME NEW B \in Batches, TurnDown(B) PROVE UNCHANGED <<ledger, trial>>
    BY <1>11 DEF TurnDown
  <1>12. NoteGap \/ Read \/ UNCHANGED vars => UNCHANGED <<ledger, trial>>
    BY DEF NoteGap, Read, vars
  <1> QED BY <1>1, <1>2, <1>3, <1>4, <1>5, <1>6, <1>7, <1>8, <1>9, <1>10, <1>11, <1>12
      DEF Next, Deliver, Try

(* The ledger stays within its memory budget, whatever it evicts or replaces.    *)
THEOREM AlwaysWithinCapacity == Spec => []WithinCapacity
  <1>1. Init => Roomy
    BY EmptyFits DEF Init, Roomy
  <1>2. Roomy => WithinCapacity
    BY DEF Roomy, HasRoom, WithinCapacity
  <1> QED BY <1>1, <1>2, RoomyStep, Inductive, PTL DEF Spec

(* Index, cache and budget agree with the rows in the map, always. *)
THEOREM LedgerAlwaysConsistent == Spec => []LedgerIsConsistent
  BY IndexAlwaysMatches, CacheAlwaysCurrent, AlwaysWithinCapacity, PTL DEF LedgerIsConsistent

-----------------------------------------------------------------------------
(* Sets of rows *)

KnownTo(r, S)    == \E q \in S : q.exec = r.exec /\ (q = r \/ q.rev > r.rev)
AllKnown(R, S)   == \A r \in R : KnownTo(r, S)
Covered(r, S)    == \E q \in S : q.exec = r.exec /\ q.rev >= r.rev
AllCovered(R, S) == \A r \in R : Covered(r, S)
Unique(R)        == \A r, q \in R : SameRow(r, q) => r = q
Flat(R)          == \A r, q \in R : r.exec = q.exec => r.rev = q.rev
PartsOf(e, R)    == {q.part : q \in {q \in R : q.exec = e}}
WholeGroups(R)   == \A r \in R : r.exec \in Groups => PartsOf(r.exec, R) = r.batch
ThePart          == CHOOSE part \in Parts : TRUE
Shaped(R)        == \A r \in R : r.exec \in Responses => r.part = ThePart /\ r.batch = {ThePart}

LEMMA RowFields ==
    ASSUME NEW r \in Row
    PROVE  /\ r.exec \in Origins /\ r.part \in Parts /\ r.rev \in Nat /\ r.rev \in 1 .. MaxRevision
           /\ r.origin \in {"unassigned", "turn"} /\ r.batch \in SUBSET Parts
BY PersistAssumption DEF Row

(* Among the rows of an execution one has the greatest revision. *)
LEMMA Greatest ==
    ASSUME NEW S, S \subseteq Row, NEW r \in S
    PROVE  \E q \in S : q.exec = r.exec /\ \A x \in S : x.exec = r.exec => x.rev <= q.rev
<1> DEFINE left == {MaxRevision - x.rev : x \in {x \in S : x.exec = r.exec}}
<1>1. \A x \in S : x.rev \in Nat /\ x.rev <= MaxRevision /\ MaxRevision \in Nat
  BY RowFields, PersistAssumption
<1>2. left \subseteq Nat /\ MaxRevision - r.rev \in left
  BY <1>1
<1> HIDE DEF left
<1>3. PICK least \in left : \A m \in left : <<m, least>> \notin OpToRel(<, Nat)
  BY <1>2, NatLessThanWellFounded, WFMin
<1>4. \A m \in left : ~(m < least)
  BY <1>2, <1>3, Zenon DEF OpToRel
<1>5. PICK q \in S : q.exec = r.exec /\ least = MaxRevision - q.rev
  BY <1>3 DEF left
<1>6. \A x \in S : x.exec = r.exec => MaxRevision - x.rev \in left
  BY DEF left
<1>7. \A x \in S : x.exec = r.exec => x.rev <= q.rev
  BY <1>1, <1>4, <1>5, <1>6
<1>8. QED
  BY <1>5, <1>7

LEMMA RevisionIs ==
    ASSUME NEW R, R \subseteq Row
    PROVE  /\ Revision(R) \in 0 .. MaxRevision
           /\ \A r \in R : r.rev <= Revision(R)
<1>1. \A x \in R : x.rev \in 0 .. MaxRevision
  BY RowFields, PersistAssumption
<1>2. \E n \in 0 .. MaxRevision : (\A r \in R : r.rev <= n) /\ (n = 0 \/ \E r \in R : r.rev = n)
  <2>1. CASE R = {}
    BY <2>1, PersistAssumption
  <2>2. CASE R # {}
    <3> DEFINE all == {MaxRevision - x.rev : x \in R}
    <3>1. all \subseteq Nat /\ all # {}
      BY <1>1, <2>2, PersistAssumption
    <3> HIDE DEF all
    <3>2. PICK least \in all : \A m \in all : <<m, least>> \notin OpToRel(<, Nat)
      BY <3>1, NatLessThanWellFounded, WFMin
    <3>3. \A m \in all : ~(m < least)
      BY <3>1, <3>2, Zenon DEF OpToRel
    <3>4. PICK q \in R : least = MaxRevision - q.rev
      BY <3>2 DEF all
    <3>5. \A x \in R : MaxRevision - x.rev \in all
      BY DEF all
    <3>6. \A x \in R : x.rev <= q.rev
      BY <1>1, <3>3, <3>4, <3>5, PersistAssumption
    <3>7. QED
      BY <1>1, <3>6
  <2>3. QED
    BY <2>1, <2>2
<1>3. QED
  BY <1>2 DEF Revision

LEMMA NewestIs ==
    ASSUME NEW S, S \subseteq Row
    PROVE  Newest(S) \subseteq S /\ Flat(Newest(S)) /\ AllKnown(S, Newest(S))
<1>1. Newest(S) \subseteq S
  BY DEF Newest
<1>2. \A x \in S : x.rev \in Nat
  BY RowFields
<1>3. Flat(Newest(S))
  <2> SUFFICES ASSUME NEW r \in Newest(S), NEW q \in Newest(S), r.exec = q.exec
               PROVE  r.rev = q.rev
    BY DEF Flat
  <2>1. r \in S /\ q \in S /\ r.rev <= q.rev /\ q.rev <= r.rev
    BY DEF Newest
  <2>2. QED
    BY <1>2, <2>1
<1>4. AllKnown(S, Newest(S))
  <2> SUFFICES ASSUME NEW r \in S PROVE KnownTo(r, Newest(S))
    BY DEF AllKnown
  <2>1. PICK q \in S : q.exec = r.exec /\ \A x \in S : x.exec = r.exec => x.rev <= q.rev
    BY Greatest
  <2>2. q \in Newest(S)
    BY <2>1 DEF Newest
  <2>3. CASE q.rev > r.rev
    BY <2>1, <2>2, <2>3 DEF KnownTo
  <2>4. CASE q.rev <= r.rev
    <3>1. r \in Newest(S)
      BY <1>2, <2>1, <2>4 DEF Newest
    <3>2. QED
      BY <3>1 DEF KnownTo
  <2>5. QED
    BY <1>2, <2>1, <2>3, <2>4
<1>5. QED
  BY <1>1, <1>3, <1>4

LEMMA KnownThrough ==
    ASSUME NEW R, R \subseteq Row, NEW S, S \subseteq Row, NEW T, T \subseteq Row,
           AllKnown(R, S), AllKnown(S, T)
    PROVE  AllKnown(R, T)
<1> SUFFICES ASSUME NEW r \in R PROVE KnownTo(r, T)
  BY DEF AllKnown
<1>1. PICK q \in S : q.exec = r.exec /\ (q = r \/ q.rev > r.rev)
  BY DEF AllKnown, KnownTo
<1>2. PICK t \in T : t.exec = q.exec /\ (t = q \/ t.rev > q.rev)
  BY DEF AllKnown, KnownTo
<1>3. r.rev \in Nat /\ q.rev \in Nat /\ t.rev \in Nat
  BY RowFields
<1>4. QED
  BY <1>1, <1>2, <1>3 DEF KnownTo

LEMMA KnownIsCovered ==
    ASSUME NEW R, R \subseteq Row, NEW S, S \subseteq Row, AllKnown(R, S)
    PROVE  AllCovered(R, S)
BY RowFields DEF AllKnown, KnownTo, AllCovered, Covered

LEMMA CoveredThrough ==
    ASSUME NEW R, R \subseteq Row, NEW S, S \subseteq Row, NEW T, T \subseteq Row,
           AllCovered(R, S), AllCovered(S, T)
    PROVE  AllCovered(R, T)
<1> SUFFICES ASSUME NEW r \in R PROVE Covered(r, T)
  BY DEF AllCovered
<1>1. PICK q \in S : q.exec = r.exec /\ q.rev >= r.rev
  BY DEF AllCovered, Covered
<1>2. PICK t \in T : t.exec = q.exec /\ t.rev >= q.rev
  BY DEF AllCovered, Covered
<1>3. r.rev \in Nat /\ q.rev \in Nat /\ t.rev \in Nat
  BY RowFields
<1>4. QED
  BY <1>1, <1>2, <1>3 DEF Covered

LEMMA OwnRows ==
    ASSUME NEW R, R \subseteq Row, NEW S, R \subseteq S
    PROVE  AllKnown(R, S) /\ AllCovered(R, S)
BY RowFields DEF AllKnown, KnownTo, AllCovered, Covered

(* Rows that a flat archive knows change nothing in it. *)
LEMMA KnownChangesNothing ==
    ASSUME NEW S, S \subseteq Row, NEW R, R \subseteq Row, Flat(S), AllKnown(R, S)
    PROVE  Newest(S \cup R) = S
<1>1. \A x \in S \cup R : x.rev \in Nat
  BY RowFields
<1>2. ASSUME NEW r \in Newest(S \cup R) PROVE r \in S
  <2>1. r \in S \cup R /\ \A q \in S : q.exec = r.exec => q.rev <= r.rev
    BY <1>2 DEF Newest
  <2>2. QED
    BY <1>1, <2>1 DEF AllKnown, KnownTo
<1>3. ASSUME NEW r \in S PROVE r \in Newest(S \cup R)
  <2>1. ASSUME NEW x \in S \cup R, x.exec = r.exec PROVE x.rev <= r.rev
    <3>1. CASE x \in S
      BY <1>1, <2>1, <3>1 DEF Flat
    <3>2. CASE x \in R
      <4>1. PICK q \in S : q.exec = x.exec /\ (q = x \/ q.rev > x.rev)
        BY <3>2 DEF AllKnown, KnownTo
      <4>2. q.rev = r.rev
        BY <2>1, <4>1 DEF Flat
      <4>3. QED
        BY <1>1, <4>1, <4>2
    <3>3. QED
      BY <3>1, <3>2
  <2>2. QED
    BY <2>1 DEF Newest
<1>4. QED
  BY <1>2, <1>3

(* What an archive restored from a flat checkpoint and a journal of responses
   has of the groups is what the checkpoint has of them. *)
LEMMA GroupsStayWhole ==
    ASSUME NEW A, A \subseteq Row, Flat(A),
           NEW K, K \subseteq Row, Flat(K), WholeGroups(K),
           NEW J, J \subseteq Row, \A r \in J : r.exec \in Responses,
           A \subseteq K \cup J, AllKnown(K \cup J, A)
    PROVE  WholeGroups(A)
<1> SUFFICES ASSUME NEW r \in A, r.exec \in Groups PROVE PartsOf(r.exec, A) = r.batch
  BY DEF WholeGroups
<1>1. \A x \in A : x.exec = r.exec => x \in K
  BY PersistAssumption
<1>2. \A x \in K : x.exec = r.exec => x \in A
  <2> SUFFICES ASSUME NEW x \in K, x.exec = r.exec PROVE x \in A
    OBVIOUS
  <2>1. PICK q \in A : q.exec = x.exec /\ (q = x \/ q.rev > x.rev)
    BY DEF AllKnown, KnownTo
  <2>2. q \in K /\ q.rev = x.rev /\ x.rev \in Nat
    BY <1>1, <2>1, RowFields DEF Flat
  <2>3. QED
    BY <2>1, <2>2
<1>3. {q \in A : q.exec = r.exec} = {q \in K : q.exec = r.exec}
  BY <1>1, <1>2
<1>4. PartsOf(r.exec, A) = PartsOf(r.exec, K)
  BY <1>3, Zenon DEF PartsOf
<1>5. QED
  BY <1>1, <1>4 DEF WholeGroups

-----------------------------------------------------------------------------
(* The inductive invariant *)

Queued(c) == UNION {c.writes[i] : i \in DOMAIN c.writes}
Held(c)   == c.archive \cup c.todo \cup Queued(c)
Writes(c) == c.writer /\ ~c.readOnly

FilesOk ==
    /\ ~checkpoint.ok => checkpoint.rows = {}
    /\ Flat(checkpoint.rows) /\ Shaped(checkpoint.rows)
    /\ Shaped(journal) /\ \A r \in journal : r.exec \in Responses

(* What a collector is like whoever has the lease. *)
CollOk(c) ==
    /\ c.stage = "off" => c = Stopped
    /\ c.stage # "off" /\ ~c.writer => c.readOnly
    /\ c.stage = "live" => c.restored
    /\ c.truncating => c.writer /\ c.restored /\ c.status # "full"
    /\ c.renamed # {} => c.truncating
    /\ ~c.restored /\ ~c.readOnly => c.writes = <<>>
    /\ Flat(c.archive) /\ Shaped(Held(c))
    /\ \A r \in Queued(c) : r.exec \in Responses

(* A line that lacks its end for want of space is not written after. *)
WholeLine(c) ==
    Writes(c) /\ (c.restored \/ c.stage = "journal") /\ c.status # "full" => tear # "cut"

(* What a collector read, or was told is kept, can be read. *)
DurableOk(c) ==
    checkpoint.ok =>
        /\ AllCovered(c.todo, Readable)
        /\ (c.writer /\ tear = "fault") \/ AllCovered(c.archive \ c.pending, Readable)

(* The journal that is about to be emptied is in the checkpoint. *)
TruncateOk(c) ==
    checkpoint.ok /\ c.truncating =>
        /\ c.renamed = checkpoint.rows
        /\ AllCovered(journal, checkpoint.rows)
        /\ AllCovered(c.archive \ c.pending, checkpoint.rows)

(* Who may write knows all there is. *)
RestoreOk(c) ==
    Writes(c) =>
        /\ Unique(Held(c) \cup Readable)
        /\ c.restored => AllKnown(c.todo \cup Queued(c) \cup Readable, c.archive)
        /\ ~c.restored /\ c.stage = "checkpoint" => AllKnown(checkpoint.rows, c.archive \cup c.todo)
        /\ ~c.restored /\ c.stage = "journal" => AllKnown(Readable, c.archive \cup c.todo)
        /\ ~c.restored /\ checkpoint.ok => c.archive \cup c.todo \subseteq Readable
        /\ c.restored /\ checkpoint.ok => WholeGroups(c.archive)

Good(c) ==
    /\ CollOk(c)
    /\ ~lapsed => WholeLine(c) /\ DurableOk(c) /\ TruncateOk(c) /\ RestoreOk(c)

LeaseOk(p) == coll[p].writer => lease = p /\ kept

PersistInv ==
    /\ PersistTypeOK
    /\ FilesOk
    /\ \A p \in Collectors : Good(coll[p])
    /\ ~lapsed => /\ Unique(Readable) /\ WholeGroups(checkpoint.rows)
                  /\ \A p \in Collectors : LeaseOk(p)

-----------------------------------------------------------------------------
(* Collectors *)

LEMMA StoppedIs ==
    Stopped \in CollectorState /\ CollOk(Stopped) /\ Queued(Stopped) = {}
<1>1. Stopped \in CollectorState
  BY DEF Stopped, CollectorState
<1>2. Queued(Stopped) = {}
  BY DEF Stopped, Queued
<1>3. QED
  BY <1>1, <1>2 DEF CollOk, Stopped, Held, Flat, Shaped

(* All fields but what is shown to the user, and which rows are still live. *)
Alike(c, d) ==
    /\ d.stage = c.stage /\ d.todo = c.todo /\ d.restored = c.restored /\ d.archive = c.archive
    /\ d.pending = c.pending /\ d.writes = c.writes /\ d.renamed = c.renamed
    /\ d.truncating = c.truncating /\ d.status = c.status /\ d.readOnly = c.readOnly
    /\ d.writer = c.writer /\ d.closed = c.closed

LEMMA UpdatedIs ==
    ASSUME NEW c \in CollectorState
    PROVE  UpdatedState(c) \in CollectorState /\ Alike(c, UpdatedState(c))
BY DEF UpdatedState, CollectorState, Alike

LEMMA AlikeIsGood ==
    ASSUME NEW c \in CollectorState, NEW d \in CollectorState, Alike(c, d), Good(c), c.stage # "off"
    PROVE  Good(d)
<1>1. Queued(d) = Queued(c) /\ Held(d) = Held(c) /\ Writes(d) = Writes(c)
  BY DEF Queued, Held, Writes, Alike
<1>2. CollOk(d)
  BY <1>1 DEF Good, CollOk, Alike
<1>3. ~lapsed => WholeLine(d) /\ DurableOk(d) /\ TruncateOk(d)
  BY <1>1 DEF Good, WholeLine, DurableOk, TruncateOk, Alike
<1>4. ~lapsed => RestoreOk(d)
  BY <1>1 DEF Good, RestoreOk, Alike
<1>5. QED
  BY <1>2, <1>3, <1>4 DEF Good

LEMMA QueueIs ==
    ASSUME NEW c \in CollectorState
    PROVE  /\ Queued(c) \subseteq Row
           /\ \A d \in CollectorState : d.writes = c.writes => Queued(d) = Queued(c)
           /\ c.writes = <<>> => Queued(c) = {}
           /\ c.writes # <<>> => /\ Head(c.writes) \subseteq Queued(c)
                                 /\ Head(c.writes) \in SUBSET Row
                                 /\ Tail(c.writes) \in Seq(SUBSET Row)
                                 /\ \A d \in CollectorState : d.writes = Tail(c.writes) =>
                                       Queued(d) \subseteq Queued(c)
           /\ \A W \in SUBSET Row : \A d \in CollectorState : d.writes = Append(c.writes, W) =>
                 Queued(d) \subseteq Queued(c) \cup W
<1>1. c.writes \in Seq(SUBSET Row)
  BY DEF CollectorState
<1>2. Queued(c) \subseteq Row
  <2> SUFFICES ASSUME NEW i \in DOMAIN c.writes PROVE c.writes[i] \subseteq Row
    BY DEF Queued
  <2>1. QED
    BY <1>1
<1>3. c.writes # <<>> => /\ Head(c.writes) \in SUBSET Row
                         /\ Tail(c.writes) \in Seq(SUBSET Row) /\ 1 \in DOMAIN c.writes
                         /\ Head(c.writes) = c.writes[1]
  BY <1>1
<1>4. c.writes # <<>> => Head(c.writes) \subseteq Queued(c)
  BY <1>3 DEF Queued
<1>5. ASSUME c.writes # <<>>, NEW d \in CollectorState, d.writes = Tail(c.writes)
      PROVE  Queued(d) \subseteq Queued(c)
  <2> SUFFICES ASSUME NEW i \in DOMAIN d.writes
               PROVE  \E j \in DOMAIN c.writes : c.writes[j] = d.writes[i]
    BY Zenon DEF Queued
  <2>1. i + 1 \in DOMAIN c.writes /\ c.writes[i + 1] = d.writes[i]
    BY <1>1, <1>5
  <2>2. QED
    BY <2>1
<1>6. ASSUME NEW W \in SUBSET Row, NEW d \in CollectorState, d.writes = Append(c.writes, W)
      PROVE  Queued(d) \subseteq Queued(c) \cup W
  <2> SUFFICES ASSUME NEW i \in DOMAIN d.writes
               PROVE  d.writes[i] = W \/ \E j \in DOMAIN c.writes : c.writes[j] = d.writes[i]
    BY Zenon DEF Queued
  <2>1. i \in 1 .. Len(c.writes) + 1
    BY <1>1, <1>6
  <2>2. CASE i = Len(c.writes) + 1
    BY <1>1, <1>6, <2>2
  <2>3. CASE i # Len(c.writes) + 1
    <3>1. i \in DOMAIN c.writes /\ c.writes[i] = d.writes[i]
      BY <1>1, <1>6, <2>1, <2>3
    <3>2. QED
      BY <3>1
  <2>4. QED
    BY <2>2, <2>3
<1>7. c.writes = <<>> => Queued(c) = {}
  BY DEF Queued
<1>8. \A d \in CollectorState : d.writes = c.writes => Queued(d) = Queued(c)
  BY DEF Queued
<1>9. QED
  BY <1>2, <1>3, <1>4, <1>5, <1>6, <1>7, <1>8

(* Rows that are read: one that contradicts what is known makes a reader. *)
LEMMA RestoredIs ==
    ASSUME NEW c \in CollectorState, NEW R, R \subseteq Row
    PROVE  /\ Restored(c, R) \in CollectorState
           /\ Restored(c, R).archive \subseteq c.archive \cup R
           /\ Flat(Restored(c, R).archive)
           /\ c.readOnly => Restored(c, R).readOnly
           /\ ~Restored(c, R).readOnly =>
                /\ ~c.readOnly
                /\ Restored(c, R).archive = Newest(c.archive \cup R)
                /\ AllKnown(c.archive \cup R, Restored(c, R).archive)
           /\ Restored(c, R) = [c EXCEPT !.archive = Restored(c, R).archive,
                                         !.readOnly = Restored(c, R).readOnly]
<1> DEFINE bad == {r \in R : \E q \in c.archive \cup R : SameRow(q, r) /\ q # r}
           A == Newest(c.archive \cup (R \ bad))
<1>1. c.archive \subseteq Row /\ c.readOnly \in BOOLEAN
  BY DEF CollectorState
<1>2. A \subseteq c.archive \cup (R \ bad) /\ Flat(A)
      /\ AllKnown(c.archive \cup (R \ bad), A)
  BY <1>1, NewestIs, c.archive \cup (R \ bad) \subseteq Row
<1>3. Restored(c, R) = [c EXCEPT !.archive = A, !.readOnly = c.readOnly \/ bad # {}]
  BY DEF Restored, CollectorState
<1>4. bad = {} => R \ bad = R
  OBVIOUS
<1> HIDE DEF A, bad
<1>5. A \subseteq Row /\ (c.readOnly \/ bad # {}) \in BOOLEAN
  BY <1>1, <1>2
<1>6. Restored(c, R) \in CollectorState
  BY <1>3, <1>5 DEF CollectorState
<1>7. Restored(c, R).archive = A /\ Restored(c, R).readOnly = (c.readOnly \/ bad # {})
  BY <1>3 DEF CollectorState
<1>8. A \subseteq c.archive \cup R
  BY <1>2
<1>9. bad = {} => A = Newest(c.archive \cup R) /\ AllKnown(c.archive \cup R, A)
  BY <1>2, <1>4 DEF A
<1>10. QED
  BY <1>1, <1>2, <1>3, <1>6, <1>7, <1>8, <1>9

LEMMA FilesAre ==
    ASSUME PersistInv
    PROVE  /\ checkpoint.rows \subseteq Row /\ journal \subseteq Row /\ Readable \subseteq Row
           /\ checkpoint.ok \in BOOLEAN /\ Readable = checkpoint.rows \cup journal
           /\ \A p \in Collectors : coll[p] \in CollectorState /\ Good(coll[p])
           /\ coll \in [Collectors -> CollectorState]
           /\ FilesOk /\ tear \in {"none", "cut", "fault"} /\ lapsed \in BOOLEAN
<1>1. checkpoint.rows \subseteq Row /\ journal \subseteq Row /\ checkpoint.ok \in BOOLEAN
  BY DEF PersistInv, PersistTypeOK
<1>2. Readable = checkpoint.rows \cup journal
  BY <1>1 DEF PersistInv, FilesOk, Readable
<1>3. QED
  BY <1>1, <1>2 DEF PersistInv, PersistTypeOK

(* One slice over an archive. *)
LEMMA SliceIsGood ==
    ASSUME PersistInv, NEW p \in Collectors, ~coll[p].closed, NEW r \in coll[p].todo
    PROVE  /\ [Restored(coll[p], {r}) EXCEPT !.todo = @ \ {r}] \in CollectorState
           /\ Good([Restored(coll[p], {r}) EXCEPT !.todo = @ \ {r}])
           /\ [Restored(coll[p], {r}) EXCEPT !.todo = @ \ {r}].writer = coll[p].writer
<1> DEFINE c == coll[p]
           s == Restored(c, {r})
           d == [s EXCEPT !.todo = @ \ {r}]
<1>1. c \in CollectorState /\ Good(c)
  BY FilesAre
<1>2. c.todo \subseteq Row /\ c.archive \subseteq Row /\ c.pending \subseteq Row /\ {r} \subseteq Row
  BY <1>1 DEF CollectorState
<1>3. /\ s \in CollectorState /\ s.archive \subseteq c.archive \cup {r} /\ Flat(s.archive)
      /\ c.readOnly => s.readOnly
      /\ ~s.readOnly => /\ ~c.readOnly /\ s.archive = Newest(c.archive \cup {r})
                        /\ AllKnown(c.archive \cup {r}, s.archive)
      /\ s = [c EXCEPT !.archive = s.archive, !.readOnly = s.readOnly]
  BY <1>1, <1>2, RestoredIs
<1> HIDE DEF s
<1>4. s.todo = c.todo
  BY <1>1, <1>3 DEF CollectorState
<1>5. d \in CollectorState
  BY <1>2, <1>3, <1>4 DEF CollectorState
<1>6. /\ d.stage = c.stage /\ d.todo = c.todo \ {r} /\ d.restored = c.restored
      /\ d.archive = s.archive /\ d.pending = c.pending /\ d.live = c.live
      /\ d.writes = c.writes /\ d.renamed = c.renamed /\ d.truncating = c.truncating
      /\ d.status = c.status /\ d.readOnly = s.readOnly /\ d.writer = c.writer
      /\ d.closed = c.closed
  BY <1>1, <1>3, <1>4 DEF CollectorState
<1> HIDE DEF d
<1>7. Queued(d) = Queued(c) /\ Queued(c) \subseteq Row /\ Held(d) \subseteq Held(c)
  BY <1>1, <1>3, <1>5, <1>6, QueueIs DEF Held
<1>8. c.stage # "off"
  BY <1>1 DEF Good, CollOk, Stopped
<1>9. CollOk(d)
  BY <1>1, <1>3, <1>6, <1>7, <1>8 DEF Good, CollOk, Shaped
<1>10. ASSUME ~lapsed PROVE WholeLine(d)
  BY <1>1, <1>3, <1>6, <1>10 DEF Good, WholeLine, Writes
<1>11. Readable = checkpoint.rows \cup journal /\ Readable \subseteq Row /\ checkpoint.rows \subseteq Row
       /\ journal \subseteq Row
  BY FilesAre
<1>12. ASSUME ~lapsed PROVE DurableOk(d)
  <2>1. d.archive \ d.pending \subseteq (c.archive \ c.pending) \cup {r}
    BY <1>3, <1>6
  <2>2. QED
    BY <1>1, <1>6, <1>12, <2>1 DEF Good, DurableOk, AllCovered
<1>13. ASSUME ~lapsed PROVE TruncateOk(d)
  <2> SUFFICES ASSUME checkpoint.ok, c.truncating PROVE AllCovered(d.archive \ d.pending, checkpoint.rows)
    BY <1>1, <1>6, <1>13 DEF Good, TruncateOk
  <2>1. d.archive \ d.pending \subseteq (c.archive \ c.pending) \cup {r}
    BY <1>3, <1>6
  <2>2. AllCovered({r}, Readable) /\ AllCovered(journal, checkpoint.rows)
        /\ AllCovered(c.archive \ c.pending, checkpoint.rows)
    BY <1>1, <1>13 DEF Good, DurableOk, TruncateOk, AllCovered
  <2>3. AllCovered(Readable, checkpoint.rows)
    BY <1>11, <2>2, OwnRows DEF AllCovered
  <2>4. AllCovered({r}, checkpoint.rows)
    BY <1>2, <1>11, <2>2, <2>3, CoveredThrough
  <2>5. QED
    BY <2>1, <2>2, <2>4 DEF AllCovered
<1>14. ASSUME ~lapsed PROVE RestoreOk(d)
  <2> SUFFICES ASSUME Writes(d) PROVE RestoreOk(d)
    BY DEF RestoreOk
  <2>1. Writes(c) /\ s.archive = Newest(c.archive \cup {r}) /\ AllKnown(c.archive \cup {r}, s.archive)
    BY <1>3, <1>6 DEF Writes
  <2>2. Unique(Held(d) \cup Readable)
    BY <1>1, <1>7, <1>14, <2>1 DEF Good, RestoreOk, Unique
  <2>3. CASE c.restored
    <3>1. AllKnown({r}, c.archive)
      BY <1>1, <1>14, <2>1, <2>3 DEF Good, RestoreOk, AllKnown
    <3>2. s.archive = c.archive
      BY <1>1, <1>2, <2>1, <3>1, KnownChangesNothing DEF Good, CollOk
    <3>3. QED
      BY <1>1, <1>6, <1>7, <1>14, <2>1, <2>2, <2>3, <3>2 DEF Good, RestoreOk, AllKnown
  <2>4. CASE ~c.restored
    <3>1. c.archive \cup c.todo \subseteq (c.archive \cup {r}) \cup d.todo
          /\ c.archive \cup c.todo \subseteq Row /\ s.archive \subseteq Row /\ d.todo \subseteq Row
      BY <1>2, <1>3, <1>6 DEF CollectorState
    <3>2. AllKnown(d.todo, s.archive \cup d.todo)
      BY <3>1, OwnRows
    <3>3. AllKnown(c.archive \cup c.todo, s.archive \cup d.todo)
      BY <2>1, <3>1, <3>2 DEF AllKnown, KnownTo
    <3>4. \A R \in SUBSET Row : AllKnown(R, c.archive \cup c.todo) => AllKnown(R, d.archive \cup d.todo)
      BY <1>6, <3>1, <3>3, KnownThrough
    <3>5. checkpoint.ok => d.archive \cup d.todo \subseteq Readable
      BY <1>1, <1>3, <1>6, <1>14, <2>1, <2>4 DEF Good, RestoreOk
    <3>6. QED
      BY <1>1, <1>6, <1>11, <1>14, <2>1, <2>2, <2>4, <3>4, <3>5 DEF Good, RestoreOk
  <2>5. QED
    BY <2>3, <2>4
<1>15. QED
  BY <1>5, <1>6, <1>9, <1>10, <1>12, <1>13, <1>14 DEF Good, d, s

(* The checkpoint is read: the journal of that moment is next. *)
LEMMA JournalReadIsGood ==
    ASSUME PersistInv, NEW p \in Collectors, coll[p].stage = "checkpoint", coll[p].todo = {}
    PROVE  LET d == [coll[p] EXCEPT !.stage = "journal", !.todo = journal,
                                    !.readOnly = @ \/ tear # "none"]
           IN  d \in CollectorState /\ Good(d) /\ d.writer = coll[p].writer
<1> DEFINE c == coll[p]
           d == [c EXCEPT !.stage = "journal", !.todo = journal, !.readOnly = @ \/ tear # "none"]
<1>1. c \in CollectorState /\ Good(c) /\ FilesOk /\ journal \subseteq Row /\ checkpoint.rows \subseteq Row
      /\ Readable = checkpoint.rows \cup journal /\ Readable \subseteq Row
  BY FilesAre
<1>2. d \in CollectorState
  BY <1>1 DEF CollectorState
<1>3. /\ d.stage = "journal" /\ d.todo = journal /\ d.restored = c.restored
      /\ d.archive = c.archive /\ d.pending = c.pending /\ d.live = c.live
      /\ d.writes = c.writes /\ d.renamed = c.renamed /\ d.truncating = c.truncating
      /\ d.status = c.status /\ d.readOnly = (c.readOnly \/ tear # "none") /\ d.writer = c.writer
      /\ d.closed = c.closed /\ c.archive \subseteq Row
  BY <1>1 DEF CollectorState
<1> HIDE DEF d
<1>4. Queued(d) = Queued(c) /\ Held(d) \subseteq Held(c) \cup journal
  BY <1>1, <1>2, <1>3, QueueIs DEF Held
<1>5. CollOk(d)
  BY <1>1, <1>3, <1>4 DEF Good, CollOk, Shaped, FilesOk
<1>6. ASSUME ~lapsed PROVE WholeLine(d) /\ DurableOk(d) /\ TruncateOk(d)
  <2>1. WholeLine(d)
    BY <1>3 DEF WholeLine, Writes
  <2>2. AllCovered(journal, Readable)
    BY <1>1, OwnRows
  <2>3. QED
    BY <1>1, <1>3, <1>6, <2>1, <2>2 DEF Good, DurableOk, TruncateOk
<1>7. ASSUME ~lapsed PROVE RestoreOk(d)
  <2> SUFFICES ASSUME Writes(d) PROVE RestoreOk(d)
    BY DEF RestoreOk
  <2>1. Writes(c)
    BY <1>3 DEF Writes
  <2>2. Held(d) \cup Readable \subseteq Held(c) \cup Readable
    BY <1>1, <1>4
  <2>3. Unique(Held(d) \cup Readable)
    BY <1>1, <1>7, <2>1, <2>2 DEF Good, RestoreOk, Unique
  <2>4. c.restored => AllKnown(d.todo \cup Queued(d) \cup Readable, d.archive)
    BY <1>1, <1>3, <1>4, <1>7, <2>1 DEF Good, RestoreOk, AllKnown
  <2>5. ~c.restored => AllKnown(Readable, d.archive \cup d.todo)
    <3>1. SUFFICES ASSUME ~c.restored PROVE AllKnown(Readable, d.archive \cup d.todo)
      OBVIOUS
    <3>2. AllKnown(checkpoint.rows, c.archive) /\ AllKnown(journal, d.archive \cup d.todo)
      BY <1>1, <1>3, <1>7, <2>1, <3>1, OwnRows DEF Good, RestoreOk
    <3>3. QED
      BY <1>1, <1>3, <3>2 DEF AllKnown, KnownTo
  <2>6. ~c.restored /\ checkpoint.ok => d.archive \cup d.todo \subseteq Readable
    BY <1>1, <1>3, <1>7, <2>1 DEF Good, RestoreOk
  <2>7. c.restored /\ checkpoint.ok => WholeGroups(d.archive)
    BY <1>1, <1>3, <1>7, <2>1 DEF Good, RestoreOk
  <2>8. QED
    BY <1>3, <2>3, <2>4, <2>5, <2>6, <2>7 DEF RestoreOk
<1>8. QED
  BY <1>2, <1>3, <1>5, <1>6, <1>7 DEF Good, d

(* The files are read: a restore that nothing stopped knows them whole. *)
LEMMA ReadIsGood ==
    ASSUME PersistInv, NEW c \in CollectorState, Good(c), c.stage \in {"journal", "live"}, c.todo = {}
    PROVE  LET d == UpdatedState([c EXCEPT !.stage = "live", !.restored = TRUE])
           IN  d \in CollectorState /\ Good(d) /\ d.writer = c.writer
<1> DEFINE e == [c EXCEPT !.stage = "live", !.restored = TRUE]
<1>1. /\ FilesOk /\ journal \subseteq Row /\ checkpoint.rows \subseteq Row
      /\ Readable = checkpoint.rows \cup journal /\ Readable \subseteq Row
  BY FilesAre
<1>2. e \in CollectorState
  BY DEF CollectorState
<1>3. /\ e.stage = "live" /\ e.todo = {} /\ e.restored = TRUE
      /\ e.archive = c.archive /\ e.pending = c.pending /\ e.live = c.live
      /\ e.writes = c.writes /\ e.renamed = c.renamed /\ e.truncating = c.truncating
      /\ e.status = c.status /\ e.readOnly = c.readOnly /\ e.writer = c.writer
      /\ e.closed = c.closed /\ c.archive \subseteq Row /\ c.restored \in BOOLEAN
  BY DEF CollectorState
<1> HIDE DEF e
<1>4. Queued(e) = Queued(c) /\ Held(e) = Held(c) /\ (c.writes = <<>> => Queued(c) = {})
  BY <1>2, <1>3, QueueIs DEF Held
<1>5. CollOk(e)
  BY <1>3, <1>4 DEF Good, CollOk
<1>6. ASSUME ~lapsed PROVE WholeLine(e) /\ DurableOk(e) /\ TruncateOk(e)
  <2>1. WholeLine(e)
    BY <1>3, <1>6 DEF Good, CollOk, WholeLine, Writes
  <2>2. QED
    BY <1>3, <1>6, <2>1 DEF Good, DurableOk, TruncateOk
<1>7. ASSUME ~lapsed PROVE RestoreOk(e)
  <2> SUFFICES ASSUME Writes(e) PROVE RestoreOk(e)
    BY DEF RestoreOk
  <2>1. Writes(c) /\ Unique(Held(e) \cup Readable)
    BY <1>3, <1>4, <1>7 DEF Writes, Good, RestoreOk
  <2>2. CASE c.restored
    BY <1>3, <1>4, <1>7, <2>1, <2>2 DEF Good, RestoreOk
  <2>3. CASE ~c.restored
    <3>1. Queued(c) = {} /\ c.archive \cup c.todo = c.archive /\ AllKnown(Readable, c.archive)
      BY <1>3, <1>4, <1>7, <2>1, <2>3 DEF Good, CollOk, Writes, RestoreOk
    <3>2. ASSUME checkpoint.ok PROVE WholeGroups(c.archive)
      <4>1. c.archive \subseteq checkpoint.rows \cup journal
        BY <1>1, <1>7, <2>1, <2>3, <3>2 DEF Good, RestoreOk
      <4>2. Flat(c.archive) /\ Flat(checkpoint.rows) /\ WholeGroups(checkpoint.rows)
            /\ \A r \in journal : r.exec \in Responses
        BY <1>7 DEF PersistInv, Good, CollOk, FilesOk
      <4>3. QED
        BY <1>1, <1>3, <3>1, <4>1, <4>2, GroupsStayWhole
    <3>3. e.todo \cup Queued(e) \cup Readable = Readable
      BY <1>3, <1>4, <3>1
    <3>4. QED
      BY <1>3, <2>1, <3>1, <3>2, <3>3 DEF RestoreOk
  <2>4. QED
    BY <1>3, <2>2, <2>3
<1>8. Good(e) /\ e.stage # "off"
  BY <1>3, <1>5, <1>6, <1>7 DEF Good
<1>9. UpdatedState(e) \in CollectorState /\ Alike(e, UpdatedState(e))
  BY <1>2, UpdatedIs
<1>10. Good(UpdatedState(e))
  BY <1>2, <1>8, <1>9, AlikeIsGood
<1>11. UpdatedState(e).writer = c.writer
  BY <1>3, <1>9 DEF Alike
<1>12. QED
  BY <1>9, <1>10, <1>11, Zenon DEF e

(* Both files at once, because a live row is about to be accepted. *)
LEMMA RestoredNowIsGood ==
    ASSUME PersistInv, NEW p \in Collectors, coll[p].stage # "off"
    PROVE  LET d == RestoredNow(coll[p])
           IN  /\ d \in CollectorState /\ Good(d) /\ d.writer = coll[p].writer
               /\ d.restored /\ d.stage # "off"
<1> DEFINE c == coll[p]
           s == Restored(c, Readable)
           e == [s EXCEPT !.restored = TRUE, !.readOnly = @ \/ ~checkpoint.ok \/ tear # "none"]
<1>1. /\ FilesOk /\ journal \subseteq Row /\ checkpoint.rows \subseteq Row
      /\ Readable = checkpoint.rows \cup journal /\ Readable \subseteq Row
      /\ c \in CollectorState /\ Good(c)
  BY FilesAre
<1>2. CASE c.restored
  BY <1>1, <1>2 DEF RestoredNow
<1>3. CASE ~c.restored
  <2>1. /\ s \in CollectorState /\ s.archive \subseteq c.archive \cup Readable /\ Flat(s.archive)
        /\ c.readOnly => s.readOnly
        /\ ~s.readOnly => /\ ~c.readOnly /\ s.archive = Newest(c.archive \cup Readable)
                          /\ AllKnown(c.archive \cup Readable, s.archive)
        /\ s = [c EXCEPT !.archive = s.archive, !.readOnly = s.readOnly]
    BY <1>1, RestoredIs
  <2>2. RestoredNow(c) = UpdatedState(e)
    BY <1>3 DEF RestoredNow
  <2> HIDE DEF s
  <2>3. e \in CollectorState
    BY <2>1 DEF CollectorState
  <2>4. /\ e.stage = c.stage /\ e.todo = c.todo /\ e.restored = TRUE
        /\ e.archive = s.archive /\ e.pending = c.pending /\ e.live = c.live
        /\ e.writes = c.writes /\ e.renamed = c.renamed /\ e.truncating = c.truncating
        /\ e.status = c.status /\ e.writer = c.writer /\ e.closed = c.closed
        /\ e.readOnly = (s.readOnly \/ ~checkpoint.ok \/ tear # "none")
        /\ c.archive \subseteq Row /\ c.todo \subseteq Row /\ c.pending \subseteq Row
        /\ s.archive \subseteq Row
    BY <1>1, <2>1 DEF CollectorState
  <2> HIDE DEF e
  <2>5. Queued(e) = Queued(c) /\ Held(e) \subseteq Held(c) \cup Readable
        /\ (c.writes = <<>> => Queued(c) = {})
    BY <1>1, <2>1, <2>3, <2>4, QueueIs DEF Held
  <2>6. CollOk(e)
    BY <1>1, <1>3, <2>1, <2>4, <2>5 DEF Good, CollOk, Shaped, FilesOk
  <2>7. ASSUME ~lapsed PROVE WholeLine(e) /\ DurableOk(e) /\ TruncateOk(e)
    <3>1. WholeLine(e)
      BY <2>4 DEF WholeLine, Writes
    <3>2. TruncateOk(e)
      BY <1>1, <1>3, <2>4 DEF TruncateOk, Good, CollOk
    <3>3. e.archive \ e.pending \subseteq (c.archive \ c.pending) \cup Readable
          /\ AllCovered(Readable, Readable)
      BY <1>1, <2>1, <2>4, OwnRows
    <3>4. DurableOk(e)
      BY <1>1, <2>4, <2>7, <3>3 DEF Good, DurableOk, AllCovered
    <3>5. QED
      BY <3>1, <3>2, <3>4
  <2>8. ASSUME ~lapsed PROVE RestoreOk(e)
    <3> SUFFICES ASSUME Writes(e) PROVE RestoreOk(e)
      BY DEF RestoreOk
    <3>1. /\ Writes(c) /\ checkpoint.ok /\ AllKnown(c.archive \cup Readable, s.archive)
          /\ c.writes = <<>> /\ Queued(c) = {}
      BY <1>1, <1>3, <2>1, <2>4, <2>5 DEF Writes, Good, CollOk
    <3>2. c.archive \cup c.todo \subseteq Readable /\ Unique(Held(c) \cup Readable)
      BY <1>1, <1>3, <2>8, <3>1 DEF Good, RestoreOk
    <3>3. Unique(Held(e) \cup Readable)
      BY <2>5, <3>2 DEF Unique
    <3>4. AllKnown(e.todo \cup Queued(e) \cup Readable, e.archive)
      BY <2>4, <2>5, <3>1, <3>2 DEF AllKnown
    <3>5. AllKnown(checkpoint.rows \cup journal, s.archive) /\ s.archive \subseteq checkpoint.rows \cup journal
      BY <1>1, <2>1, <3>1, <3>2 DEF AllKnown
    <3>6. Flat(checkpoint.rows) /\ WholeGroups(checkpoint.rows) /\ \A r \in journal : r.exec \in Responses
      BY <2>8 DEF PersistInv, FilesOk
    <3>7. WholeGroups(e.archive)
      BY <1>1, <2>1, <2>4, <3>5, <3>6, GroupsStayWhole
    <3>8. QED
      BY <2>4, <3>3, <3>4, <3>7 DEF RestoreOk
  <2>9. Good(e) /\ e.stage # "off"
    BY <2>4, <2>6, <2>7, <2>8 DEF Good
  <2>10. QED
    BY <2>2, <2>3, <2>4, <2>9, UpdatedIs, AlikeIsGood DEF Alike
<1>4. QED
  BY <1>2, <1>3

(* A batch of one execution that is newer than what is known of it. *)
LEMMA RowsAre ==
    ASSUME NEW e \in Origins, NEW P \in (SUBSET Parts) \ {{}}, NEW n \in 1 .. MaxRevision,
           NEW origin \in {"unassigned", "turn"}, e \in Responses => P = {ThePart}
    PROVE  /\ Rows(e, P, n, origin) \subseteq Row /\ Rows(e, P, n, origin) # {}
           /\ \A r \in Rows(e, P, n, origin) : r.exec = e /\ r.rev = n /\ r.batch = P
           /\ {r.part : r \in Rows(e, P, n, origin)} = P
           /\ Unique(Rows(e, P, n, origin)) /\ Shaped(Rows(e, P, n, origin))
<1> DEFINE B == Rows(e, P, n, origin)
<1>1. \A r \in B : r.exec = e /\ r.rev = n /\ r.batch = P /\ r.part \in P /\ r.origin = origin
  BY DEF Rows
<1>2. B \subseteq Row
  BY DEF Rows, Row
<1>3. ASSUME NEW part \in P PROVE \E r \in B : r.part = part
  <2>1. [exec |-> e, part |-> part, rev |-> n, origin |-> origin, batch |-> P] \in B
    BY DEF Rows
  <2>2. QED
    BY <2>1
<1>4. Unique(B)
  BY DEF Rows, Unique, SameRow
<1> HIDE DEF B
<1>5. {r.part : r \in B} = P
  BY <1>1, <1>3
<1>6. Shaped(B)
  BY <1>1 DEF Shaped
<1>7. QED
  BY <1>1, <1>2, <1>3, <1>4, <1>5, <1>6 DEF B

(* A batch that a collector may accept, and what accepting it leaves alone. *)
MayAccept(c, e, P, n, origin) ==
    /\ c \in CollectorState /\ Good(c) /\ c.restored /\ c.stage # "off"
    /\ e \in Origins /\ P \in (SUBSET Parts) \ {{}} /\ n \in 1 .. MaxRevision
    /\ origin \in {"unassigned", "turn"} /\ (e \in Responses => P = {ThePart})
    /\ \A r \in Rows(e, P, n, origin) : \A q \in c.archive : q.exec = r.exec => q.rev < r.rev
GoesOnAs(c, d) == d \in CollectorState /\ Good(d) /\ d.writer = c.writer /\ d.stage = c.stage

LEMMA AcceptedIsGood ==
    ASSUME PersistInv, NEW c, NEW e, NEW P, NEW n, NEW origin, MayAccept(c, e, P, n, origin)
    PROVE  GoesOnAs(c, Accepted(c, Rows(e, P, n, origin)))
<1> SUFFICES ASSUME c \in CollectorState, Good(c), c.restored, c.stage # "off",
                    e \in Origins, P \in (SUBSET Parts) \ {{}}, n \in 1 .. MaxRevision,
                    origin \in {"unassigned", "turn"}, e \in Responses => P = {ThePart},
                    \A r \in Rows(e, P, n, origin) : \A q \in c.archive : q.exec = r.exec => q.rev < r.rev
             PROVE  LET d == Accepted(c, Rows(e, P, n, origin))
                    IN  d \in CollectorState /\ Good(d) /\ d.writer = c.writer /\ d.stage = c.stage
  BY DEF MayAccept, GoesOnAs
<1> DEFINE B == Rows(e, P, n, origin)
           lone == Cardinality(B) = 1 /\ \A r \in B : r.exec \in Responses
           waits == \E i \in DOMAIN c.writes : c.writes[i] = Checkpoint
           W == IF lone THEN Append(c.writes, {CHOOSE r \in B : TRUE})
                ELSE IF waits THEN c.writes ELSE Append(c.writes, Checkpoint)
           A == Newest(c.archive \cup B)
           pend == (c.pending \cup B) \cap A
           f == [c EXCEPT !.archive = A, !.writes = W, !.pending = pend]
           d == UpdatedState(f)
<1>1. /\ FilesOk /\ journal \subseteq Row /\ checkpoint.rows \subseteq Row
      /\ Readable = checkpoint.rows \cup journal /\ Readable \subseteq Row
      /\ c.archive \subseteq Row /\ c.todo \subseteq Row /\ c.pending \subseteq Row
      /\ c.writes \in Seq(SUBSET Row)
  BY FilesAre DEF CollectorState
<1>2. Accepted(c, B) = UpdatedState(f)
  BY DEF Accepted, f, W, A, lone, waits, pend
<1>3. /\ B \subseteq Row /\ B # {} /\ (\A r \in B : r.exec = e /\ r.rev = n /\ r.batch = P)
      /\ {r.part : r \in B} = P /\ Unique(B) /\ Shaped(B)
      /\ n \in Nat
  <2>1. n \in Nat
    BY PersistAssumption
  <2>2. /\ Rows(e, P, n, origin) \subseteq Row /\ Rows(e, P, n, origin) # {}
        /\ \A r \in Rows(e, P, n, origin) : r.exec = e /\ r.rev = n /\ r.batch = P
        /\ {r.part : r \in Rows(e, P, n, origin)} = P
        /\ Unique(Rows(e, P, n, origin)) /\ Shaped(Rows(e, P, n, origin))
    BY RowsAre
  <2>3. QED
    BY <2>1, <2>2
<1>4. \A r \in B, q \in c.archive : q.exec = r.exec => q.rev < r.rev
  OBVIOUS
<1> HIDE DEF B
<1>5. A \subseteq c.archive \cup B /\ Flat(A) /\ AllKnown(c.archive \cup B, A)
      /\ c.archive \cup B \subseteq Row /\ A \subseteq Row
  BY <1>1, <1>3, NewestIs, c.archive \cup B \subseteq Row
<1>6. \A r \in A : r \in B \/ (r \in c.archive /\ r.exec # e)
  BY <1>1, <1>3, <1>4, RowFields DEF Newest
<1>7. \A r \in c.archive : r.exec # e => r \in A
  <2> SUFFICES ASSUME NEW r \in c.archive, r.exec # e PROVE r \in A
    OBVIOUS
  <2>1. PICK q \in A : q.exec = r.exec /\ (q = r \/ q.rev > r.rev)
    BY <1>5 DEF AllKnown, KnownTo
  <2>2. q \in c.archive
    BY <1>3, <1>5, <2>1
  <2>3. q.rev = r.rev \/ ~Flat(c.archive)
    BY <2>1, <2>2 DEF Flat
  <2>4. r.rev \in Nat /\ q.rev \in Nat
    BY <1>1, <2>2, RowFields
  <2>5. QED
    BY <2>1, <2>3, <2>4 DEF Good, CollOk
<1>8. B \subseteq A
  BY <1>1, <1>3, <1>4, RowFields DEF Newest
<1>9. lone => {CHOOSE r \in B : TRUE} \subseteq B /\ {CHOOSE r \in B : TRUE} \in SUBSET Row
  BY <1>3
<1>10. W \in Seq(SUBSET Row)
  <2>1. Append(c.writes, {}) \in Seq(SUBSET Row)
    BY <1>1
  <2>2. lone => Append(c.writes, {CHOOSE r \in B : TRUE}) \in Seq(SUBSET Row)
    BY <1>1, <1>9
  <2> HIDE DEF lone, waits
  <2>3. QED
    BY <1>1, <2>1, <2>2 DEF Checkpoint
<1> DEFINE one == {CHOOSE r \in B : TRUE}
<1>11. \/ lone /\ W = Append(c.writes, one)
       \/ W = c.writes
       \/ W = Append(c.writes, {})
  BY DEF Checkpoint
<1> HIDE DEF W, A, waits, one
<1>12. pend \in SUBSET Row /\ pend = (c.pending \cup B) \cap A
  BY <1>1, <1>5
<1> HIDE DEF pend
<1>13. f \in CollectorState
  BY <1>5, <1>10, <1>12 DEF CollectorState
<1>14. /\ f.stage = c.stage /\ f.todo = c.todo /\ f.restored = c.restored
       /\ f.archive = A /\ f.pending = pend /\ f.live = c.live
       /\ f.writes = W /\ f.renamed = c.renamed /\ f.truncating = c.truncating
       /\ f.status = c.status /\ f.readOnly = c.readOnly /\ f.writer = c.writer
       /\ f.closed = c.closed
  BY DEF CollectorState
<1> HIDE DEF f
<1>15. d \in CollectorState /\ Alike(f, d)
  BY <1>13, UpdatedIs
<1>16. d \in CollectorState
  BY <1>15
<1> HIDE DEF d
<1>17. /\ d.stage = c.stage /\ d.todo = c.todo /\ d.restored = c.restored
       /\ d.archive = A /\ d.pending = pend
       /\ d.writes = W /\ d.renamed = c.renamed /\ d.truncating = c.truncating
       /\ d.status = c.status /\ d.readOnly = c.readOnly /\ d.writer = c.writer
  BY <1>14, <1>15 DEF Alike
<1>18. Queued(c) \subseteq Row
       /\ Queued(d) \subseteq Queued(c) \cup (IF lone THEN B ELSE {})
  <2>1. CASE lone /\ W = Append(c.writes, one)
    <3>1. one \in SUBSET Row /\ one \subseteq B
      BY <1>9, <2>1 DEF one
    <3>2. QED
      BY <1>16, <1>17, <2>1, <3>1, QueueIs
  <2>2. CASE W = c.writes
    BY <1>16, <1>17, <2>2, QueueIs
  <2>3. CASE W = Append(c.writes, {})
    BY <1>16, <1>17, <2>3, QueueIs
  <2>4. QED
    BY <1>11, <2>1, <2>2, <2>3
<1>19. lone => \A r \in B : r.exec \in Responses
  OBVIOUS
<1> HIDE DEF lone
<1>20. Held(d) \subseteq Held(c) \cup B
  BY <1>5, <1>17, <1>18 DEF Held
<1>21. CollOk(d)
  BY <1>3, <1>5, <1>17, <1>18, <1>19, <1>20 DEF Good, CollOk, Shaped
<1>22. d.archive \ d.pending \subseteq c.archive \ c.pending
  BY <1>5, <1>12, <1>17
<1>23. ASSUME ~lapsed PROVE WholeLine(d) /\ DurableOk(d) /\ TruncateOk(d)
  <2>1. WholeLine(d)
    BY <1>17, <1>23 DEF Good, WholeLine, Writes
  <2>2. DurableOk(d)
    BY <1>17, <1>22, <1>23 DEF Good, DurableOk, AllCovered
  <2>3. TruncateOk(d)
    BY <1>17, <1>22, <1>23 DEF Good, TruncateOk, AllCovered
  <2>4. QED
    BY <2>1, <2>2, <2>3
<1>24. ASSUME ~lapsed PROVE RestoreOk(d)
  <2> SUFFICES ASSUME Writes(d) PROVE RestoreOk(d)
    BY DEF RestoreOk
  <2>1. /\ Writes(c) /\ Unique(Held(c) \cup Readable)
        /\ AllKnown(c.todo \cup Queued(c) \cup Readable, c.archive)
        /\ checkpoint.ok => WholeGroups(c.archive)
    BY <1>17, <1>24 DEF Writes, Good, RestoreOk
  <2>2. AllKnown(Held(c) \cup Readable, c.archive)
    BY <1>1, <2>1, OwnRows DEF Held, AllKnown
  <2>3. Held(c) \cup Readable \subseteq Row
    BY <1>1, <1>18 DEF Held
  <2>4. \A x \in Held(c) \cup Readable : \A r \in B : x.exec = r.exec => x.rev < r.rev
    <3> SUFFICES ASSUME NEW x \in Held(c) \cup Readable, NEW r \in B, x.exec = r.exec
                 PROVE  x.rev < r.rev
      OBVIOUS
    <3>1. PICK q \in c.archive : q.exec = x.exec /\ (q = x \/ q.rev > x.rev)
      BY <2>2 DEF AllKnown, KnownTo
    <3>2. q.rev < r.rev /\ q.rev \in Nat /\ x.rev \in Nat /\ r.rev \in Nat
      BY <1>1, <1>3, <1>4, <2>3, <3>1, RowFields
    <3>3. QED
      BY <3>1, <3>2
  <2>5. \A x, r \in Row : x.rev < r.rev => x.rev # r.rev
    BY RowFields
  <2>6. Unique(Held(c) \cup Readable \cup B)
    <3> SUFFICES ASSUME NEW x \in Held(c) \cup Readable \cup B, NEW y \in Held(c) \cup Readable \cup B,
                        SameRow(x, y)
                 PROVE  x = y
      BY DEF Unique
    <3>1. CASE x \in B /\ y \in B
      BY <1>3, <3>1 DEF Unique
    <3>2. CASE x \in Held(c) \cup Readable /\ y \in Held(c) \cup Readable
      BY <2>1, <3>2 DEF Unique
    <3>3. CASE x \in Held(c) \cup Readable /\ y \in B
      BY <1>3, <2>3, <2>4, <2>5, <3>3 DEF SameRow
    <3>4. CASE x \in B /\ y \in Held(c) \cup Readable
      BY <1>3, <2>3, <2>4, <2>5, <3>4 DEF SameRow
    <3>5. QED
      BY <3>1, <3>2, <3>3, <3>4
  <2>7. Unique(Held(d) \cup Readable)
    BY <1>20, <2>6 DEF Unique
  <2>8. AllKnown(c.todo \cup Queued(c) \cup Readable, A)
    <3>1. AllKnown(c.archive, A)
      BY <1>5 DEF AllKnown
    <3>2. QED
      BY <1>1, <1>5, <1>18, <2>1, <3>1, KnownThrough, c.todo \cup Queued(c) \cup Readable \subseteq Row
  <2>9. AllKnown(d.todo \cup Queued(d) \cup Readable, d.archive)
    BY <1>5, <1>17, <1>18, <2>8 DEF AllKnown
  <2>10. ASSUME checkpoint.ok PROVE WholeGroups(A)
    <3> SUFFICES ASSUME NEW r \in A, r.exec \in Groups PROVE PartsOf(r.exec, A) = r.batch
      BY DEF WholeGroups
    <3>1. CASE r.exec = e
      <4>1. {q \in A : q.exec = r.exec} = B
        BY <1>3, <1>6, <1>8, <3>1
      <4>2. PartsOf(r.exec, A) = {q.part : q \in B}
        BY <4>1, Zenon DEF PartsOf
      <4>3. r \in B
        BY <1>6, <3>1
      <4>4. QED
        BY <1>3, <4>2, <4>3
    <3>2. CASE r.exec # e
      <4>1. {q \in A : q.exec = r.exec} = {q \in c.archive : q.exec = r.exec}
        BY <1>3, <1>5, <1>6, <1>7, <3>2
      <4>2. PartsOf(r.exec, A) = PartsOf(r.exec, c.archive)
        BY <4>1, Zenon DEF PartsOf
      <4>3. r \in c.archive
        BY <1>3, <1>6, <3>2
      <4>4. QED
        BY <2>1, <2>10, <4>2, <4>3 DEF WholeGroups
    <3>3. QED
      BY <3>1, <3>2
  <2>11. QED
    BY <1>17, <2>7, <2>9, <2>10 DEF RestoreOk
<1>25. QED
  BY <1>2, <1>16, <1>17, <1>21, <1>23, <1>24 DEF Good, d, B

LEMMA ClosedIsGood ==
    ASSUME PersistInv, NEW c \in CollectorState, Good(c), c.stage # "off"
    PROVE  LET d == [c EXCEPT !.closed = TRUE, !.todo = {}, !.readOnly = @ \/ ~c.restored,
                              !.writes = Append(@, Checkpoint)]
           IN  d \in CollectorState /\ Good(d) /\ d.writer = c.writer
<1> DEFINE W == Append(c.writes, Checkpoint)
           d == [c EXCEPT !.closed = TRUE, !.todo = {}, !.readOnly = @ \/ ~c.restored, !.writes = W]
<1>1. W \in Seq(SUBSET Row) /\ W = Append(c.writes, {})
  BY DEF CollectorState, Checkpoint
<1> HIDE DEF W
<1>2. d \in CollectorState
  BY <1>1 DEF CollectorState
<1>3. /\ d.stage = c.stage /\ d.todo = {} /\ d.restored = c.restored
      /\ d.archive = c.archive /\ d.pending = c.pending /\ d.live = c.live
      /\ d.writes = W /\ d.renamed = c.renamed /\ d.truncating = c.truncating
      /\ d.status = c.status /\ d.readOnly = (c.readOnly \/ ~c.restored) /\ d.writer = c.writer
  BY DEF CollectorState
<1> HIDE DEF d
<1>4. Queued(d) \subseteq Queued(c) /\ Held(d) \subseteq Held(c)
  <2>1. Queued(d) \subseteq Queued(c) \cup {}
    BY <1>1, <1>2, <1>3, QueueIs
  <2>2. QED
    BY <1>3, <2>1 DEF Held
<1>5. CollOk(d)
  BY <1>3, <1>4 DEF Good, CollOk, Shaped
<1>6. ASSUME ~lapsed PROVE WholeLine(d) /\ DurableOk(d) /\ TruncateOk(d)
  BY <1>3, <1>6 DEF Good, WholeLine, Writes, DurableOk, TruncateOk, AllCovered
<1>7. ASSUME ~lapsed PROVE RestoreOk(d)
  <2> SUFFICES ASSUME Writes(d) PROVE RestoreOk(d)
    BY DEF RestoreOk
  <2>1. Writes(c) /\ c.restored
    BY <1>3 DEF Writes
  <2>2. Unique(Held(d) \cup Readable)
    BY <1>4, <1>7, <2>1 DEF Good, RestoreOk, Unique
  <2>3. AllKnown(d.todo \cup Queued(d) \cup Readable, d.archive)
    BY <1>3, <1>4, <1>7, <2>1 DEF Good, RestoreOk, AllKnown
  <2>4. QED
    BY <1>3, <1>7, <2>1, <2>2, <2>3 DEF Good, RestoreOk
<1>8. QED
  BY <1>2, <1>3, <1>5, <1>6, <1>7 DEF Good, d, W

-----------------------------------------------------------------------------
(* Steps *)

(* What can be read stays readable. *)
StillReadable ==
    ~lapsed' => /\ checkpoint'.ok => AllCovered(Readable, Readable')
                /\ ~checkpoint.ok => checkpoint' = checkpoint

LEMMA SameFiles ==
    ASSUME PersistInv, UNCHANGED <<checkpoint, journal>>
    PROVE  StillReadable /\ Readable' = Readable
<1>1. Readable' = Readable
  BY DEF Readable
<1>2. QED
  BY <1>1, FilesAre, OwnRows DEF StillReadable

(* A collector that is as good as before under the same files is good. *)
LEMMA SameFilesGood ==
    ASSUME UNCHANGED <<checkpoint, journal, tear, lapsed>>, NEW q \in Collectors, Good(coll'[q])
    PROVE  Good(coll[q])'
<1>1. Readable' = Readable
  BY DEF Readable
<1>2. CollOk(coll[q])'
  BY DEF Good, CollOk, Held, Queued
<1>3. ~lapsed => WholeLine(coll[q])' /\ DurableOk(coll[q])' /\ TruncateOk(coll[q])'
  BY <1>1 DEF Good, WholeLine, Writes, DurableOk, TruncateOk
<1>4. ~lapsed => RestoreOk(coll[q])'
  BY <1>1 DEF Good, RestoreOk, Held, Queued, Writes
<1>5. QED
  BY <1>2, <1>3, <1>4 DEF Good

(* A reader under files that a writer changed. *)
LEMMA ReaderGood ==
    ASSUME PersistInv, NEW q \in Collectors, coll'[q] = coll[q], lapsed' = lapsed,
           ~lapsed => /\ ~coll[q].writer
                      /\ checkpoint'.ok => checkpoint.ok /\ AllCovered(Readable, Readable'),
           Readable' \subseteq Row
    PROVE  Good(coll[q])'
<1>1. Good(coll[q]) /\ Readable \subseteq Row /\ coll[q] \in CollectorState
  BY FilesAre
<1>2. CollOk(coll[q])'
  BY <1>1 DEF Good, CollOk, Held, Queued
<1>3. ~lapsed => WholeLine(coll[q])' /\ TruncateOk(coll[q])' /\ RestoreOk(coll[q])'
  BY <1>1 DEF Good, CollOk, WholeLine, TruncateOk, RestoreOk, Writes
<1>4. ASSUME ~lapsed PROVE DurableOk(coll[q])'
  <2> SUFFICES ASSUME checkpoint'.ok
               PROVE  AllCovered(coll[q].todo, Readable')
                      /\ AllCovered(coll[q].archive \ coll[q].pending, Readable')
    BY DEF DurableOk
  <2>1. AllCovered(coll[q].todo, Readable) /\ AllCovered(coll[q].archive \ coll[q].pending, Readable)
    BY <1>1, <1>4 DEF Good, DurableOk
  <2>2. coll[q].todo \subseteq Row /\ coll[q].archive \ coll[q].pending \subseteq Row
    BY <1>1 DEF CollectorState
  <2>3. AllCovered(Readable, Readable')
    BY <1>4
  <2>4. QED
    BY <1>1, <2>1, <2>2, <2>3, CoveredThrough
<1>5. QED
  BY <1>2, <1>3, <1>4 DEF Good

Counters ==
    /\ starts \in 0 .. MaxStarts /\ accepts \in 0 .. MaxAccepts /\ faults \in 0 .. MaxFaults

(* A step of one collector that leaves the files alone. *)
LEMMA OwnStep ==
    ASSUME PersistInv, NEW p \in Collectors, NEW d \in CollectorState, Good(d),
           d.writer = coll[p].writer, coll' = [coll EXCEPT ![p] = d],
           UNCHANGED <<checkpoint, journal, tear, lease, kept, lapsed>>, Counters'
    PROVE  PersistInv' /\ StillReadable
<1>1. coll \in [Collectors -> CollectorState] /\ \A q \in Collectors : Good(coll[q])
  BY FilesAre
<1>2. coll' \in [Collectors -> CollectorState]
      /\ \A q \in Collectors : coll'[q] = IF q = p THEN d ELSE coll[q]
  BY <1>1
<1>3. \A q \in Collectors : Good(coll'[q])
  BY <1>1, <1>2
<1>4. \A q \in Collectors : Good(coll[q])'
  BY <1>3, SameFilesGood
<1>5. Readable' = Readable /\ StillReadable
  BY SameFiles
<1>6. \A q \in Collectors : coll'[q].renamed # {} => coll'[q].truncating
  BY <1>3 DEF Good, CollOk
<1>7. PersistTypeOK'
  BY <1>2, <1>6 DEF PersistInv, PersistTypeOK, Counters
<1>8. FilesOk'
  BY DEF PersistInv, FilesOk
<1>9. ~lapsed => Unique(Readable') /\ WholeGroups(checkpoint'.rows) /\ \A q \in Collectors : LeaseOk(q)'
  BY <1>2, <1>5 DEF PersistInv, LeaseOk
<1>10. QED
  BY <1>4, <1>5, <1>7, <1>8, <1>9 DEF PersistInv

(* A step of one collector that has the lease and changes the files. *)
LEMMA WriterStep ==
    ASSUME PersistInv, NEW p \in Collectors, coll[p].writer,
           NEW d \in CollectorState, coll' = [coll EXCEPT ![p] = d], d.writer,
           UNCHANGED <<lease, kept, lapsed>>, Counters',
           checkpoint' \in [ok : BOOLEAN, rows : SUBSET Row], journal' \in SUBSET Row,
           tear' \in {"none", "cut", "fault"}, checkpoint'.ok = checkpoint.ok,
           ~checkpoint.ok => checkpoint' = checkpoint,
           FilesOk', Good(coll[p])',
           ~lapsed => /\ Unique(Readable') /\ WholeGroups(checkpoint'.rows)
                      /\ checkpoint.ok => AllCovered(Readable, Readable')
    PROVE  PersistInv' /\ StillReadable
<1>1. coll \in [Collectors -> CollectorState]
  BY FilesAre
<1>2. coll' \in [Collectors -> CollectorState]
      /\ \A q \in Collectors : coll'[q] = IF q = p THEN d ELSE coll[q]
  BY <1>1
<1>3. Readable' \subseteq Row
  BY DEF Readable
<1>4. ~lapsed => \A q \in Collectors \ {p} : ~coll[q].writer
  BY DEF PersistInv, LeaseOk
<1>5. \A q \in Collectors : Good(coll[q])'
  <2> SUFFICES ASSUME NEW q \in Collectors, q # p PROVE Good(coll[q])'
    OBVIOUS
  <2>1. coll'[q] = coll[q] /\ (~lapsed => ~coll[q].writer)
    BY <1>2, <1>4
  <2>2. QED
    BY <1>3, <2>1, ReaderGood
<1>6. \A q \in Collectors : coll'[q].renamed # {} => coll'[q].truncating
  BY <1>5 DEF Good, CollOk
<1>7. lease \in Collectors \cup {Nobody} /\ kept \in BOOLEAN /\ lapsed \in BOOLEAN
  BY DEF PersistInv, PersistTypeOK
<1>8. PersistTypeOK'
  BY <1>2, <1>6, <1>7 DEF PersistTypeOK, Counters
<1>9. ~lapsed => \A q \in Collectors : LeaseOk(q)'
  BY <1>2 DEF PersistInv, LeaseOk
<1>10. StillReadable
  BY DEF StillReadable
<1>11. QED
  BY <1>5, <1>8, <1>9, <1>10 DEF PersistInv

LEMMA CountsAre ==
    ASSUME PersistInv
    PROVE  Counters /\ MaxStarts \in Nat /\ MaxAccepts \in Nat /\ MaxFaults \in Nat
BY PersistAssumption DEF PersistInv, PersistTypeOK, Counters

LEMMA RestoreSliceStep ==
    ASSUME PersistInv, NEW p \in Collectors, RestoreSlice(p)
    PROVE  PersistInv' /\ StillReadable
<1>1. PICK r \in coll[p].todo :
         coll' = [coll EXCEPT ![p] = [Restored(coll[p], {r}) EXCEPT !.todo = @ \ {r}]]
  BY DEF RestoreSlice
<1> DEFINE d == [Restored(coll[p], {r}) EXCEPT !.todo = @ \ {r}]
<1>2. d \in CollectorState /\ Good(d) /\ d.writer = coll[p].writer
  BY SliceIsGood DEF RestoreSlice
<1>3. coll' = [coll EXCEPT ![p] = d]
  BY <1>1
<1> HIDE DEF d
<1>4. UNCHANGED <<checkpoint, journal, tear, lease, kept, lapsed>> /\ Counters'
  BY CountsAre DEF RestoreSlice, Counters
<1>5. QED
  BY <1>2, <1>3, <1>4, OwnStep

LEMMA RestoreJournalStep ==
    ASSUME PersistInv, NEW p \in Collectors, RestoreJournal(p)
    PROVE  PersistInv' /\ StillReadable
<1> DEFINE d == [coll[p] EXCEPT !.stage = "journal", !.todo = journal,
                                !.readOnly = @ \/ tear # "none"]
<1>1. d \in CollectorState /\ Good(d) /\ d.writer = coll[p].writer
  BY JournalReadIsGood DEF RestoreJournal
<1>2. coll' = [coll EXCEPT ![p] = d]
  BY DEF RestoreJournal
<1> HIDE DEF d
<1>3. UNCHANGED <<checkpoint, journal, tear, lease, kept, lapsed>> /\ Counters'
  BY CountsAre DEF RestoreJournal, Counters
<1>4. QED
  BY <1>1, <1>2, <1>3, OwnStep

LEMMA RestoreEndStep ==
    ASSUME PersistInv, NEW p \in Collectors, RestoreEnd(p)
    PROVE  PersistInv' /\ StillReadable
<1> DEFINE d == UpdatedState([coll[p] EXCEPT !.stage = "live", !.restored = TRUE])
<1>1. coll[p] \in CollectorState /\ Good(coll[p])
  BY FilesAre
<1>2. d \in CollectorState /\ Good(d) /\ d.writer = coll[p].writer
  BY <1>1, ReadIsGood DEF RestoreEnd
<1>3. coll' = [coll EXCEPT ![p] = d]
  BY DEF RestoreEnd
<1> HIDE DEF d
<1>4. UNCHANGED <<checkpoint, journal, tear, lease, kept, lapsed>> /\ Counters'
  BY CountsAre DEF RestoreEnd, Counters
<1>5. QED
  BY <1>2, <1>3, <1>4, OwnStep

LEMMA AcceptsStep ==
    ASSUME PersistInv, NEW p \in Collectors,
           NEW e \in Origins, NEW P \in (SUBSET Parts) \ {{}}, NEW n \in 1 .. MaxRevision,
           NEW origin \in {"unassigned", "turn"}, e \in Responses => P = {ThePart},
           NEW live \in SUBSET Responses, Accepts(p, Rows(e, P, n, origin), live)
    PROVE  PersistInv' /\ StillReadable
<1> DEFINE c == RestoredNow(coll[p])
           a == Accepted(c, Rows(e, P, n, origin))
           d == [a EXCEPT !.live = live]
<1>1. /\ coll[p].stage # "off" /\ accepts < MaxAccepts /\ accepts' = accepts + 1
      /\ coll' = [coll EXCEPT ![p] = d]
      /\ UNCHANGED <<checkpoint, journal, tear, lease, kept, starts, lapsed, faults>>
  BY DEF Accepts
<1>2. \A r \in Rows(e, P, n, origin) : \A q \in c.archive : q.exec = r.exec => q.rev < r.rev
  BY DEF Accepts
<1>3. /\ c \in CollectorState /\ Good(c) /\ c.writer = coll[p].writer
      /\ c.restored /\ c.stage # "off"
  BY <1>1, RestoredNowIsGood
<1> HIDE DEF c
<1>4. a \in CollectorState /\ Good(a) /\ a.writer = c.writer /\ a.stage = c.stage
  <2>1. MayAccept(c, e, P, n, origin)
    BY <1>2, <1>3 DEF MayAccept
  <2>2. GoesOnAs(c, a)
    BY <2>1, AcceptedIsGood
  <2>3. QED
    BY <2>2 DEF GoesOnAs
<1> HIDE DEF a
<1>5. d \in CollectorState /\ Alike(a, d)
  BY <1>4 DEF CollectorState, Alike
<1> HIDE DEF d
<1>6. Good(d) /\ d.writer = coll[p].writer
  BY <1>3, <1>4, <1>5, AlikeIsGood DEF Alike
<1>7. Counters'
  BY <1>1, CountsAre DEF Counters
<1>8. QED
  BY <1>1, <1>5, <1>6, <1>7, OwnStep

LEMMA AcceptResponseStep ==
    ASSUME PersistInv, NEW p \in Collectors, AcceptResponse(p)
    PROVE  PersistInv' /\ StillReadable
<1>1. PICK e \in Responses : Accepts(p, Rows(e, {ThePart}, 1, "unassigned"), coll[p].live \cup {e})
  BY DEF AcceptResponse, ThePart
<1>2. ThePart \in Parts
  BY PersistAssumption DEF ThePart
<1>3. coll[p].live \cup {e} \in SUBSET Responses
  BY FilesAre DEF CollectorState
<1>4. 1 \in 1 .. MaxRevision
  BY PersistAssumption
<1>5. e \in Origins /\ {ThePart} \in (SUBSET Parts) \ {{}}
  BY <1>2 DEF Origins
<1>6. QED
  BY <1>1, <1>3, <1>4, <1>5, AcceptsStep

LEMMA AcceptSnapshotStep ==
    ASSUME PersistInv, NEW p \in Collectors, AcceptSnapshot(p)
    PROVE  PersistInv' /\ StillReadable
<1>1. PICK e \in Groups, P \in Breakdowns, n \in 1 .. MaxRevision :
         Accepts(p, Rows(e, P, n, "turn"), coll[p].live)
  BY DEF AcceptSnapshot
<1>2. coll[p].live \in SUBSET Responses
  BY FilesAre DEF CollectorState
<1>3. e \in Origins /\ e \notin Responses /\ P \in (SUBSET Parts) \ {{}}
  BY PersistAssumption DEF Origins
<1>4. QED
  BY <1>1, <1>2, <1>3, AcceptsStep

LEMMA BackfillStep ==
    ASSUME PersistInv, NEW p \in Collectors, Backfill(p)
    PROVE  PersistInv' /\ StillReadable
<1>1. PICK e \in coll[p].live : \E r \in coll[p].archive :
         /\ r.exec = e /\ r.origin = "unassigned" /\ Revision(coll[p].archive) < MaxRevision
         /\ Accepts(p, Rows(e, r.batch, Revision(coll[p].archive) + 1, "turn"), coll[p].live \ {e})
  BY DEF Backfill
<1>2. PICK r \in coll[p].archive :
         /\ r.exec = e /\ r.origin = "unassigned" /\ Revision(coll[p].archive) < MaxRevision
         /\ Accepts(p, Rows(e, r.batch, Revision(coll[p].archive) + 1, "turn"), coll[p].live \ {e})
  BY <1>1
<1>3. coll[p] \in CollectorState /\ Good(coll[p])
  BY FilesAre
<1>4. coll[p].archive \subseteq Row /\ coll[p].live \ {e} \in SUBSET Responses /\ e \in Responses
  BY <1>3 DEF CollectorState
<1>5. r.batch = {ThePart} /\ ThePart \in Parts
  BY <1>2, <1>3, <1>4, PersistAssumption DEF Good, CollOk, Shaped, Held, ThePart
<1>6. Revision(coll[p].archive) + 1 \in 1 .. MaxRevision
  BY <1>2, <1>4, RevisionIs, PersistAssumption
<1>7. e \in Origins /\ r.batch \in (SUBSET Parts) \ {{}}
  BY <1>4, <1>5 DEF Origins
<1>8. QED
  BY <1>2, <1>4, <1>5, <1>6, <1>7, AcceptsStep

LEMMA CollectorCloseStep ==
    ASSUME PersistInv, NEW p \in Collectors, CollectorClose(p)
    PROVE  PersistInv' /\ StillReadable
<1> DEFINE c == coll[p]
           d == [c EXCEPT !.closed = TRUE, !.todo = {}, !.readOnly = @ \/ ~c.restored,
                          !.writes = Append(@, Checkpoint)]
<1>1. c \in CollectorState /\ Good(c) /\ c.stage # "off"
  BY FilesAre DEF CollectorClose
<1>2. d \in CollectorState /\ Good(d) /\ d.writer = c.writer
  BY <1>1, ClosedIsGood
<1>3. coll' = [coll EXCEPT ![p] = d]
  BY DEF CollectorClose
<1> HIDE DEF d
<1>4. UNCHANGED <<checkpoint, journal, tear, lease, kept, lapsed>> /\ Counters'
  BY CountsAre DEF CollectorClose, Counters
<1>5. QED
  BY <1>2, <1>3, <1>4, OwnStep

(* The chain goes on without a write: nothing about the collector gets better. *)
LEMMA WeakerIsGood ==
    ASSUME NEW c \in CollectorState, NEW d \in CollectorState, Good(c), c.stage # "off",
           d.stage = c.stage, d.todo = c.todo, d.restored = c.restored, d.archive = c.archive,
           d.pending = c.pending, d.renamed = c.renamed, d.truncating = c.truncating,
           d.writer = c.writer, c.readOnly => d.readOnly, Queued(d) \subseteq Queued(c),
           c.writes = <<>> => d.writes = <<>>, d.status # "full" => c.status # "full",
           c.truncating => d.status # "full"
    PROVE  Good(d)
<1>1. Held(d) \subseteq Held(c) /\ (Writes(d) => Writes(c))
  BY DEF Held, Writes, CollectorState
<1>2. CollOk(d)
  BY <1>1 DEF Good, CollOk, Shaped, CollectorState
<1>3. ~lapsed => WholeLine(d) /\ DurableOk(d) /\ TruncateOk(d)
  BY <1>1 DEF Good, WholeLine, DurableOk, TruncateOk
<1>4. ~lapsed => RestoreOk(d)
  BY <1>1 DEF Good, RestoreOk, Unique, AllKnown
<1>5. QED
  BY <1>2, <1>3, <1>4 DEF Good

LEMMA PoppedIs ==
    ASSUME PersistInv, NEW p \in Collectors, NextWrite(p) # "none"
    PROVE  /\ coll[p] \in CollectorState /\ Good(coll[p]) /\ coll[p].writes # <<>>
           /\ ~coll[p].truncating /\ coll[p].stage # "off"
           /\ Popped(p) \in CollectorState
           /\ Popped(p) = [coll[p] EXCEPT !.writes = Tail(coll[p].writes)]
           /\ ~Refuses(coll[p]) => /\ coll[p].writer /\ coll[p].restored
                                   /\ ~coll[p].readOnly /\ coll[p].status # "full"
           /\ Refuses(Popped(p)) = Refuses(coll[p])
<1>1. coll[p] \in CollectorState /\ Good(coll[p]) /\ coll[p].writes # <<>> /\ ~coll[p].truncating
  BY FilesAre DEF NextWrite
<1>2. coll[p].stage # "off"
  BY <1>1 DEF Good, CollOk, Stopped
<1>3. Tail(coll[p].writes) \in Seq(SUBSET Row)
  BY <1>1, QueueIs
<1>4. Popped(p) = [coll[p] EXCEPT !.writes = Tail(coll[p].writes)]
  BY <1>1 DEF Popped
<1>5. Popped(p) \in CollectorState
  BY <1>1, <1>3, <1>4 DEF CollectorState
<1>6. Popped(p).readOnly = coll[p].readOnly /\ Popped(p).status = coll[p].status
  BY <1>1, <1>4 DEF CollectorState
<1>7. Refuses(Popped(p)) = Refuses(coll[p])
  BY <1>6 DEF Refuses
<1>8. ~Refuses(coll[p]) => /\ coll[p].writer /\ coll[p].restored
                           /\ ~coll[p].readOnly /\ coll[p].status # "full"
  BY <1>1, <1>2 DEF Refuses, Good, CollOk, CollectorState
<1>9. QED
  BY <1>1, <1>2, <1>4, <1>5, <1>7, <1>8

(* A write that does not happen: the collector goes on as s, a reader if ro. *)
LEMMA NoWriteIsGood ==
    ASSUME PersistInv, NEW p \in Collectors, NextWrite(p) # "none",
           NEW s \in {"memory", "durable", "full"}, NEW ro \in BOOLEAN, coll[p].readOnly => ro,
           s # "full" => coll[p].status # "full"
    PROVE  LET d == UpdatedState([Popped(p) EXCEPT !.readOnly = ro, !.status = s])
           IN  d \in CollectorState /\ Good(d) /\ d.writer = coll[p].writer
<1> DEFINE c == coll[p]
           b == [Popped(p) EXCEPT !.readOnly = ro, !.status = s]
<1>1. /\ c \in CollectorState /\ Good(c) /\ c.writes # <<>> /\ ~c.truncating /\ c.stage # "off"
      /\ Popped(p) = [c EXCEPT !.writes = Tail(c.writes)] /\ Popped(p) \in CollectorState
  BY PoppedIs
<1>2. b \in CollectorState
  BY <1>1 DEF CollectorState
<1>3. /\ b.stage = c.stage /\ b.todo = c.todo /\ b.restored = c.restored
      /\ b.archive = c.archive /\ b.pending = c.pending
      /\ b.writes = Tail(c.writes) /\ b.renamed = c.renamed /\ b.truncating = c.truncating
      /\ b.status = s /\ b.readOnly = ro /\ b.writer = c.writer
      /\ c.readOnly => b.readOnly
      /\ b.status # "full" => c.status # "full"
      /\ c.truncating => b.status # "full"
      /\ c.writes = <<>> => b.writes = <<>>
  BY <1>1 DEF CollectorState
<1>4. c \in CollectorState /\ Good(c) /\ c.writes # <<>> /\ c.stage # "off"
  BY <1>1
<1> HIDE DEF b, c
<1>5. Queued(b) \subseteq Queued(c)
  BY <1>2, <1>3, <1>4, QueueIs
<1>6. Good(b) /\ b.stage # "off"
  BY <1>2, <1>3, <1>4, <1>5, WeakerIsGood
<1>7. UpdatedState(b) \in CollectorState /\ Alike(b, UpdatedState(b))
  BY <1>2, UpdatedIs
<1>8. Good(UpdatedState(b))
  BY <1>2, <1>6, <1>7, AlikeIsGood
<1>9. UpdatedState(b).writer = c.writer
  BY <1>3, <1>7 DEF Alike
<1>10. QED
  BY <1>7, <1>8, <1>9, Zenon DEF b, c

LEMMA CollOkLater ==
    ASSUME NEW p \in Collectors, CollOk(coll'[p])
    PROVE  CollOk(coll[p])'
BY DEF CollOk, Held, Queued

LEMMA AppendRowStep ==
    ASSUME PersistInv, NEW p \in Collectors, AppendRow(p)
    PROVE  PersistInv' /\ StillReadable
<1> DEFINE c == coll[p]
           B == Head(c.writes)
<1>1. /\ c \in CollectorState /\ Good(c) /\ c.writes # <<>> /\ ~c.truncating /\ c.stage # "off"
      /\ Popped(p) \in CollectorState /\ Popped(p) = [c EXCEPT !.writes = Tail(c.writes)]
      /\ ~Refuses(c) => c.writer /\ c.restored /\ ~c.readOnly /\ c.status # "full"
      /\ Refuses(Popped(p)) = Refuses(c) /\ NextWrite(p) # "none"
  BY PoppedIs DEF AppendRow
<1>2. /\ UNCHANGED <<checkpoint, tear, lease, kept, starts, accepts, lapsed, faults>> /\ Counters'
  BY CountsAre DEF AppendRow, Counters
<1>3. CASE ~Refuses(c) /\ JournalHasRoom
  <2> DEFINE b == [Popped(p) EXCEPT !.pending = @ \ B, !.status = "durable"]
             d == UpdatedState(b)
  <2>1. /\ coll' = [coll EXCEPT ![p] = d]
        /\ journal' = IF tear = "none" THEN journal \cup B ELSE journal
    BY <1>1, <1>3 DEF AppendRow, Durable
  <2>2. b \in CollectorState
    BY <1>1 DEF CollectorState
  <2>3. d \in CollectorState /\ Alike(b, d)
    BY <2>2, UpdatedIs
  <2>4. /\ b.stage = c.stage /\ b.todo = c.todo /\ b.restored = c.restored
        /\ b.archive = c.archive /\ b.pending = c.pending \ B
        /\ b.writes = Tail(c.writes) /\ b.renamed = c.renamed /\ b.truncating = c.truncating
        /\ b.status = "durable" /\ b.readOnly = c.readOnly /\ b.writer = c.writer
    BY <1>1 DEF CollectorState
  <2> HIDE DEF b
  <2>5. /\ d.stage = c.stage /\ d.todo = c.todo /\ d.restored = c.restored
        /\ d.archive = c.archive /\ d.pending = c.pending \ B
        /\ d.writes = Tail(c.writes) /\ d.renamed = c.renamed /\ d.truncating = c.truncating
        /\ d.status = "durable" /\ d.readOnly = c.readOnly /\ d.writer = c.writer
    BY <2>3, <2>4 DEF Alike
  <2> HIDE DEF d
  <2>6. Queued(d) \subseteq Queued(c) /\ B \subseteq Queued(c) /\ B \subseteq Row
        /\ Queued(c) \subseteq Row /\ Held(d) \subseteq Held(c)
    BY <1>1, <2>3, <2>5, QueueIs DEF Held
  <2>7. CollOk(d)
    BY <1>1, <1>3, <2>5, <2>6 DEF Good, CollOk, Shaped
  <2>8. /\ checkpoint.rows \subseteq Row /\ journal \subseteq Row /\ Readable = checkpoint.rows \cup journal
        /\ Readable \subseteq Row /\ FilesOk /\ coll \in [Collectors -> CollectorState]
        /\ tear \in {"none", "cut", "fault"} /\ checkpoint \in [ok : BOOLEAN, rows : SUBSET Row]
    BY FilesAre DEF PersistInv, PersistTypeOK
  <2>9. Shaped(B) /\ \A r \in B : r.exec \in Responses
    BY <1>1, <2>6 DEF Good, CollOk, Held, Shaped
  <2> HIDE DEF B
  <2>10. journal \subseteq journal' /\ journal' \subseteq journal \cup B
    BY <2>1
  <2>11. FilesOk'
    BY <1>2, <2>8, <2>9, <2>10 DEF FilesOk, Shaped
  <2>12. Readable' = checkpoint.rows \cup journal'
    BY <1>2, <2>8 DEF FilesOk, Readable
  <2>13. Readable \subseteq Readable' /\ Readable' \subseteq Readable \cup Queued(c)
    BY <2>6, <2>8, <2>10, <2>12
  <2>14. coll'[p] = d
    BY <2>1, <2>8
  <2>15. CollOk(coll[p])'
    BY <2>7, <2>14, CollOkLater
  <2>16. AllCovered(Readable, Readable')
    BY <2>8, <2>13, OwnRows
  <2>17. ASSUME ~lapsed
         PROVE  Unique(Readable') /\ WholeGroups(checkpoint'.rows)
    <3>1. Unique(Held(c) \cup Readable)
      BY <1>1, <1>3, <2>17 DEF Good, RestoreOk, Writes
    <3>2. QED
      BY <1>2, <2>13, <2>17, <3>1 DEF Unique, Held, PersistInv
  <2>18. ASSUME ~lapsed PROVE WholeLine(coll[p])' /\ TruncateOk(coll[p])'
    BY <1>1, <1>2, <1>3, <2>5, <2>14, <2>18 DEF Good, WholeLine, Writes, TruncateOk
  <2>19. ASSUME ~lapsed PROVE DurableOk(coll[p])'
    <3> SUFFICES ASSUME checkpoint.ok
                 PROVE  /\ AllCovered(c.todo, Readable')
                        /\ tear = "fault" \/ AllCovered(c.archive \ (c.pending \ B), Readable')
      BY <1>1, <1>2, <1>3, <2>5, <2>14 DEF DurableOk
    <3>1. AllCovered(c.todo, Readable')
      BY <1>1, <2>13, <2>19 DEF Good, DurableOk, AllCovered, Covered
    <3>2. ASSUME tear # "fault" PROVE AllCovered(c.archive \ (c.pending \ B), Readable')
      <4>1. tear = "none"
        BY <1>1, <1>3, <2>8, <2>19, <3>2 DEF Good, WholeLine, Writes
      <4>2. AllCovered(c.archive \ c.pending, Readable')
        BY <1>1, <2>13, <2>19, <3>2 DEF Good, DurableOk, AllCovered, Covered
      <4>3. AllCovered(B, Readable')
        BY <2>1, <2>6, <2>12, <4>1, OwnRows
      <4>4. QED
        BY <4>2, <4>3 DEF AllCovered
    <3>3. QED
      BY <3>1, <3>2
  <2>20. ASSUME ~lapsed PROVE RestoreOk(coll[p])'
    <3>1. /\ Unique(Held(c) \cup Readable)
          /\ AllKnown(c.todo \cup Queued(c) \cup Readable, c.archive)
          /\ checkpoint.ok => WholeGroups(c.archive)
      BY <1>1, <1>3, <2>20 DEF Good, RestoreOk, Writes
    <3>2. Unique(Held(d) \cup Readable')
      BY <2>6, <2>13, <3>1 DEF Unique, Held
    <3>3. AllKnown(d.todo \cup Queued(d) \cup Readable', d.archive)
      BY <2>5, <2>6, <2>13, <3>1 DEF AllKnown
    <3>4. d.restored /\ (checkpoint.ok => WholeGroups(d.archive))
      BY <1>1, <1>3, <2>5, <3>1
    <3>5. QED
      BY <1>2, <2>14, <3>2, <3>3, <3>4 DEF RestoreOk, Held, Queued
  <2>21. Good(coll[p])'
    BY <1>2, <2>15, <2>18, <2>19, <2>20 DEF Good
  <2>22. c.writer /\ d.writer /\ journal' \in SUBSET Row
    BY <1>1, <1>3, <2>5, <2>6, <2>8, <2>10
  <2>23. QED
    BY <1>2, <2>1, <2>3, <2>8, <2>11, <2>16, <2>17, <2>21, <2>22, WriterStep
<1>4. CASE ~(~Refuses(c) /\ JournalHasRoom)
  <2> DEFINE s == IF Refuses(c) THEN c.status ELSE "full"
             d == UpdatedState([Popped(p) EXCEPT !.readOnly = c.readOnly, !.status = s])
  <2>1. s \in {"memory", "durable", "full"} /\ (s # "full" => c.status # "full") /\ c.readOnly \in BOOLEAN
    BY <1>1 DEF CollectorState
  <2>2. [Popped(p) EXCEPT !.readOnly = c.readOnly, !.status = s] = [Popped(p) EXCEPT !.status = s]
    BY <1>1 DEF CollectorState
  <2>3. coll' = [coll EXCEPT ![p] = d] /\ journal' = journal
    <3>1. Popped(p).status = c.status
      BY <1>1 DEF CollectorState
    <3>2. coll' = [coll EXCEPT ![p] = Failed(Popped(p), s)] /\ journal' = journal
      BY <1>1, <1>4, <3>1 DEF AppendRow
    <3>3. QED
      BY <2>2, <3>2 DEF Failed
  <2> HIDE DEF s
  <2>4. d \in CollectorState /\ Good(d) /\ d.writer = c.writer
    BY <1>1, <2>1, NoWriteIsGood
  <2> HIDE DEF d
  <2>5. QED
    BY <1>2, <2>3, <2>4, OwnStep
<1>5. QED
  BY <1>3, <1>4

LEMMA AppendFailsStep ==
    ASSUME PersistInv, NEW p \in Collectors, AppendFails(p)
    PROVE  PersistInv' /\ StillReadable
<1> DEFINE c == coll[p]
<1>1. /\ c \in CollectorState /\ Good(c) /\ Popped(p) \in CollectorState
      /\ c.writer /\ c.restored /\ ~c.readOnly /\ c.status # "full"
      /\ Popped(p) = [c EXCEPT !.writes = Tail(c.writes)] /\ NextWrite(p) # "none"
  BY PoppedIs DEF AppendFails
<1>2. PICK s \in {"full", "memory"} :
         /\ coll' = [coll EXCEPT ![p] = Failed(Popped(p), s)]
         /\ tear' \in {tear} \cup (IF tear = "none" THEN {IF s = "full" THEN "cut" ELSE "fault"} ELSE {})
  BY DEF AppendFails
<1> DEFINE d == UpdatedState([Popped(p) EXCEPT !.readOnly = c.readOnly, !.status = s])
<1>3. /\ UNCHANGED <<checkpoint, journal, lease, kept, lapsed>> /\ Counters'
  BY CountsAre DEF AppendFails, Fault, Counters
<1>4. coll' = [coll EXCEPT ![p] = d]
  <2>1. [Popped(p) EXCEPT !.readOnly = c.readOnly, !.status = s] = [Popped(p) EXCEPT !.status = s]
    BY <1>1 DEF CollectorState
  <2>2. QED
    BY <1>2, <2>1 DEF Failed
<1>5. c.readOnly \in BOOLEAN
  BY <1>1 DEF CollectorState
<1>6. d \in CollectorState /\ Good(d) /\ d.writer = c.writer
  BY <1>1, <1>5, NoWriteIsGood
<1>7. d.status = s /\ d.readOnly = c.readOnly
  BY <1>1 DEF UpdatedState, CollectorState
<1> HIDE DEF d
<1>8. /\ tear \in {"none", "cut", "fault"} /\ checkpoint \in [ok : BOOLEAN, rows : SUBSET Row]
      /\ journal \in SUBSET Row /\ coll \in [Collectors -> CollectorState] /\ FilesOk
  BY DEF PersistInv, PersistTypeOK
<1>9. tear' \in {"none", "cut", "fault"} /\ coll'[p] = d /\ (tear = "fault" => tear' = "fault")
  BY <1>2, <1>4, <1>8
<1>10. StillReadable /\ Readable' = Readable
  BY <1>3, SameFiles
<1>11. CollOk(coll[p])'
  BY <1>6, <1>9, CollOkLater DEF Good
<1>12. ASSUME ~lapsed PROVE WholeLine(coll[p])'
  BY <1>1, <1>2, <1>7, <1>9, <1>12 DEF Good, WholeLine, Writes
<1>13. ASSUME ~lapsed PROVE DurableOk(coll[p])' /\ TruncateOk(coll[p])'
  BY <1>3, <1>6, <1>9, <1>10, <1>13 DEF Good, DurableOk, TruncateOk
<1>14. ASSUME ~lapsed PROVE RestoreOk(coll[p])'
  BY <1>3, <1>6, <1>9, <1>10, <1>14 DEF Good, RestoreOk, Held, Queued, Writes
<1>15. Good(coll[p])'
  BY <1>3, <1>11, <1>12, <1>13, <1>14 DEF Good
<1>16. FilesOk'
  BY <1>3, <1>8 DEF FilesOk
<1>17. ~lapsed => Unique(Readable') /\ WholeGroups(checkpoint'.rows)
  BY <1>3, <1>10 DEF PersistInv
<1>18. checkpoint.ok /\ ~lapsed => AllCovered(Readable, Readable')
  BY <1>3, <1>10 DEF StillReadable
<1>19. checkpoint'.ok = checkpoint.ok /\ checkpoint' = checkpoint
       /\ checkpoint' \in [ok : BOOLEAN, rows : SUBSET Row] /\ journal' \in SUBSET Row /\ d.writer
  BY <1>1, <1>3, <1>6, <1>8
<1>20. QED
  BY <1>1, <1>3, <1>4, <1>6, <1>9, <1>15, <1>16, <1>17, <1>18, <1>19, WriterStep

(* The archive of a collector that may write is renamed into place. *)
LEMMA RenamedFiles ==
    ASSUME PersistInv, NEW p \in Collectors, coll[p].writer, coll[p].restored, ~coll[p].readOnly,
           checkpoint.ok, checkpoint' = [checkpoint EXCEPT !.rows = coll[p].archive],
           UNCHANGED <<journal, lapsed>>
    PROVE  /\ checkpoint' \in [ok : BOOLEAN, rows : SUBSET Row] /\ checkpoint'.ok
           /\ checkpoint'.rows = coll[p].archive
           /\ FilesOk' /\ Readable' = coll[p].archive \cup journal
           /\ ~lapsed => /\ Unique(Readable') /\ WholeGroups(checkpoint'.rows)
                         /\ AllCovered(Readable, Readable') /\ AllCovered(journal, coll[p].archive)
<1> DEFINE c == coll[p]
<1>1. /\ checkpoint \in [ok : BOOLEAN, rows : SUBSET Row] /\ journal \in SUBSET Row
      /\ Readable = checkpoint.rows \cup journal /\ Readable \subseteq Row /\ FilesOk
      /\ c \in CollectorState /\ Good(c)
  BY FilesAre DEF PersistInv, PersistTypeOK
<1>2. c.archive \in SUBSET Row
  BY <1>1 DEF CollectorState
<1>3. /\ checkpoint' \in [ok : BOOLEAN, rows : SUBSET Row] /\ checkpoint'.ok
      /\ checkpoint'.rows = c.archive
  BY <1>1, <1>2
<1>4. Readable' = c.archive \cup journal
  BY <1>3 DEF Readable
<1>5. FilesOk'
  BY <1>1, <1>3 DEF FilesOk, Good, CollOk, Held, Shaped
<1>6. ASSUME ~lapsed
      PROVE  /\ Unique(Readable') /\ WholeGroups(checkpoint'.rows)
             /\ AllCovered(Readable, Readable') /\ AllCovered(journal, c.archive)
  <2>1. /\ Unique(Held(c) \cup Readable) /\ AllKnown(c.todo \cup Queued(c) \cup Readable, c.archive)
        /\ WholeGroups(c.archive)
    BY <1>1, <1>6 DEF Good, RestoreOk, Writes
  <2>2. AllKnown(Readable, c.archive)
    BY <2>1 DEF AllKnown
  <2>3. AllCovered(Readable, c.archive)
    BY <1>1, <1>2, <2>2, KnownIsCovered
  <2>4. AllCovered(Readable, Readable') /\ AllCovered(journal, c.archive)
    BY <1>1, <1>4, <2>3 DEF AllCovered, Covered
  <2>5. Unique(Readable')
    BY <1>1, <1>4, <2>1 DEF Unique, Held
  <2>6. QED
    BY <1>3, <2>1, <2>4, <2>5
<1>7. QED
  BY <1>3, <1>4, <1>5, <1>6

LEMMA RenamedIsGood ==
    ASSUME PersistInv, NEW p \in Collectors, coll[p].writer, coll[p].restored, ~coll[p].readOnly,
           coll[p].status # "full",
           checkpoint.ok, checkpoint' = [checkpoint EXCEPT !.rows = coll[p].archive],
           UNCHANGED <<journal, tear, lapsed>>,
           NEW d \in CollectorState, CollOk(d), coll'[p] = d,
           d.todo = coll[p].todo, d.restored, d.archive = coll[p].archive,
           d.pending = coll[p].pending, d.writer, ~d.readOnly,
           Queued(d) \subseteq Queued(coll[p]), d.truncating => d.renamed = coll[p].archive
    PROVE  Good(coll[p])'
<1> DEFINE c == coll[p]
<1>1. /\ checkpoint'.ok /\ checkpoint'.rows = c.archive /\ Readable' = c.archive \cup journal
      /\ ~lapsed => AllCovered(Readable, Readable') /\ AllCovered(journal, c.archive)
                    /\ Unique(Readable')
  BY RenamedFiles
<1>2. /\ c \in CollectorState /\ Good(c) /\ Readable \subseteq Row /\ journal \subseteq Readable
      /\ journal \subseteq Row /\ tear \in {"none", "cut", "fault"}
  BY FilesAre
<1>3. c.archive \subseteq Row /\ c.todo \subseteq Row /\ Queued(c) \subseteq Row
  BY <1>2, QueueIs DEF CollectorState
<1>4. CollOk(coll[p])'
  BY CollOkLater
<1>5. ASSUME ~lapsed PROVE WholeLine(coll[p])'
  BY <1>2, <1>5 DEF Good, WholeLine, Writes
<1>6. ASSUME ~lapsed PROVE DurableOk(coll[p])'
  <2>1. AllCovered(c.todo, Readable')
    <3>1. AllCovered(c.todo, Readable)
      BY <1>2, <1>6 DEF Good, DurableOk
    <3>2. Readable' \subseteq Row
      BY <1>1, <1>2, <1>3
    <3>3. QED
      BY <1>1, <1>2, <1>3, <1>6, <3>1, <3>2, CoveredThrough
  <2>2. AllCovered(c.archive \ c.pending, Readable')
    BY <1>1, <1>3, OwnRows
  <2>3. QED
    BY <2>1, <2>2 DEF DurableOk
<1>7. ASSUME ~lapsed PROVE TruncateOk(coll[p])'
  <2>1. AllCovered(c.archive \ c.pending, c.archive)
    BY <1>3, OwnRows
  <2>2. QED
    BY <1>1, <1>7, <2>1 DEF TruncateOk
<1>8. ASSUME ~lapsed PROVE RestoreOk(coll[p])'
  <2>1. /\ Unique(Held(c) \cup Readable) /\ AllKnown(c.todo \cup Queued(c) \cup Readable, c.archive)
        /\ WholeGroups(c.archive)
    BY <1>2, <1>8 DEF Good, RestoreOk, Writes
  <2>2. Held(d) \cup Readable' \subseteq Held(c) \cup Readable
    BY <1>1, <1>2 DEF Held
  <2>3. Unique(Held(d) \cup Readable')
    BY <2>1, <2>2 DEF Unique
  <2>4. AllKnown(c.archive, c.archive)
    BY <1>3, OwnRows
  <2>5. AllKnown(d.todo \cup Queued(d) \cup Readable', d.archive)
    BY <1>1, <1>2, <2>1, <2>4 DEF AllKnown
  <2>6. QED
    BY <2>1, <2>3, <2>5 DEF RestoreOk, Held, Queued
<1>9. QED
  BY <1>4, <1>5, <1>6, <1>7, <1>8 DEF Good

LEMMA CheckpointRenameStep ==
    ASSUME PersistInv, NEW p \in Collectors, CheckpointRename(p)
    PROVE  PersistInv' /\ StillReadable
<1> DEFINE c == coll[p]
<1>1. /\ c \in CollectorState /\ Good(c) /\ c.writes # <<>> /\ ~c.truncating /\ c.stage # "off"
      /\ Popped(p) \in CollectorState /\ Popped(p) = [c EXCEPT !.writes = Tail(c.writes)]
      /\ ~Refuses(c) => c.writer /\ c.restored /\ ~c.readOnly /\ c.status # "full"
      /\ Refuses(Popped(p)) = Refuses(c) /\ NextWrite(p) # "none"
  BY PoppedIs DEF CheckpointRename
<1>2. /\ UNCHANGED <<journal, tear, lease, kept, starts, accepts, lapsed, faults>> /\ Counters'
  BY CountsAre DEF CheckpointRename, Counters
<1>3. CASE Checkpointable(p)
  <2> DEFINE d == [Popped(p) EXCEPT !.renamed = c.archive, !.truncating = TRUE]
  <2>1. ~Refuses(c) /\ checkpoint.ok
    BY <1>3 DEF Checkpointable
  <2>2. Popped(p).archive = c.archive
    BY <1>1 DEF CollectorState
  <2>3. coll' = [coll EXCEPT ![p] = d] /\ checkpoint' = [checkpoint EXCEPT !.rows = c.archive]
    BY <1>3, <2>2 DEF CheckpointRename
  <2>4. d \in CollectorState
    BY <1>1 DEF CollectorState
  <2>5. /\ d.stage = c.stage /\ d.todo = c.todo /\ d.restored = c.restored
        /\ d.archive = c.archive /\ d.pending = c.pending
        /\ d.writes = Tail(c.writes) /\ d.renamed = c.archive /\ d.truncating = TRUE
        /\ d.status = c.status /\ d.readOnly = c.readOnly /\ d.writer = c.writer
    BY <1>1 DEF CollectorState
  <2> HIDE DEF d
  <2>6. Queued(d) \subseteq Queued(c) /\ Held(d) \subseteq Held(c)
    BY <1>1, <2>4, <2>5, QueueIs DEF Held
  <2>7. CollOk(d)
    BY <1>1, <2>1, <2>5, <2>6 DEF Good, CollOk, Shaped
  <2>8. coll \in [Collectors -> CollectorState] /\ tear \in {"none", "cut", "fault"}
        /\ journal \in SUBSET Row
    BY DEF PersistInv, PersistTypeOK
  <2>9. coll'[p] = d
    BY <2>3, <2>8
  <2>10. c.writer /\ c.restored /\ ~c.readOnly /\ c.status # "full"
    BY <1>1, <2>1
  <2>11. Good(coll[p])'
    BY <1>2, <2>1, <2>3, <2>4, <2>5, <2>6, <2>7, <2>9, <2>10, RenamedIsGood
  <2>12. /\ checkpoint' \in [ok : BOOLEAN, rows : SUBSET Row] /\ checkpoint'.ok
         /\ FilesOk'
         /\ ~lapsed => /\ Unique(Readable') /\ WholeGroups(checkpoint'.rows)
                       /\ AllCovered(Readable, Readable')
    BY <1>2, <2>1, <2>3, <2>10, RenamedFiles
  <2>13. checkpoint'.ok = checkpoint.ok
    BY <2>1, <2>3, <2>12 DEF PersistInv, PersistTypeOK
  <2>14. journal' \in SUBSET Row /\ tear' \in {"none", "cut", "fault"} /\ d.writer
    BY <1>2, <2>5, <2>8, <2>10
  <2>15. QED
    BY <1>2, <2>1, <2>3, <2>4, <2>10, <2>11, <2>12, <2>13, <2>14, WriterStep
<1>4. CASE ~Checkpointable(p)
  <2> DEFINE asIs == Refuses(c) \/ checkpoint.ok
             s  == IF asIs THEN c.status ELSE StillDurable(c)
             ro == IF asIs THEN c.readOnly ELSE TRUE
             d  == UpdatedState([Popped(p) EXCEPT !.readOnly = ro, !.status = s])
  <2>1. /\ s \in {"memory", "durable", "full"} /\ (s # "full" => c.status # "full")
        /\ ro \in BOOLEAN /\ (c.readOnly => ro)
    BY <1>1 DEF CollectorState, StillDurable
  <2>2. coll' = [coll EXCEPT ![p] = d] /\ checkpoint' = checkpoint
    <3>1. CASE asIs
      <4>1. [Popped(p) EXCEPT !.readOnly = ro, !.status = s] = Popped(p)
        BY <1>1, <3>1 DEF CollectorState
      <4>2. QED
        BY <1>1, <1>4, <3>1, <4>1 DEF CheckpointRename
    <3>2. CASE ~asIs
      <4>1. [Popped(p) EXCEPT !.readOnly = ro, !.status = s]
               = [[Popped(p) EXCEPT !.readOnly = TRUE] EXCEPT !.status = StillDurable(Popped(p))]
        BY <1>1, <3>2 DEF CollectorState, StillDurable
      <4>2. QED
        BY <1>1, <1>4, <3>2, <4>1 DEF CheckpointRename, Failed
    <3>3. QED
      BY <3>1, <3>2
  <2> HIDE DEF s, ro
  <2>3. d \in CollectorState /\ Good(d) /\ d.writer = c.writer
    BY <1>1, <2>1, NoWriteIsGood
  <2> HIDE DEF d
  <2>4. QED
    BY <1>2, <2>2, <2>3, OwnStep
<1>5. QED
  BY <1>3, <1>4

LEMMA CheckpointFailsStep ==
    ASSUME PersistInv, NEW p \in Collectors, CheckpointFails(p)
    PROVE  PersistInv' /\ StillReadable
<1> DEFINE c == coll[p]
<1>1. /\ c \in CollectorState /\ Good(c) /\ Popped(p) \in CollectorState
      /\ c.writer /\ c.restored /\ ~c.readOnly /\ c.status # "full" /\ checkpoint.ok
      /\ Popped(p) = [c EXCEPT !.writes = Tail(c.writes)] /\ NextWrite(p) # "none"
      /\ c.writes # <<>>
  BY PoppedIs DEF CheckpointFails, Checkpointable
<1>2. Popped(p).status = c.status /\ Popped(p).archive = c.archive
  BY <1>1 DEF CollectorState
<1>3. PICK s \in {"full", StillDurable(c)} :
         /\ coll' = [coll EXCEPT ![p] = Failed(Popped(p), s)]
         /\ checkpoint' \in {checkpoint, [checkpoint EXCEPT !.rows = c.archive]}
  BY <1>2 DEF CheckpointFails, StillDurable
<1> DEFINE d == UpdatedState([Popped(p) EXCEPT !.readOnly = c.readOnly, !.status = s])
<1>4. /\ UNCHANGED <<journal, tear, lease, kept, lapsed>> /\ Counters'
  BY CountsAre DEF CheckpointFails, Fault, Counters
<1>5. coll' = [coll EXCEPT ![p] = d]
  <2>1. [Popped(p) EXCEPT !.readOnly = c.readOnly, !.status = s] = [Popped(p) EXCEPT !.status = s]
    BY <1>1 DEF CollectorState
  <2>2. QED
    BY <1>3, <2>1 DEF Failed
<1>6. c.readOnly \in BOOLEAN /\ s \in {"memory", "durable", "full"}
  BY <1>1 DEF CollectorState, StillDurable
<1>7. d \in CollectorState /\ Good(d) /\ d.writer = c.writer
  BY <1>1, <1>6, NoWriteIsGood
<1>8. /\ d.stage = c.stage /\ d.todo = c.todo /\ d.restored = c.restored
      /\ d.archive = c.archive /\ d.pending = c.pending
      /\ d.writes = Tail(c.writes) /\ d.renamed = c.renamed /\ d.truncating = c.truncating
      /\ d.status = s /\ d.readOnly = c.readOnly
  BY <1>1, <1>6 DEF UpdatedState, CollectorState
<1> HIDE DEF d
<1>9. CASE checkpoint' = checkpoint
  BY <1>4, <1>5, <1>7, <1>9, OwnStep
<1>10. CASE checkpoint' = [checkpoint EXCEPT !.rows = c.archive]
  <2>1. coll \in [Collectors -> CollectorState] /\ tear \in {"none", "cut", "fault"}
        /\ journal \in SUBSET Row
    BY DEF PersistInv, PersistTypeOK
  <2>2. coll'[p] = d /\ CollOk(d) /\ Queued(d) \subseteq Queued(c) /\ ~d.truncating
    BY <1>1, <1>5, <1>7, <1>8, <2>1, QueueIs DEF Good, NextWrite
  <2>3. Good(coll[p])'
    BY <1>1, <1>4, <1>7, <1>8, <1>10, <2>2, RenamedIsGood
  <2>4. /\ checkpoint' \in [ok : BOOLEAN, rows : SUBSET Row] /\ checkpoint'.ok
        /\ FilesOk'
        /\ ~lapsed => /\ Unique(Readable') /\ WholeGroups(checkpoint'.rows)
                      /\ AllCovered(Readable, Readable')
    BY <1>1, <1>4, <1>10, RenamedFiles
  <2>5. checkpoint'.ok = checkpoint.ok
    BY <1>1, <1>10, <2>4 DEF PersistInv, PersistTypeOK
  <2>6. journal' \in SUBSET Row /\ tear' \in {"none", "cut", "fault"} /\ d.writer
    BY <1>1, <1>4, <1>7, <2>1
  <2>7. QED
    BY <1>1, <1>4, <1>5, <1>7, <2>3, <2>4, <2>5, <2>6, WriterStep
<1>11. QED
  BY <1>3, <1>9, <1>10

(* The collector after the journal was emptied, or was not. *)
LEMMA TruncatedIs ==
    ASSUME PersistInv, NEW p \in Collectors, coll[p].truncating,
           NEW s \in {"memory", "durable", "full"}
    PROVE  LET d == UpdatedState([Truncating(p) EXCEPT !.status = s]) IN
           /\ coll[p] \in CollectorState /\ Good(coll[p])
           /\ coll[p].writer /\ coll[p].restored /\ coll[p].status # "full" /\ coll[p].stage # "off"
           /\ d \in CollectorState /\ CollOk(d)
           /\ d.stage = coll[p].stage /\ d.todo = coll[p].todo /\ d.restored = coll[p].restored
           /\ d.archive = coll[p].archive /\ d.pending = coll[p].pending \ coll[p].renamed
           /\ d.writes = coll[p].writes /\ d.renamed = {} /\ d.truncating = FALSE
           /\ d.status = s /\ d.readOnly = coll[p].readOnly /\ d.writer = coll[p].writer
           /\ Queued(d) = Queued(coll[p])
<1> DEFINE c == coll[p]
           b == [Truncating(p) EXCEPT !.status = s]
           d == UpdatedState(b)
<1>1. c \in CollectorState /\ Good(c)
  BY FilesAre
<1>2. c.writer /\ c.restored /\ c.status # "full" /\ c.stage # "off"
  BY <1>1 DEF Good, CollOk, Stopped
<1>3. b \in CollectorState
  BY <1>1 DEF CollectorState, Truncating
<1>4. /\ b.stage = c.stage /\ b.todo = c.todo /\ b.restored = c.restored
      /\ b.archive = c.archive /\ b.pending = c.pending \ c.renamed
      /\ b.writes = c.writes /\ b.renamed = {} /\ b.truncating = FALSE
      /\ b.status = s /\ b.readOnly = c.readOnly /\ b.writer = c.writer
  BY <1>1 DEF CollectorState, Truncating
<1> HIDE DEF b
<1>5. d \in CollectorState /\ Alike(b, d)
  BY <1>3, UpdatedIs
<1> HIDE DEF d
<1>6. /\ d.stage = c.stage /\ d.todo = c.todo /\ d.restored = c.restored
      /\ d.archive = c.archive /\ d.pending = c.pending \ c.renamed
      /\ d.writes = c.writes /\ d.renamed = {} /\ d.truncating = FALSE
      /\ d.status = s /\ d.readOnly = c.readOnly /\ d.writer = c.writer
  BY <1>4, <1>5 DEF Alike
<1>7. Queued(d) = Queued(c)
  BY <1>1, <1>5, <1>6, QueueIs
<1>8. CollOk(d)
  BY <1>1, <1>2, <1>6, <1>7 DEF Good, CollOk, Held
<1>9. QED
  BY <1>1, <1>2, <1>5, <1>6, <1>7, <1>8 DEF b, d

LEMMA TruncateFailsStep ==
    ASSUME PersistInv, NEW p \in Collectors, TruncateFails(p)
    PROVE  PersistInv' /\ StillReadable
<1> DEFINE c == coll[p]
<1>1. PICK s \in {"full", StillDurable(c)} : coll' = [coll EXCEPT ![p] = Failed(Truncating(p), s)]
  BY DEF TruncateFails
<1>2. /\ UNCHANGED <<checkpoint, journal, tear, lease, kept, lapsed>> /\ Counters' /\ c.truncating
  BY CountsAre DEF TruncateFails, Fault, Counters
<1> DEFINE d == UpdatedState([Truncating(p) EXCEPT !.status = s])
<1>3. coll' = [coll EXCEPT ![p] = d] /\ s \in {"memory", "durable", "full"}
  BY <1>1 DEF Failed, StillDurable
<1>4. /\ c \in CollectorState /\ Good(c) /\ c.writer /\ c.restored /\ c.status # "full"
      /\ d \in CollectorState /\ CollOk(d)
      /\ d.stage = c.stage /\ d.todo = c.todo /\ d.restored = c.restored
      /\ d.archive = c.archive /\ d.pending = c.pending \ c.renamed
      /\ d.truncating = FALSE /\ d.status = s /\ d.readOnly = c.readOnly /\ d.writer = c.writer
      /\ Queued(d) = Queued(c)
  BY <1>2, <1>3, TruncatedIs
<1> HIDE DEF d
<1>5. Held(d) = Held(c)
  BY <1>4 DEF Held
<1>6. Readable = checkpoint.rows \cup journal /\ checkpoint.rows \subseteq Row
  BY FilesAre
<1>7. ASSUME ~lapsed PROVE WholeLine(d) /\ TruncateOk(d)
  BY <1>4, <1>7 DEF Good, WholeLine, TruncateOk, Writes
<1>8. ASSUME ~lapsed PROVE DurableOk(d)
  <2> SUFFICES ASSUME checkpoint.ok, tear # "fault" PROVE AllCovered(d.archive \ d.pending, Readable)
    BY <1>4, <1>8 DEF Good, DurableOk
  <2>1. AllCovered(c.archive \ c.pending, Readable) /\ c.renamed = checkpoint.rows
    BY <1>2, <1>4, <1>8 DEF Good, DurableOk, TruncateOk
  <2>2. AllCovered(c.renamed, Readable)
    BY <1>6, <2>1, OwnRows
  <2>3. QED
    BY <1>4, <2>1, <2>2 DEF AllCovered
<1>9. ASSUME ~lapsed PROVE RestoreOk(d)
  BY <1>4, <1>5, <1>9 DEF Good, RestoreOk, Writes
<1>10. Good(d)
  BY <1>4, <1>7, <1>8, <1>9 DEF Good
<1>11. QED
  BY <1>2, <1>3, <1>4, <1>10, OwnStep

LEMMA JournalTruncateStep ==
    ASSUME PersistInv, NEW p \in Collectors, JournalTruncate(p)
    PROVE  PersistInv' /\ StillReadable
<1> DEFINE c == coll[p]
           d == UpdatedState([Truncating(p) EXCEPT !.status = "durable"])
<1>1. /\ UNCHANGED <<checkpoint, lease, kept, lapsed>> /\ Counters' /\ c.truncating
      /\ journal' = {} /\ tear' = "none"
  BY CountsAre DEF JournalTruncate, Counters
<1>2. coll' = [coll EXCEPT ![p] = d]
  <2>1. c \in CollectorState
    BY FilesAre
  <2>2. [Truncating(p) EXCEPT !.pending = @ \ {}, !.status = "durable"]
           = [Truncating(p) EXCEPT !.status = "durable"]
    BY <2>1 DEF Truncating, CollectorState
  <2>3. QED
    BY <2>2 DEF JournalTruncate, Durable
<1>3. /\ c \in CollectorState /\ Good(c) /\ c.writer /\ c.restored /\ c.status # "full"
      /\ d \in CollectorState /\ CollOk(d)
      /\ d.stage = c.stage /\ d.todo = c.todo /\ d.restored = c.restored
      /\ d.archive = c.archive /\ d.pending = c.pending \ c.renamed
      /\ d.truncating = FALSE /\ d.status = "durable" /\ d.readOnly = c.readOnly /\ d.writer = c.writer
      /\ Queued(d) = Queued(c)
  BY <1>1, TruncatedIs
<1> HIDE DEF d
<1>4. Held(d) = Held(c)
  BY <1>3 DEF Held
<1>5. /\ checkpoint.rows \subseteq Row /\ journal \subseteq Row /\ Readable = checkpoint.rows \cup journal
      /\ Readable \subseteq Row /\ FilesOk /\ coll \in [Collectors -> CollectorState]
      /\ checkpoint \in [ok : BOOLEAN, rows : SUBSET Row]
  BY FilesAre DEF PersistInv, PersistTypeOK
<1>6. coll'[p] = d
  BY <1>2, <1>5
<1>7. FilesOk'
  BY <1>1, <1>5 DEF FilesOk, Shaped
<1>8. Readable' = checkpoint.rows /\ Readable' \subseteq Readable
  BY <1>1, <1>5 DEF FilesOk, Readable
<1>9. ASSUME ~lapsed, checkpoint.ok PROVE AllCovered(Readable, Readable')
  <2>1. AllCovered(journal, checkpoint.rows)
    BY <1>1, <1>3, <1>9 DEF Good, TruncateOk
  <2>2. AllCovered(checkpoint.rows, checkpoint.rows)
    BY <1>5, OwnRows
  <2>3. QED
    BY <1>5, <1>8, <2>1, <2>2 DEF AllCovered
<1>10. ASSUME ~lapsed PROVE Unique(Readable') /\ WholeGroups(checkpoint'.rows)
  BY <1>1, <1>8, <1>10 DEF PersistInv, Unique
<1>11. CollOk(coll[p])'
  BY <1>3, <1>6, CollOkLater
<1>12. ASSUME ~lapsed PROVE WholeLine(coll[p])' /\ TruncateOk(coll[p])'
  BY <1>1, <1>3, <1>6 DEF WholeLine, TruncateOk
<1>13. ASSUME ~lapsed PROVE DurableOk(coll[p])'
  <2> SUFFICES ASSUME checkpoint.ok
               PROVE  AllCovered(d.todo, Readable') /\ AllCovered(d.archive \ d.pending, Readable')
    BY <1>1, <1>6 DEF DurableOk
  <2>1. AllCovered(c.todo, Readable) /\ AllCovered(Readable, Readable') /\ c.todo \subseteq Row
    BY <1>3, <1>9, <1>13 DEF Good, DurableOk, CollectorState
  <2>2. AllCovered(c.todo, Readable')
    BY <1>5, <1>8, <2>1, CoveredThrough
  <2>3. AllCovered(c.archive \ c.pending, checkpoint.rows) /\ c.renamed = checkpoint.rows
    BY <1>1, <1>3, <1>13 DEF Good, TruncateOk
  <2>4. AllCovered(c.renamed, checkpoint.rows)
    BY <1>5, <2>3, OwnRows
  <2>5. QED
    BY <1>3, <1>8, <2>2, <2>3, <2>4 DEF AllCovered
<1>14. ASSUME ~lapsed PROVE RestoreOk(coll[p])'
  <2> SUFFICES ASSUME Writes(c) PROVE RestoreOk(coll[p])'
    BY <1>3, <1>6 DEF RestoreOk, Writes
  <2>1. /\ Unique(Held(c) \cup Readable) /\ AllKnown(c.todo \cup Queued(c) \cup Readable, c.archive)
        /\ checkpoint.ok => WholeGroups(c.archive)
    BY <1>3, <1>14 DEF Good, RestoreOk
  <2>2. Unique(Held(d) \cup Readable')
    BY <1>4, <1>8, <2>1 DEF Unique
  <2>3. AllKnown(d.todo \cup Queued(d) \cup Readable', d.archive)
    BY <1>3, <1>8, <2>1 DEF AllKnown
  <2>4. d.restored /\ (checkpoint.ok => WholeGroups(d.archive))
    BY <1>3, <2>1
  <2>5. QED
    BY <1>1, <1>6, <2>2, <2>3, <2>4 DEF RestoreOk, Held, Queued
<1>15. Good(coll[p])'
  BY <1>1, <1>11, <1>12, <1>13, <1>14 DEF Good
<1>16. checkpoint'.ok = checkpoint.ok /\ checkpoint' = checkpoint
       /\ checkpoint' \in [ok : BOOLEAN, rows : SUBSET Row] /\ journal' \in SUBSET Row
       /\ tear' \in {"none", "cut", "fault"} /\ d.writer
  BY <1>1, <1>3, <1>5
<1>17. QED
  BY <1>1, <1>2, <1>3, <1>7, <1>9, <1>10, <1>15, <1>16, WriterStep

(* Another program damages the checkpoint: nothing of it can be read any more. *)
LEMMA CheckpointDamagedStep ==
    ASSUME PersistInv, CheckpointDamaged
    PROVE  PersistInv' /\ StillReadable
<1>1. /\ checkpoint.ok /\ checkpoint' = [ok |-> FALSE, rows |-> {}]
      /\ UNCHANGED <<journal, tear, lease, kept, coll, starts, accepts, lapsed>> /\ Counters'
  BY CountsAre DEF CheckpointDamaged, Fault, Counters
<1>2. /\ checkpoint.rows \subseteq Row /\ journal \subseteq Row /\ Readable = checkpoint.rows \cup journal
      /\ FilesOk /\ \A q \in Collectors : coll[q] \in CollectorState /\ Good(coll[q])
  BY FilesAre
<1>3. Readable' = journal /\ Readable' \subseteq Readable /\ ~checkpoint'.ok /\ checkpoint'.rows = {}
  BY <1>1, <1>2 DEF Readable
<1>4. FilesOk'
  BY <1>1, <1>2, <1>3 DEF FilesOk, Flat, Shaped
<1>5. ASSUME NEW q \in Collectors PROVE Good(coll[q])'
  <2>1. CollOk(coll[q])'
    BY <1>1, <1>2, CollOkLater DEF Good
  <2>2. ASSUME ~lapsed PROVE WholeLine(coll[q])' /\ DurableOk(coll[q])' /\ TruncateOk(coll[q])'
    BY <1>1, <1>2, <1>3, <2>2 DEF Good, WholeLine, Writes, DurableOk, TruncateOk
  <2>3. ASSUME ~lapsed PROVE RestoreOk(coll[q])'
    <3> SUFFICES ASSUME Writes(coll[q]) PROVE RestoreOk(coll[q])'
      BY <1>1 DEF RestoreOk, Writes
    <3>1. RestoreOk(coll[q])
      BY <1>2, <2>3 DEF Good
    <3>2. Unique(Held(coll[q]) \cup Readable')
      BY <1>3, <3>1 DEF RestoreOk, Unique
    <3>3. coll[q].restored => AllKnown(coll[q].todo \cup Queued(coll[q]) \cup Readable', coll[q].archive)
      BY <1>3, <3>1 DEF RestoreOk, AllKnown
    <3>4. /\ AllKnown(checkpoint'.rows, coll[q].archive \cup coll[q].todo)
          /\ ~coll[q].restored /\ coll[q].stage = "journal" =>
                AllKnown(Readable', coll[q].archive \cup coll[q].todo)
      BY <1>3, <3>1 DEF RestoreOk, AllKnown
    <3>5. QED
      BY <1>1, <1>3, <3>2, <3>3, <3>4 DEF RestoreOk, Held, Queued
  <2>4. QED
    BY <1>1, <2>1, <2>2, <2>3 DEF Good
<1>6. PersistTypeOK'
  BY <1>1 DEF PersistInv, PersistTypeOK, Counters
<1>7. ~lapsed => Unique(Readable') /\ WholeGroups(checkpoint'.rows)
                 /\ \A q \in Collectors : LeaseOk(q)'
  BY <1>1, <1>3 DEF PersistInv, Unique, WholeGroups, LeaseOk
<1>8. StillReadable
  BY <1>1, <1>3 DEF StillReadable
<1>9. QED
  BY <1>1, <1>4, <1>5, <1>6, <1>7, <1>8 DEF PersistInv

(* A collector that stopped leaves the others as they are; the line it was
   writing may be cut off. *)
LEMMA StopStep ==
    ASSUME PersistInv, NEW p \in Collectors, coll' = [coll EXCEPT ![p] = Stopped],
           UNCHANGED <<checkpoint, journal, lapsed>>, Counters',
           lease' \in Collectors \cup {Nobody}, kept' \in BOOLEAN,
           tear' \in {"none", "cut", "fault"}, tear = "fault" => tear' = "fault",
           tear' = tear \/ coll[p].writer,
           ~lapsed => \A q \in Collectors : q # p /\ coll[q].writer => lease' = q /\ kept'
    PROVE  PersistInv' /\ StillReadable
<1>1. /\ coll \in [Collectors -> CollectorState] /\ \A q \in Collectors : Good(coll[q])
  BY FilesAre
<1>2. /\ coll' \in [Collectors -> CollectorState]
      /\ \A q \in Collectors : coll'[q] = IF q = p THEN Stopped ELSE coll[q]
  BY <1>1, StoppedIs
<1>3. Readable' = Readable /\ StillReadable
  BY SameFiles
<1>4. ASSUME NEW q \in Collectors PROVE Good(coll[q])'
  <2>1. CASE q = p
    <3>1. coll'[q] = Stopped
      BY <1>2, <2>1
    <3>2. CollOk(coll[q])'
      BY <3>1, StoppedIs, CollOkLater
    <3>3. /\ ~coll'[q].writer /\ ~coll'[q].truncating /\ coll'[q].todo = {} /\ coll'[q].archive = {}
      BY <3>1 DEF Stopped
    <3>4. WholeLine(coll[q])' /\ TruncateOk(coll[q])' /\ RestoreOk(coll[q])'
      BY <3>3 DEF WholeLine, TruncateOk, RestoreOk, Writes
    <3>5. DurableOk(coll[q])'
      BY <3>3 DEF DurableOk, AllCovered
    <3>6. QED
      BY <3>2, <3>4, <3>5 DEF Good
  <2>2. CASE q # p
    <3>1. coll'[q] = coll[q] /\ Good(coll[q])
      BY <1>1, <1>2, <2>2
    <3>2. CollOk(coll[q])'
      BY <3>1, CollOkLater DEF Good
    <3>3. ~lapsed => tear' = tear \/ ~coll[q].writer
      BY <2>2 DEF PersistInv, LeaseOk
    <3>4. ~lapsed => WholeLine(coll[q])' /\ DurableOk(coll[q])' /\ TruncateOk(coll[q])'
      BY <1>3, <3>1, <3>3 DEF Good, WholeLine, Writes, DurableOk, TruncateOk
    <3>5. ~lapsed => RestoreOk(coll[q])'
      BY <1>3, <3>1 DEF Good, RestoreOk, Held, Queued, Writes
    <3>6. QED
      BY <3>2, <3>4, <3>5 DEF Good
  <2>3. QED
    BY <2>1, <2>2
<1>5. PersistTypeOK'
  <2>1. \A q \in Collectors : coll'[q].renamed # {} => coll'[q].truncating
    BY <1>4 DEF Good, CollOk
  <2>2. QED
    BY <1>2, <2>1 DEF PersistInv, PersistTypeOK, Counters
<1>6. FilesOk'
  BY DEF PersistInv, FilesOk
<1>7. ~lapsed => \A q \in Collectors : LeaseOk(q)'
  BY <1>2 DEF LeaseOk, Stopped
<1>8. ~lapsed => Unique(Readable') /\ WholeGroups(checkpoint'.rows)
  BY <1>3 DEF PersistInv
<1>9. QED
  BY <1>3, <1>4, <1>5, <1>6, <1>7, <1>8 DEF PersistInv

LEMMA CrashStep ==
    ASSUME PersistInv, NEW p \in Collectors, Crash(p)
    PROVE  PersistInv' /\ StillReadable
<1>1. /\ coll' = [coll EXCEPT ![p] = Stopped] /\ coll[p].stage # "off"
      /\ UNCHANGED <<checkpoint, journal, lease, kept, starts, accepts, lapsed, faults>>
      /\ tear' = tear \/ (tear = "none" /\ tear' = "cut" /\ ~Refuses(coll[p]))
  BY DEF Crash
<1>2. Counters' /\ lease' \in Collectors \cup {Nobody} /\ kept' \in BOOLEAN
      /\ tear' \in {"none", "cut", "fault"} /\ (tear = "fault" => tear' = "fault")
  BY <1>1, CountsAre DEF PersistInv, PersistTypeOK, Counters
<1>3. ~Refuses(coll[p]) => coll[p].writer
  BY <1>1, FilesAre DEF Refuses, Good, CollOk
<1>4. ~lapsed => \A q \in Collectors : q # p /\ coll[q].writer => lease' = q /\ kept'
  BY <1>1 DEF PersistInv, LeaseOk
<1>5. QED
  BY <1>1, <1>2, <1>3, <1>4, StopStep

LEMMA CollectorEndStep ==
    ASSUME PersistInv, NEW p \in Collectors, CollectorEnd(p)
    PROVE  PersistInv' /\ StillReadable
<1>1. /\ coll' = [coll EXCEPT ![p] = Stopped]
      /\ lease' \in IF ~coll[p].writer THEN {lease}
                    ELSE IF lease = p THEN {Nobody} ELSE {lease, Nobody}
      /\ kept' = (kept /\ lease' # Nobody)
      /\ UNCHANGED <<checkpoint, journal, tear, starts, accepts, lapsed, faults>>
  BY DEF CollectorEnd
<1>2. /\ lease \in Collectors \cup {Nobody} /\ kept \in BOOLEAN /\ tear \in {"none", "cut", "fault"}
      /\ Nobody \notin Collectors
  BY PersistAssumption DEF PersistInv, PersistTypeOK
<1>3. Counters' /\ lease' \in Collectors \cup {Nobody} /\ kept' \in BOOLEAN
      /\ tear' \in {"none", "cut", "fault"} /\ tear' = tear
  BY <1>1, <1>2, CountsAre DEF Counters
<1>4. ~lapsed => \A q \in Collectors : q # p /\ coll[q].writer => lease' = q /\ kept'
  BY <1>1, <1>2 DEF PersistInv, LeaseOk
<1>5. QED
  BY <1>1, <1>3, <1>4, StopStep

LEMMA CollectorStartStep ==
    ASSUME PersistInv, NEW p \in Collectors, CollectorStart(p)
    PROVE  PersistInv' /\ StillReadable
<1> DEFINE todo == IF checkpoint.ok THEN checkpoint.rows ELSE {}
           d == [Stopped EXCEPT !.stage = "checkpoint", !.writer = LeaseFree,
                                !.readOnly = ~LeaseFree \/ ~checkpoint.ok, !.todo = todo]
<1>1. /\ coll' = [coll EXCEPT ![p] = d] /\ starts < MaxStarts /\ starts' = starts + 1
      /\ UNCHANGED <<checkpoint, journal, tear, accepts, lapsed, faults>>
      /\ IF LeaseFree THEN lease' = p /\ kept' = TRUE ELSE UNCHANGED <<lease, kept>>
  BY DEF CollectorStart
<1>2. /\ checkpoint.rows \subseteq Row /\ journal \subseteq Row /\ Readable = checkpoint.rows \cup journal
      /\ Readable \subseteq Row /\ FilesOk /\ checkpoint.ok \in BOOLEAN
      /\ coll \in [Collectors -> CollectorState] /\ \A q \in Collectors : Good(coll[q])
  BY FilesAre
<1>3. todo \subseteq checkpoint.rows /\ (checkpoint.ok => todo = checkpoint.rows)
  OBVIOUS
<1> HIDE DEF todo
<1>4. todo \in SUBSET Row /\ LeaseFree \in BOOLEAN /\ (~LeaseFree \/ ~checkpoint.ok) \in BOOLEAN
  BY <1>2, <1>3 DEF LeaseFree
<1>5. d \in CollectorState
  BY <1>4, StoppedIs DEF CollectorState
<1>6. /\ d.stage = "checkpoint" /\ d.todo = todo /\ d.restored = FALSE /\ d.archive = {}
      /\ d.pending = {} /\ d.writes = <<>> /\ d.renamed = {} /\ d.truncating = FALSE
      /\ d.writer = LeaseFree /\ d.readOnly = (~LeaseFree \/ ~checkpoint.ok)
  BY DEF Stopped
<1> HIDE DEF d
<1>7. Queued(d) = {} /\ Held(d) = todo
  BY <1>6 DEF Queued, Held
<1>8. CollOk(d)
  BY <1>2, <1>3, <1>4, <1>6, <1>7 DEF CollOk, Flat, Shaped, FilesOk
<1>9. WholeLine(d) /\ TruncateOk(d)
  BY <1>6 DEF WholeLine, TruncateOk
<1>10. DurableOk(d)
  <2>1. AllCovered(todo, Readable) /\ d.archive \ d.pending = {}
    BY <1>2, <1>3, <1>4, <1>6, OwnRows
  <2>2. QED
    BY <1>6, <2>1 DEF DurableOk, AllCovered
<1>11. ASSUME ~lapsed PROVE RestoreOk(d)
  <2> SUFFICES ASSUME Writes(d) PROVE RestoreOk(d)
    BY DEF RestoreOk
  <2>1. checkpoint.ok /\ todo = checkpoint.rows
    BY <1>2, <1>3, <1>4, <1>6 DEF Writes
  <2>2. Held(d) \cup Readable = Readable /\ d.archive \cup d.todo = checkpoint.rows
    BY <1>2, <1>6, <1>7, <2>1
  <2>3. Unique(Readable) /\ AllKnown(checkpoint.rows, checkpoint.rows)
    BY <1>2, <1>11, OwnRows DEF PersistInv
  <2>4. QED
    BY <1>2, <1>6, <2>2, <2>3 DEF RestoreOk
<1>12. Good(d)
  BY <1>8, <1>9, <1>10, <1>11 DEF Good
<1>13. \A q \in Collectors : coll'[q] = IF q = p THEN d ELSE coll[q]
  BY <1>1, <1>2
<1>14. coll' \in [Collectors -> CollectorState]
  BY <1>1, <1>2, <1>5
<1>15. \A q \in Collectors : Good(coll[q])'
  <2>1. \A q \in Collectors : Good(coll'[q])
    BY <1>2, <1>12, <1>13
  <2>2. QED
    BY <1>1, <2>1, SameFilesGood
<1>16. Readable' = Readable /\ StillReadable
  BY <1>1, SameFiles
<1>17. Counters'
  BY <1>1, CountsAre DEF Counters
<1>18. PersistTypeOK'
  <2>1. \A q \in Collectors : coll'[q].renamed # {} => coll'[q].truncating
    BY <1>15 DEF Good, CollOk
  <2>2. lease' \in Collectors \cup {Nobody} /\ kept' \in BOOLEAN
    BY <1>1 DEF PersistInv, PersistTypeOK
  <2>3. QED
    BY <1>1, <1>14, <1>17, <2>1, <2>2 DEF PersistInv, PersistTypeOK, Counters
<1>19. FilesOk'
  BY <1>1 DEF PersistInv, FilesOk
<1>20. ~lapsed => \A q \in Collectors : LeaseOk(q)'
  <2> SUFFICES ASSUME ~lapsed, NEW q \in Collectors, coll'[q].writer PROVE lease' = q /\ kept'
    BY DEF LeaseOk
  <2>1. CASE q = p
    BY <1>1, <1>6, <1>13, <2>1
  <2>2. CASE q # p
    <3>1. lease = q /\ kept /\ q # Nobody
      BY <1>13, <2>2, PersistAssumption DEF PersistInv, LeaseOk
    <3>2. QED
      BY <1>1, <3>1 DEF LeaseFree
  <2>3. QED
    BY <2>1, <2>2
<1>21. ~lapsed => Unique(Readable') /\ WholeGroups(checkpoint'.rows)
  BY <1>1, <1>16 DEF PersistInv
<1>22. QED
  BY <1>1, <1>15, <1>16, <1>18, <1>19, <1>20, <1>21 DEF PersistInv

LEMMA LeaseGoesStaleStep ==
    ASSUME PersistInv, LeaseGoesStale
    PROVE  PersistInv' /\ StillReadable
<1>1. /\ lease # Nobody /\ kept' = FALSE
      /\ UNCHANGED <<checkpoint, journal, tear, lease, coll, starts, accepts>>
      /\ IF coll[lease].writer THEN Fault /\ lapsed' = TRUE ELSE UNCHANGED <<lapsed, faults>>
  BY DEF LeaseGoesStale
<1>2. Counters' /\ lapsed' \in BOOLEAN /\ (~lapsed' => ~lapsed /\ lapsed' = lapsed)
  <2>1. lapsed \in BOOLEAN
    BY FilesAre
  <2>2. CASE coll[lease].writer
    BY <1>1, <2>1, <2>2, CountsAre DEF Fault, Counters
  <2>3. CASE ~coll[lease].writer
    BY <1>1, <2>1, <2>3, CountsAre DEF Counters
  <2>4. QED
    BY <2>2, <2>3
<1>3. Readable' = Readable /\ StillReadable
  BY <1>1, SameFiles
<1>4. PersistTypeOK'
  BY <1>1, <1>2 DEF PersistInv, PersistTypeOK, Counters
<1>5. FilesOk'
  BY <1>1 DEF PersistInv, FilesOk
<1>6. ASSUME NEW q \in Collectors PROVE Good(coll[q])'
  <2>1. Good(coll[q]) /\ coll'[q] = coll[q]
    BY <1>1, FilesAre
  <2>2. CASE lapsed' = lapsed
    BY <1>1, <2>1, <2>2, SameFilesGood
  <2>3. CASE lapsed' # lapsed
    <3>1. CollOk(coll[q])' /\ lapsed'
      BY <1>2, <2>1, <2>3, CollOkLater DEF Good
    <3>2. QED
      BY <3>1 DEF Good
  <2>4. QED
    BY <2>2, <2>3
<1>7. ASSUME ~lapsed' PROVE \A q \in Collectors : LeaseOk(q)'
  <2>1. ~lapsed /\ ~coll[lease].writer
    BY <1>1, <1>2, <1>7
  <2>2. \A q \in Collectors : ~coll[q].writer
    BY <2>1 DEF PersistInv, LeaseOk
  <2>3. QED
    BY <1>1, <2>2 DEF LeaseOk
<1>8. ~lapsed' => Unique(Readable') /\ WholeGroups(checkpoint'.rows)
  BY <1>1, <1>2, <1>3 DEF PersistInv
<1>9. QED
  BY <1>3, <1>4, <1>5, <1>6, <1>7, <1>8 DEF PersistInv

-----------------------------------------------------------------------------
(* The theorems *)

LEMMA PersistInitially == PersistInit => PersistInv
<1> SUFFICES ASSUME PersistInit PROVE PersistInv
  OBVIOUS
<1>1. /\ checkpoint \in [ok : BOOLEAN, rows : SUBSET Row] /\ checkpoint.rows = {} /\ journal = {}
      /\ coll \in [Collectors -> CollectorState] /\ \A p \in Collectors : coll[p] = Stopped
  BY StoppedIs DEF PersistInit
<1>2. Readable = {}
  BY <1>1 DEF Readable
<1>3. PersistTypeOK
  <2>1. \A p \in Collectors : coll[p].renamed = {}
    BY <1>1 DEF Stopped
  <2>2. /\ 0 \in 0 .. MaxStarts /\ 0 \in 0 .. MaxAccepts /\ 0 \in 0 .. MaxFaults
    BY PersistAssumption
  <2>3. QED
    BY <1>1, <2>1, <2>2 DEF PersistInit, PersistTypeOK
<1>4. FilesOk
  BY <1>1 DEF FilesOk, Flat, Shaped
<1>5. ASSUME NEW p \in Collectors PROVE Good(coll[p])
  <2>1. CollOk(coll[p]) /\ coll[p] = Stopped
    BY <1>1, StoppedIs
  <2>2. /\ ~coll[p].writer /\ ~coll[p].truncating /\ coll[p].todo = {} /\ coll[p].archive = {}
    BY <2>1 DEF Stopped
  <2>3. WholeLine(coll[p]) /\ TruncateOk(coll[p]) /\ RestoreOk(coll[p]) /\ DurableOk(coll[p])
    BY <2>2 DEF WholeLine, TruncateOk, RestoreOk, Writes, DurableOk, AllCovered
  <2>4. QED
    BY <2>1, <2>3 DEF Good
<1>6. Unique(Readable) /\ WholeGroups(checkpoint.rows) /\ \A p \in Collectors : LeaseOk(p)
  BY <1>1, <1>2 DEF Unique, WholeGroups, LeaseOk, Stopped
<1>7. QED
  BY <1>3, <1>4, <1>5, <1>6 DEF PersistInv

LEMMA PersistStutters ==
    ASSUME PersistInv, UNCHANGED persistVars
    PROVE  PersistInv' /\ StillReadable
<1>1. UNCHANGED <<checkpoint, journal, tear, lease, kept, coll, starts, accepts, lapsed, faults>>
  BY DEF persistVars
<1>2. Readable' = Readable /\ StillReadable
  BY <1>1, SameFiles
<1>3. \A q \in Collectors : Good(coll[q])'
  BY <1>1, FilesAre, SameFilesGood
<1>4. PersistTypeOK' /\ FilesOk'
  BY <1>1 DEF PersistInv, PersistTypeOK, FilesOk
<1>5. ~lapsed' => /\ Unique(Readable') /\ WholeGroups(checkpoint'.rows)
                  /\ \A q \in Collectors : LeaseOk(q)'
  BY <1>1, <1>2 DEF PersistInv, LeaseOk
<1>6. QED
  BY <1>2, <1>3, <1>4, <1>5 DEF PersistInv

LEMMA PersistSteps ==
    PersistInv /\ [PersistNext]_persistVars => PersistInv' /\ StillReadable
<1> SUFFICES ASSUME PersistInv, [PersistNext]_persistVars PROVE PersistInv' /\ StillReadable
  OBVIOUS
<1>1. CASE UNCHANGED persistVars
  BY <1>1, PersistStutters
<1>2. CASE LeaseGoesStale
  BY <1>2, LeaseGoesStaleStep
<1>3. CASE CheckpointDamaged
  BY <1>3, CheckpointDamagedStep
<1>4. ASSUME NEW p \in Collectors,
             \/ CollectorStart(p) \/ RestoreSlice(p) \/ RestoreJournal(p) \/ RestoreEnd(p)
             \/ AcceptResponse(p) \/ AcceptSnapshot(p) \/ Backfill(p)
             \/ AppendRow(p) \/ AppendFails(p) \/ CheckpointRename(p) \/ CheckpointFails(p)
             \/ JournalTruncate(p) \/ TruncateFails(p)
             \/ CollectorClose(p) \/ CollectorEnd(p) \/ Crash(p)
      PROVE  PersistInv' /\ StillReadable
  BY <1>4, CollectorStartStep, RestoreSliceStep, RestoreJournalStep, RestoreEndStep,
     AcceptResponseStep, AcceptSnapshotStep, BackfillStep, AppendRowStep, AppendFailsStep,
     CheckpointRenameStep, CheckpointFailsStep, JournalTruncateStep, TruncateFailsStep,
     CollectorCloseStep, CollectorEndStep, CrashStep
<1>5. QED
  BY <1>1, <1>2, <1>3, <1>4 DEF PersistNext

(* The inductive invariant of the persistence: who may write, what it knows,
   and what of it can be read (usage/persist.ts, usage/collector.ts). *)
THEOREM PersistInvariant == PersistSpec => []PersistInv
<1>1. QED
  BY PersistInitially, PersistSteps, PTL DEF PersistSpec

(* The variables have their types, and only a collector between the rename and
   the truncation remembers what it renamed. *)
THEOREM PersistTypesCorrect == PersistSpec => []PersistTypeOK
<1>1. PersistInv => PersistTypeOK
  BY DEF PersistInv
<1>2. QED
  BY <1>1, PersistInvariant, PTL

LEMMA DurableRowsAreReadable == PersistInv => DurableIsReadable
<1> SUFFICES ASSUME PersistInv, ~lapsed, tear # "fault", checkpoint.ok,
                    NEW p \in Collectors, NEW r \in coll[p].archive \ coll[p].pending
             PROVE  \E q \in Readable : q.exec = r.exec /\ q.rev >= r.rev
  BY DEF DurableIsReadable
<1>1. AllCovered(coll[p].archive \ coll[p].pending, Readable)
  BY DEF PersistInv, Good, DurableOk
<1>2. QED
  BY <1>1 DEF AllCovered, Covered

LEMMA ReloadsAreSound == PersistInv => ReloadIsSound
<1> SUFFICES ASSUME PersistInv, ~lapsed
             PROVE  /\ \A r \in Newest(Readable) :
                         {q.part : q \in {q \in Newest(Readable) : q.exec = r.exec}} = r.batch
                    /\ \A r, q \in Readable : SameRow(r, q) => r = q
  BY DEF ReloadIsSound
<1>1. /\ checkpoint.rows \subseteq Row /\ journal \subseteq Row /\ Readable = checkpoint.rows \cup journal
      /\ Readable \subseteq Row /\ FilesOk
  BY FilesAre
<1>2. Unique(Readable) /\ WholeGroups(checkpoint.rows)
  BY DEF PersistInv
<1>3. Newest(Readable) \subseteq Readable /\ Flat(Newest(Readable))
      /\ AllKnown(Readable, Newest(Readable))
  BY <1>1, NewestIs
<1>4. WholeGroups(Newest(Readable))
  <2>1. \A r \in journal : r.exec \in Responses
    BY <1>1 DEF FilesOk
  <2>2. Newest(Readable) \subseteq Row /\ Flat(checkpoint.rows)
    BY <1>1, <1>3 DEF FilesOk
  <2>3. QED
    BY <1>1, <1>2, <1>3, <2>1, <2>2, GroupsStayWhole
<1>5. ASSUME NEW r \in Newest(Readable)
      PROVE  {q.part : q \in {q \in Newest(Readable) : q.exec = r.exec}} = r.batch
  <2>1. CASE r.exec \in Groups
    <3>1. PartsOf(r.exec, Newest(Readable)) = r.batch
      BY <1>4, <2>1 DEF WholeGroups
    <3>2. QED
      BY <3>1, Zenon DEF PartsOf
  <2>2. CASE r.exec \in Responses
    <3>1. Shaped(Readable)
      BY <1>1 DEF FilesOk, Shaped
    <3>2. \A q \in Newest(Readable) : q.exec = r.exec => q.part = ThePart
      BY <1>3, <2>2, <3>1 DEF Shaped
    <3>3. r.part = ThePart /\ r.batch = {ThePart}
      BY <1>3, <2>2, <3>1 DEF Shaped
    <3>4. QED
      BY <3>2, <3>3
  <2>3. QED
    BY <1>1, <1>3, <2>1, <2>2, RowFields DEF Origins
<1>6. QED
  BY <1>2, <1>5 DEF Unique

(* What was acknowledged can be read back, what a load sees is whole and has
   one content for each revision, and what can be read stays readable, through
   crashes, faults of the disk, restarts and any interleaving of the readers
   and the writer (usage/persist.ts, usage/collector.ts). *)
THEOREM StorageAlwaysSound == PersistSpec => StorageIsSound
<1>1. PersistInv => DurableIsReadable /\ ReloadIsSound
  BY DurableRowsAreReadable, ReloadsAreSound
<1>2. PersistInv /\ [PersistNext]_persistVars =>
        [~lapsed' => /\ checkpoint'.ok => \A r \in Readable : \E q \in Readable' :
                                             q.exec = r.exec /\ q.rev >= r.rev
                     /\ ~checkpoint.ok => checkpoint' = checkpoint]_persistVars
  BY PersistSteps DEF StillReadable, AllCovered, Covered
<1>3. QED
  BY <1>1, <1>2, PersistInvariant, PTL DEF PersistSpec, StorageIsSound, NothingReadableIsLost
=============================================================================
